--------------------------- MODULE RetrievalProofs ---------------------------
(***************************************************************************)
(* Proofs about reads of a collection while it is written, for any number  *)
(* of readers, files, chunks and writes.  First folds, sorting and the     *)
(* operators of Fusion.tla that are made of them: merge_windows, by which  *)
(* passages are runs, and rrf_fuse.  Then what is stored, and the readers. *)
(* The library's induction takes an operator as a parameter, so that what  *)
(* is proved about a fold goes by the least set it would be wrong of.      *)
(***************************************************************************)
EXTENDS Retrieval, FiniteSetTheorems, SequenceTheorems, WellFoundedInduction, TLAPS

(* A set of numbers that is not empty has a least member. *)
LEMMA Least ==
  ASSUME NEW T \in SUBSET Nat, T # {}
  PROVE  \E n \in T : \A m \in T : n <= m
<1>1. PICK n \in T : \A m \in T : ~(<<m, n>> \in OpToRel(<, Nat))
  BY NatLessThanWellFounded, WFMin
<1>2. \A m \in T : ~(m < n)
  BY <1>1 DEF OpToRel
<1> QED
  BY <1>2

(* The values of a fold over the subsets of S: a fold takes one element     *)
(* after the other, picked from what is left.                               *)
Foldable(S, V, b, pick, step) ==
  /\ IsFiniteSet(S) /\ b \in V /\ step \in [S -> [V -> V]]
  /\ \A s \in SUBSET S : s # {} => pick[s] \in s
FoldsTo(f, S, b, pick, step) ==
  \A s \in SUBSET S : f[s] = IF s = {} THEN b ELSE step[pick[s]][f[s \ {pick[s]}]]

(* A fold has values: one function meets its equations on every subset.     *)
LEMMA FoldExists ==
  ASSUME NEW S, NEW V, NEW b, NEW pick, NEW step, Foldable(S, V, b, pick, step)
  PROVE  \E f \in [SUBSET S -> V] : FoldsTo(f, S, b, pick, step)
<1> USE DEF Foldable, FoldsTo
<1> DEFINE D(n) == {s \in SUBSET S : Cardinality(s) <= n}
           Fits(n) == \E f \in [D(n) -> V] : \A s \in D(n) :
                        f[s] = IF s = {} THEN b ELSE step[pick[s]][f[s \ {pick[s]}]]
           Bad == {n \in Nat : ~Fits(n)}
<1>c. ASSUME NEW s \in SUBSET S PROVE IsFiniteSet(s) /\ Cardinality(s) \in Nat
  BY FS_Subset, FS_CardinalityType
<1>r. ASSUME NEW s \in SUBSET S, s # {}
      PROVE  /\ s \ {pick[s]} \in SUBSET S /\ pick[s] \in S
             /\ Cardinality(s \ {pick[s]}) = Cardinality(s) - 1
  BY <1>c, <1>r, FS_RemoveElement
<1>1. Fits(0)
  <2> DEFINE f == [s \in D(0) |-> b]
  <2>1. f \in [D(0) -> V]
    OBVIOUS
  <2>2. ASSUME NEW s \in D(0) PROVE s = {}
    BY <1>c, FS_EmptySet
  <2>3. \A s \in D(0) : f[s] = IF s = {} THEN b ELSE step[pick[s]][f[s \ {pick[s]}]]
    BY <2>2
  <2> QED
    BY <2>1, <2>3
<1>2. ASSUME NEW n \in Nat, Fits(n) PROVE Fits(n + 1)
  <2>1. PICK f \in [D(n) -> V] : \A s \in D(n) :
               f[s] = IF s = {} THEN b ELSE step[pick[s]][f[s \ {pick[s]}]]
    BY <1>2
  <2> DEFINE g == [s \in D(n + 1) |-> IF s = {} THEN b ELSE step[pick[s]][f[s \ {pick[s]}]]]
  <2>2. ASSUME NEW s \in D(n + 1), s # {} PROVE s \ {pick[s]} \in D(n) /\ pick[s] \in S
    BY <1>r, <1>c, <2>2
  <2>3. g \in [D(n + 1) -> V]
    <3>1. ASSUME NEW s \in D(n + 1), s # {} PROVE step[pick[s]][f[s \ {pick[s]}]] \in V
      BY <2>2, <3>1
    <3> QED
      BY <3>1
  <2>4. ASSUME NEW s \in D(n) PROVE s \in D(n + 1) /\ g[s] = f[s]
    <3>1. Cardinality(s) \in Nat /\ Cardinality(s) <= n
      BY <1>c
    <3>2. s \in D(n + 1)
      BY <3>1
    <3> QED
      BY <2>1, <3>2
  <2>5. ASSUME NEW s \in D(n + 1)
        PROVE  g[s] = IF s = {} THEN b ELSE step[pick[s]][g[s \ {pick[s]}]]
    <3>1. CASE s = {}
      BY <3>1
    <3>2. CASE s # {}
      <4>1. g[s \ {pick[s]}] = f[s \ {pick[s]}]
        BY <2>2, <2>4, <3>2
      <4> QED
        BY <3>2, <4>1
    <3> QED
      BY <3>1, <3>2
  <2> HIDE DEF g
  <2> QED
    BY <2>3, <2>5
<1>3. Bad = {}
  <2> SUFFICES ASSUME Bad # {} PROVE FALSE
    OBVIOUS
  <2>1. PICK n \in Bad : \A m \in Bad : n <= m
    BY Least
  <2> HIDE DEF Fits
  <2>2. n # 0
    BY <1>1
  <2>3. n - 1 \in Nat /\ ~(n <= n - 1)
    BY <2>2
  <2>4. Fits(n - 1)
    BY <2>1, <2>3
  <2>5. Fits((n - 1) + 1)
    BY <1>2, <2>3, <2>4
  <2>6. (n - 1) + 1 = n
    OBVIOUS
  <2> QED
    BY <2>5, <2>6
<1>4. Fits(Cardinality(S))
  BY <1>3, <1>c
<1>5. D(Cardinality(S)) = SUBSET S
  BY <1>c, FS_Subset
<1> QED
  BY <1>4, <1>5

(* Whatever satisfies the fold's equations while it stays in V does stay.   *)
FoldsIn(f, S, V, b, pick, step) ==
  /\ f[{}] = b
  /\ \A s \in SUBSET S : s # {} /\ f[s \ {pick[s]}] \in V => f[s] = step[pick[s]][f[s \ {pick[s]}]]

LEMMA FoldStaysIn ==
  ASSUME NEW S, NEW V, NEW b, NEW pick, NEW step, Foldable(S, V, b, pick, step),
         NEW f, FoldsIn(f, S, V, b, pick, step)
  PROVE  \A s \in SUBSET S : f[s] \in V
<1> USE DEF Foldable, FoldsIn
<1> DEFINE Bad == {s \in SUBSET S : f[s] \notin V}
           Sizes == {Cardinality(s) : s \in Bad}
<1>c. ASSUME NEW s \in SUBSET S PROVE IsFiniteSet(s) /\ Cardinality(s) \in Nat
  BY FS_Subset, FS_CardinalityType
<1> SUFFICES ASSUME Bad # {} PROVE FALSE
  OBVIOUS
<1>0. Sizes \in SUBSET Nat /\ Sizes # {}
  BY <1>c
<1>1. PICK n \in Sizes : \A m \in Sizes : n <= m
  BY <1>0, Least
<1>2. PICK s \in Bad : Cardinality(s) = n
  OBVIOUS
<1>3. s # {}
  BY <1>2
<1>4. Cardinality(s \ {pick[s]}) = Cardinality(s) - 1 /\ s \ {pick[s]} \in SUBSET S
  BY <1>c, <1>3, FS_RemoveElement
<1>5. s \ {pick[s]} \in Bad
  <2> SUFFICES ASSUME f[s \ {pick[s]}] \in V PROVE FALSE
    BY <1>4
  <2>1. pick[s] \in S
    BY <1>3
  <2>2. f[s] = step[pick[s]][f[s \ {pick[s]}]]
    BY <1>3
  <2> HIDE DEF Bad
  <2>3. step[pick[s]] \in [V -> V]
    BY <2>1
  <2>4. f[s] \in V
    BY <2>2, <2>3
  <2> QED
    BY <2>4 DEF Bad
<1>6. Cardinality(s \ {pick[s]}) \in Sizes /\ n \in Nat
  BY <1>0, <1>5
<1> HIDE DEF Sizes, Bad
<1>7. n <= Cardinality(s) - 1
  BY <1>1, <1>4, <1>6
<1> QED
  BY <1>2, <1>6, <1>7

(* The greatest of some of the numbers up to n.                             *)
LEMMA GreatestOf ==
  ASSUME NEW n \in Nat, NEW s \in SUBSET (1..n), s # {}
  PROVE  Max(s) \in s /\ \A x \in s : x <= Max(s)
<1> DEFINE room == {n - x : x \in s}
<1>0. \A x \in s : x \in Nat /\ x <= n /\ n - x \in Nat
  OBVIOUS
<1>1. room \in SUBSET Nat /\ room # {}
  BY <1>0
<1>2. PICK r \in room : \A q \in room : r <= q
  BY <1>1, Least
<1>3. PICK m \in s : r = n - m
  BY <1>2
<1>4. \A x \in s : n - m <= n - x
  BY <1>2, <1>3
<1>5. \A x \in s : m >= x
  BY <1>0, <1>4
<1>6. Max(s) \in s /\ \A x \in s : Max(s) >= x
  BY <1>5 DEF Max
<1> QED
  BY <1>0, <1>6

(* A fold from the left, as FoldLeft makes it: the values r[k] after k      *)
(* elements, of which the last is the result.                               *)
Greatest(n) == [s \in SUBSET (1..n) |-> Max(s)]

(* Taking the greatest number first is a way to fold over 1..n.             *)
LEMMA LeftFoldable ==
  ASSUME NEW n \in Nat, NEW V, NEW b \in V, NEW step \in [1..n -> [V -> V]]
  PROVE  Foldable(1..n, V, b, Greatest(n), step)
<1>1. IsFiniteSet(1..n)
  BY FS_Interval
<1>2. \A s \in SUBSET (1..n) : s # {} => Greatest(n)[s] \in s
  BY GreatestOf DEF Greatest
<1> QED
  BY <1>1, <1>2 DEF Foldable

(* The values r[k] after k steps from b, the last of them being last.       *)
Leads(n, V, b, step, last) ==
  \E r \in [0..n -> V] : /\ r[0] = b /\ r[n] = last
                         /\ \A k \in 1..n : r[k] = step[k][r[k - 1]]

(* The fold that takes the greatest number first is walked from 1 to n.     *)
LEMMA LeftFold ==
  ASSUME NEW n \in Nat, NEW V, NEW b \in V, NEW step \in [1..n -> [V -> V]], NEW f,
         FoldsIn(f, 1..n, V, b, Greatest(n), step)
  PROVE  Leads(n, V, b, step, f[1..n])
<1> DEFINE r == [k \in 0..n |-> f[1..k]]
<1>1. Foldable(1..n, V, b, Greatest(n), step)
  BY LeftFoldable
<1>4. \A s \in SUBSET (1..n) : f[s] \in V
  BY <1>1, FoldStaysIn
<1>5. r \in [0..n -> V]
  <2>1. \A k \in 0..n : 1..k \in SUBSET (1..n)
    OBVIOUS
  <2> QED
    BY <1>4, <2>1
<1>6. r[0] = b /\ r[n] = f[1..n]
  <2>1. 1..0 = {}
    OBVIOUS
  <2> QED
    BY <2>1 DEF FoldsIn
<1>7. ASSUME NEW k \in 1..n PROVE r[k] = step[k][r[k - 1]]
  <2>1. 1..k \in SUBSET (1..n) /\ k \in 1..k
    OBVIOUS
  <2>2. Max(1..k) \in 1..k /\ \A x \in 1..k : x <= Max(1..k)
    BY <2>1, GreatestOf
  <2>3. Max(1..k) = k
    BY <2>1, <2>2
  <2>4. (1..k) \ {k} = 1..(k - 1)
    OBVIOUS
  <2>5. k - 1 \in 0..n /\ k \in 0..n /\ 1..(k - 1) \in SUBSET (1..n)
    OBVIOUS
  <2>6. 1..k # {} /\ Greatest(n)[1..k] = k
    BY <2>1, <2>3 DEF Greatest
  <2>7. f[1..(k - 1)] \in V
    BY <1>4, <2>5
  <2>8. f[1..k] = step[k][f[1..(k - 1)]]
    <3> HIDE DEF r
    <3> QED
      BY <2>1, <2>4, <2>6, <2>7 DEF FoldsIn
  <2> QED
    BY <2>5, <2>8
<1> HIDE DEF r
<1> QED
  BY <1>5, <1>6, <1>7 DEF Leads

(* The stored chunks and questions there can be.                            *)
Rows == [source : Sources, index : Nat, copy : Nat]
Asked == [parent : Rows, nr : Nat]

(* The nearest questions' parents. *)
LEMMA ParentsAre ==
  ASSUME NEW ranking \in Seq(Asked)
  PROVE  LET n == Len(ranking)
         IN \E r \in [0..n -> Seq(Rows)] :
              /\ r[0] = <<>> /\ Parents(ranking) = r[n]
              /\ \A k \in 1..n : r[k] = IF ranking[k].parent \in ToSet(r[k - 1]) THEN r[k - 1]
                                        ELSE Append(r[k - 1], ranking[k].parent)
<1> DEFINE n == Len(ranking)
           V == Seq(Rows)
           step == [i \in 1..n |-> [v \in V |-> IF ranking[i].parent \in ToSet(v) THEN v
                                                 ELSE Append(v, ranking[i].parent)]]
           Eq(g) == g = [s \in SUBSET (1..n) |->
                      IF s = {} THEN <<>>
                      ELSE IF ranking[Max(s)].parent \in ToSet(g[s \ {Max(s)}]) THEN g[s \ {Max(s)}]
                           ELSE Append(g[s \ {Max(s)}], ranking[Max(s)].parent)]
           f == CHOOSE g : Eq(g)
<1>0. n \in Nat /\ DOMAIN ranking = 1..n /\ \A i \in 1..n : ranking[i] \in Asked
  OBVIOUS
<1>1. Parents(ranking) = f[1..n]
  BY <1>0 DEF Parents, FoldLeft, MapThenFoldSet
<1>2. <<>> \in V
  OBVIOUS
<1>3. step \in [1..n -> [V -> V]]
  <2>1. ASSUME NEW i \in 1..n, NEW v \in V
        PROVE (IF ranking[i].parent \in ToSet(v) THEN v ELSE Append(v, ranking[i].parent)) \in V
    <3>1. ranking[i].parent \in Rows
      BY <1>0 DEF Asked
    <3> QED
      BY <3>1
  <2> QED
    BY <2>1
<1>4. ASSUME NEW s \in SUBSET (1..n), s # {} PROVE Max(s) \in 1..n
  BY <1>0, <1>4, GreatestOf
<1>f. Foldable(1..n, V, <<>>, Greatest(n), step)
  BY <1>0, <1>2, <1>3, LeftFoldable
<1>m. \A s \in SUBSET (1..n) : Greatest(n)[s] = Max(s)
  BY DEF Greatest
<1>5. \E g : Eq(g)
  <2> HIDE DEF step
  <2>1. PICK g \in [SUBSET (1..n) -> V] : FoldsTo(g, 1..n, <<>>, Greatest(n), step)
    BY <1>f, FoldExists
  <2>2. \A s \in SUBSET (1..n) : g[s] = IF s = {} THEN <<>> ELSE step[Max(s)][g[s \ {Max(s)}]]
    BY <2>1, <1>m DEF FoldsTo
  <2> USE DEF step
  <2>3. ASSUME NEW s \in SUBSET (1..n), s # {}
        PROVE  step[Max(s)][g[s \ {Max(s)}]]
                 = IF ranking[Max(s)].parent \in ToSet(g[s \ {Max(s)}]) THEN g[s \ {Max(s)}]
                           ELSE Append(g[s \ {Max(s)}], ranking[Max(s)].parent)
    <3>1. g[s \ {Max(s)}] \in V
      BY <2>1
    <3> QED
      BY <1>4, <2>3, <3>1
  <2>4. Eq(g)
    <3> HIDE DEF step
    <3> QED
    BY <2>1, <2>2, <2>3
  <2> QED
    BY <2>4
<1>6. Eq(f)
  <2> HIDE DEF Eq
  <2> QED
  BY <1>5
<1>7. FoldsIn(f, 1..n, V, <<>>, Greatest(n), step)
  <2>1. f[{}] = <<>>
    BY <1>6
  <2>2. ASSUME NEW s \in SUBSET (1..n), s # {}, f[s \ {Max(s)}] \in V
        PROVE f[s] = step[Max(s)][f[s \ {Max(s)}]]
    <3> DEFINE m == Max(s)
               before == f[s \ {m}]
    <3>1. f[s] = IF ranking[m].parent \in ToSet(before) THEN before
                           ELSE Append(before, ranking[m].parent)
      <4> HIDE DEF f, step
      <4> QED
      BY <1>6, <2>2
    <3>2. m \in 1..n /\ before \in V
      BY <1>4, <2>2
    <3> HIDE DEF before, m, f
    <3>3. step[m][before] = IF ranking[m].parent \in ToSet(before) THEN before
                           ELSE Append(before, ranking[m].parent)
      BY <3>2
    <3> USE DEF before, m
    <3> QED
      BY <3>1, <3>3
  <2> QED
    BY <1>m, <2>1, <2>2 DEF FoldsIn
<1> HIDE DEF f, step, n, V
<1>n. n \in Nat
  BY <1>0
<1>8. Leads(n, V, <<>>, step, f[1..n])
  BY <1>n, <1>2, <1>3, <1>7, LeftFold
<1>r. PICK r \in [0..n -> V] : /\ r[0] = <<>> /\ r[n] = f[1..n]
           /\ \A k \in 1..n : r[k] = step[k][r[k - 1]]
  BY <1>8 DEF Leads
<1>9. \A k \in 1..n : r[k - 1] \in V
  BY <1>n
<1> USE DEF step, n, V
<1>10. \A k \in 1..n : r[k] = IF ranking[k].parent \in ToSet(r[k - 1]) THEN r[k - 1]
                                        ELSE Append(r[k - 1], ranking[k].parent)
  BY <1>r, <1>9
<1> QED
  BY <1>1, <1>r, <1>10

-----------------------------------------------------------------------------
(* Sorting by the number of members that come before. *)
Ordered(S, R) ==
  /\ \A x \in S : <<x, x>> \notin R
  /\ \A x, y, z \in S : <<x, y>> \in R /\ <<y, z>> \in R => <<x, z>> \in R
  /\ \A x, y \in S : x # y => <<x, y>> \in R \/ <<y, x>> \in R
Rank(S, R, x) == Cardinality({y \in S : <<y, x>> \in R})
ByRank(s, S, R) ==
  /\ s = [n \in 1..Cardinality(S) |-> s[n]]
  /\ \A n \in 1..Cardinality(S) : s[n] \in S /\ Rank(S, R, s[n]) = n - 1
SortedInto(s, S, R) ==
  /\ s \in Seq(S) /\ Len(s) = Cardinality(S) /\ ToSet(s) = S
  /\ \A m, n \in 1..Len(s) : m < n <=> <<s[m], s[n]>> \in R
  /\ \A m, n \in 1..Len(s) : s[m] = s[n] => m = n

(* Where the order is strict and total, more members come before the later  *)
(* one.                                                                     *)
LEMMA RankRises ==
  ASSUME NEW S, IsFiniteSet(S), NEW R, Ordered(S, R), NEW x \in S
  PROVE  /\ Rank(S, R, x) \in 0..(Cardinality(S) - 1)
         /\ \A y \in S : <<x, y>> \in R => Rank(S, R, x) < Rank(S, R, y)
<1> DEFINE below(y) == {z \in S : <<z, y>> \in R}
<1>c. ASSUME NEW T \in SUBSET S PROVE IsFiniteSet(T) /\ Cardinality(T) \in Nat
  BY FS_Subset, FS_CardinalityType
<1>1. ASSUME NEW T \in SUBSET S, below(x) \subseteq T, x \in T
      PROVE  Cardinality(below(x)) < Cardinality(T)
  <2>1. below(x) \in SUBSET T /\ below(x) \in SUBSET S /\ x \notin below(x)
    BY <1>1 DEF Ordered
  <2>2. IsFiniteSet(T) /\ Cardinality(T) \in Nat /\ Cardinality(below(x)) \in Nat
    BY <1>c, <2>1
  <2>3. Cardinality(below(x)) <= Cardinality(T) /\ Cardinality(below(x)) # Cardinality(T)
    BY <1>1, <2>1, <2>2, FS_Subset
  <2> QED
    BY <2>2, <2>3
<1>2. below(x) \in SUBSET S /\ Cardinality(below(x)) \in Nat /\ Cardinality(S) \in Nat
  BY <1>c
<1>3. Cardinality(below(x)) < Cardinality(S)
  BY <1>1, <1>2
<1>4. ASSUME NEW y \in S, <<x, y>> \in R PROVE Cardinality(below(x)) < Cardinality(below(y))
  <2>1. below(y) \in SUBSET S /\ below(x) \subseteq below(y) /\ x \in below(y)
    BY <1>4 DEF Ordered
  <2> QED
    BY <1>1, <2>1
<1> HIDE DEF below
<1>5. Cardinality(below(x)) \in 0..(Cardinality(S) - 1)
  BY <1>2, <1>3
<1> USE DEF below
<1> QED
  BY <1>4, <1>5 DEF Rank

(* Every rank is taken.                                                     *)
LEMMA RankOnto ==
  ASSUME NEW S, IsFiniteSet(S), NEW R, Ordered(S, R), NEW n \in 0..(Cardinality(S) - 1)
  PROVE  \E x \in S : Rank(S, R, x) = n
<1> DEFINE T == 0..(Cardinality(S) - 1)
           f == [x \in S |-> Rank(S, R, x)]
<1>1. Cardinality(S) \in Nat
  BY FS_CardinalityType
<1>2. IsFiniteSet(T) /\ Cardinality(T) = Cardinality(S)
  <2>1. 0 \in Int /\ Cardinality(S) - 1 \in Int /\ (0 > Cardinality(S) - 1 <=> Cardinality(S) = 0)
        /\ Cardinality(S) - 1 - 0 + 1 = Cardinality(S)
    BY <1>1
  <2> QED
    BY <2>1, FS_Interval
<1>3. f \in [S -> T]
  BY RankRises
<1>4. ASSUME NEW x \in S, NEW y \in S, f[x] = f[y] PROVE x = y
  <2>1. <<x, y>> \in R => Rank(S, R, x) < Rank(S, R, y)
    BY RankRises
  <2>2. <<y, x>> \in R => Rank(S, R, y) < Rank(S, R, x)
    BY RankRises
  <2>3. Rank(S, R, x) \in T /\ Rank(S, R, y) \in T
    BY RankRises
  <2>4. ~(Rank(S, R, x) < Rank(S, R, y)) /\ ~(Rank(S, R, y) < Rank(S, R, x))
    BY <1>4, <2>3
  <2> QED
    BY <2>1, <2>2, <2>4 DEF Ordered
<1>5. f \in Injection(S, T)
  <2> HIDE DEF f, T
  <2> QED
  BY <1>3, <1>4 DEF Injection, IsInjective
<1>6. f \in Surjection(S, T)
  <2> HIDE DEF f, T
  <2> QED
    BY <1>2, <1>5, FS_Injection
<1> QED
  BY <1>6 DEF Surjection

(* A sequence by rank is the set sorted: all members, once each, in order.  *)
LEMMA SortedIs ==
  ASSUME NEW S, IsFiniteSet(S), NEW R, Ordered(S, R), NEW s, ByRank(s, S, R)
  PROVE  SortedInto(s, S, R)
<1> DEFINE c == Cardinality(S)
<1>1. c \in Nat
  BY FS_CardinalityType
<1>2. ASSUME NEW n \in 1..c PROVE s[n] \in S /\ Rank(S, R, s[n]) = n - 1
  BY DEF ByRank
<1>3. s = [n \in 1..c |-> s[n]]
  BY DEF ByRank
<1> HIDE DEF c
<1>4. s \in Seq(S) /\ Len(s) = c /\ DOMAIN s = 1..c
  BY <1>1, <1>2, <1>3
<1>5. ASSUME NEW x \in S PROVE \E n \in 1..c : s[n] = x
  <2>1. Rank(S, R, x) \in 0..(c - 1)
    BY RankRises DEF c
  <2> DEFINE n == Rank(S, R, x) + 1
  <2>2. n \in 1..c /\ n - 1 = Rank(S, R, x)
    BY <1>1, <2>1
  <2>3. s[n] \in S /\ Rank(S, R, s[n]) = Rank(S, R, x)
    BY <1>2, <2>2
  <2>4. <<s[n], x>> \in R => Rank(S, R, s[n]) < Rank(S, R, x)
    BY <2>3, RankRises
  <2>5. <<x, s[n]>> \in R => Rank(S, R, x) < Rank(S, R, s[n])
    BY <2>3, RankRises
  <2>6. ~(Rank(S, R, x) < Rank(S, R, x))
    BY <1>1, <2>1
  <2>7. s[n] = x
    BY <2>3, <2>4, <2>5, <2>6 DEF Ordered
  <2> QED
    BY <2>2, <2>7
<1>6. ToSet(s) = S
  BY <1>2, <1>4, <1>5 DEF ToSet
<1>7. ASSUME NEW m \in 1..c, NEW n \in 1..c, <<s[m], s[n]>> \in R PROVE m < n
  <2>1. Rank(S, R, s[m]) < Rank(S, R, s[n])
    BY <1>2, <1>7, RankRises
  <2>2. m - 1 < n - 1
    BY <1>2, <2>1
  <2> QED
    BY <1>1, <2>2
<1>8. ASSUME NEW m \in 1..c, NEW n \in 1..c, s[m] = s[n] PROVE m = n
  <2>1. m - 1 = n - 1
    BY <1>2, <1>8
  <2> QED
    BY <1>1, <2>1
<1>9. ASSUME NEW m \in 1..c, NEW n \in 1..c, m < n PROVE <<s[m], s[n]>> \in R
  <2>1. s[m] # s[n]
    BY <1>1, <1>8, <1>9
  <2>2. ~(n < m)
    BY <1>1, <1>9
  <2> QED
    BY <1>2, <1>7, <2>1, <2>2 DEF Ordered
<1> QED
  BY <1>2, <1>4, <1>6, <1>7, <1>8, <1>9 DEF c, SortedInto

-----------------------------------------------------------------------------
(* What holds at 0 and is handed on from each number to the next one.       *)
LEMMA Climb ==
  ASSUME NEW n \in Nat, NEW G, 0 \in G, \A k \in 1..n : k - 1 \in G => k \in G
  PROVE  \A k \in 0..n : k \in G
<1> DEFINE Bad == {k \in 0..n : k \notin G}
<1> SUFFICES ASSUME Bad # {} PROVE FALSE
  OBVIOUS
<1>1. PICK k \in Bad : \A m \in Bad : k <= m
  <2>1. Bad \in SUBSET Nat
    OBVIOUS
  <2> QED
    BY <2>1, Least
<1>2. k \in 1..n /\ k - 1 \in 0..n
  OBVIOUS
<1>3. k - 1 \notin Bad
  BY <1>1, <1>2
<1> QED
  BY <1>2, <1>3

(* The same without the last value.                                         *)
Walks(n, V, b, step) ==
  \E r \in [0..n -> V] : r[0] = b /\ \A k \in 1..n : r[k] = step[k][r[k - 1]]

(* Where steps take an element of V to one of V, they can be followed.      *)
LEMMA Walk ==
  ASSUME NEW n \in Nat, NEW V, NEW b \in V, NEW step \in [1..n -> [V -> V]]
  PROVE  Walks(n, V, b, step)
<1>1. Foldable(1..n, V, b, Greatest(n), step)
  BY LeftFoldable
<1>2. PICK f \in [SUBSET (1..n) -> V] : FoldsTo(f, 1..n, b, Greatest(n), step)
  BY <1>1, FoldExists
<1>3. FoldsIn(f, 1..n, V, b, Greatest(n), step)
  BY <1>2 DEF FoldsTo, FoldsIn
<1>4. Leads(n, V, b, step, f[1..n])
  BY <1>3, LeftFold
<1> QED
  BY <1>4 DEF Leads, Walks

(* What a search answers with.                                              *)
Keys == [source : Sources, index : Nat]

(* The keys of a ranking, one by one.                                       *)
LEMMA ToKeysTyped ==
  ASSUME NEW s \in Seq(Rows)
  PROVE  ToKeys(s) \in Seq(Keys) /\ Len(ToKeys(s)) = Len(s)
         /\ \A i \in 1..Len(s) : ToKeys(s)[i] = KeyOf(s[i])
<1>1. ASSUME NEW i \in 1..Len(s) PROVE KeyOf(s[i]) \in Keys
  <2>1. s[i] \in Rows
    OBVIOUS
  <2> QED
    BY <2>1 DEF KeyOf, Rows, Keys
<1>2. DOMAIN s = 1..Len(s) /\ Len(s) \in Nat
  OBVIOUS
<1>3. ToKeys(s) = [i \in 1..Len(s) |-> KeyOf(s[i])]
  BY <1>2 DEF ToKeys
<1> HIDE DEF ToKeys
<1>4. ToKeys(s) \in Seq(Keys)
  BY <1>1, <1>2, <1>3
<1> QED
  BY <1>2, <1>3, <1>4

(* Sequences one after the other. *)
LEMMA FlattenIs ==
  ASSUME NEW V, NEW seqs \in Seq(Seq(V))
  PROVE  \E r \in [0..Len(seqs) -> Seq(V)] :
           /\ r[0] = <<>> /\ FlattenSeq(seqs) = r[Len(seqs)]
           /\ \A k \in 1..Len(seqs) : r[k] = r[k - 1] \o seqs[k]
<1> DEFINE n == Len(seqs)
           W == Seq(V)
           step == [i \in 1..n |-> [v \in W |-> v \o seqs[i]]]
           Eq(g) == g = [i \in 1..n |-> IF i = 1 THEN seqs[i] ELSE g[i - 1] \o seqs[i]]
           flat == CHOOSE g : Eq(g)
<1>0. n \in Nat /\ DOMAIN seqs = 1..n /\ <<>> \in W /\ \A i \in 1..n : seqs[i] \in W
  OBVIOUS
<1>1. step \in [1..n -> [W -> W]]
  <2>1. ASSUME NEW i \in 1..n, NEW v \in W PROVE v \o seqs[i] \in W
    BY <1>0
  <2> QED
    BY <2>1
<1>2. PICK r \in [0..n -> W] :
        r[0] = <<>> /\ \A k \in 1..n : r[k] = step[k][r[k - 1]]
  <2>0. n \in Nat
    BY <1>0
  <2>b. <<>> \in W
    BY <1>0
  <2> HIDE DEF step, n, W
  <2>1. Walks(n, W, <<>>, step)
    BY <2>0, <2>b, <1>1, Walk
  <2> QED
    BY <2>1 DEF Walks
<1>3. ASSUME NEW k \in 1..n PROVE r[k] = r[k - 1] \o seqs[k] /\ r[k - 1] \in W
  <2>1. k - 1 \in 0..n
    BY <1>0
  <2>2. r[k - 1] \in W
    BY <2>1, <1>2
  <2> HIDE DEF n, W
  <2>3. step[k][r[k - 1]] = r[k - 1] \o seqs[k]
    BY <2>2
  <2> HIDE DEF step
  <2> QED
    BY <1>2, <2>2, <2>3
<1>4. CASE n = 0
  BY <1>0, <1>2, <1>4 DEF FlattenSeq
<1>5. CASE n # 0
  <2>1. FlattenSeq(seqs) = flat[n]
    BY <1>5 DEF FlattenSeq
  <2>2. \E g : Eq(g)
    <3> DEFINE g == [i \in 1..n |-> r[i]]
    <3>1. ASSUME NEW i \in 1..n PROVE g[i] = IF i = 1 THEN seqs[i] ELSE g[i - 1] \o seqs[i]
      <4>1. CASE i = 1
        <5>0. 1 \in 1..n /\ 1 - 1 = 0
          BY <4>1
        <5>1. r[1] = <<>> \o seqs[1] /\ seqs[1] \in W
          BY <1>0, <1>2, <1>3, <5>0
        <5> QED
          BY <4>1, <5>1
      <4>2. CASE i # 1
        <5>1. i - 1 \in 1..n
          BY <1>0, <4>2
        <5> QED
          BY <1>3, <4>2, <5>1
      <4> QED
        BY <4>1, <4>2
    <3>2. g = [i \in 1..n |-> g[i]]
      OBVIOUS
    <3> HIDE DEF g
    <3>3. Eq(g)
      BY <3>1, <3>2
    <3> QED
      BY <3>3
  <2>3. Eq(flat)
    <3> HIDE DEF Eq
    <3> QED
      BY <2>2
  <2> DEFINE G == {k \in 0..n : k = 0 \/ flat[k] = r[k]}
  <2>4. ASSUME NEW k \in 1..n, k - 1 \in G PROVE k \in G
    <3> HIDE DEF flat
    <3>1. CASE k = 1
      <4>0. 1 \in 1..n /\ 1 - 1 = 0
        BY <3>1
      <4>1. r[1] = <<>> \o seqs[1] /\ seqs[1] \in W
        BY <1>0, <1>2, <1>3, <4>0
      <4>2. flat[1] = seqs[1]
        BY <2>3, <3>1
      <4> QED
        BY <3>1, <4>1, <4>2
    <3>2. CASE k # 1
      <4>1. k - 1 \in 1..n /\ k - 1 # 0 /\ k \in 0..n
        BY <1>0, <3>2
      <4>2. flat[k - 1] = r[k - 1]
        BY <2>4, <4>1
      <4>3. flat[k] = flat[k - 1] \o seqs[k]
        BY <2>3, <3>2
      <4> QED
        BY <1>3, <4>1, <4>2, <4>3
    <3> QED
      BY <3>1, <3>2
  <2>5. 0 \in G
    BY <1>0
  <2>n. n \in Nat /\ n \in 0..n
    BY <1>0
  <2> HIDE DEF G, flat, n
  <2>6. n \in G
    BY <2>n, <2>4, <2>5, Climb
  <2> USE DEF n
  <2>7. flat[n] = r[n]
    BY <1>5, <2>6 DEF G
  <2> QED
    BY <1>2, <1>3, <2>1, <2>7
<1> QED
  BY <1>4, <1>5

(* Sorted(indices, <), as merge_windows takes the indices.                  *)
Rising(S) == Sorted(S, <)

(* Sorted(S, Before), of whatever Before says when it is seen as a relation. *)
LEMMA NumbersInOrder ==
  ASSUME NEW S \in SUBSET Nat, IsFiniteSet(S)
  PROVE  SortedInto(Rising(S), S, {e \in Nat \X Nat : e[1] < e[2]})
<1> DEFINE R == {e \in Nat \X Nat : e[1] < e[2]}
           s == Rising(S)
           c == Cardinality(S)
<1>1. \A x, y \in S : <<x, y>> \in R <=> x < y
  OBVIOUS
<1>2. Ordered(S, R)
  <2> HIDE DEF R
  <2> QED
    BY <1>1 DEF Ordered
<1>3. ASSUME NEW x \in S PROVE Rank(S, R, x) = Cardinality({y \in S : y < x})
  <2>1. {y \in S : <<y, x>> \in R} = {y \in S : y < x}
    BY <1>1
  <2> HIDE DEF R
  <2> QED
    BY <2>1 DEF Rank
<1>4. s = [n \in 1..c |-> CHOOSE x \in S : Cardinality({y \in S : y < x}) = n - 1]
  BY DEF Rising, Sorted
<1>4a. s = [n \in 1..c |-> s[n]]
  <2> DEFINE nth(n) == CHOOSE x \in S : Cardinality({y \in S : y < x}) = n - 1
  <2>1. s = [n \in 1..c |-> nth(n)]
    BY <1>4
  <2> HIDE DEF nth, s, c
  <2> QED
    BY <2>1
<1>c. c \in Nat
  BY FS_CardinalityType
<1> HIDE DEF R, s
<1>5. ASSUME NEW n \in 1..c PROVE s[n] \in S /\ Rank(S, R, s[n]) = n - 1
  <2>0. n - 1 \in 0..(c - 1)
    BY <1>c
  <2>1. PICK x \in S : Rank(S, R, x) = n - 1
    BY <1>2, <2>0, RankOnto
  <2>2. Cardinality({y \in S : y < x}) = n - 1
    BY <1>3, <2>1
  <2>3. s[n] \in S /\ Cardinality({y \in S : y < s[n]}) = n - 1
    <3> HIDE DEF c
    <3>1. s[n] = CHOOSE z \in S : Cardinality({y \in S : y < z}) = n - 1
      BY <1>4
    <3> QED
      BY <2>2, <3>1
  <2> QED
    BY <1>3, <2>3
<1>6. ByRank(s, S, R)
  BY <1>4a, <1>5 DEF ByRank
<1>7. SortedInto(s, S, R)
  BY <1>2, <1>6, SortedIs
<1> QED
  BY <1>7 DEF R, s

(* The ranges of one file that merge_windows makes.                         *)
Ranges == [lo : Nat, hi : Nat]

(* One window joined to the ranges before it. *)
Joined(ranges, w) ==
  LET r == IF ranges = <<>> THEN w ELSE Last(ranges)
  IN IF ranges # <<>> /\ w.lo <= r.hi + 1
       THEN Append(Front(ranges), [lo |-> r.lo, hi |-> Max({r.hi, w.hi})])
       ELSE Append(ranges, w)

(* Ranges in rising order that neither overlap nor touch, and what they     *)
(* cover.                                                                   *)
Runs(ranges) ==
  /\ \A i \in 1..Len(ranges) : ranges[i].lo <= ranges[i].hi
  /\ \A i, j \in 1..Len(ranges) : i < j => ranges[i].hi + 1 < ranges[j].lo
Covered(ranges) == UNION {ranges[i].lo .. ranges[i].hi : i \in 1..Len(ranges)}

(* A window is a range that holds its hit.                                  *)
LEMMA WindowTyped ==
  ASSUME NEW i \in Nat
  PROVE  Window(i) \in Ranges /\ Window(i).lo <= Window(i).hi
<1>1. ContextWindow \in Nat
  BY FusionAssumption
<1>2. CASE i < ContextWindow
  BY <1>1, <1>2 DEF Window, Ranges
<1>3. CASE ~(i < ContextWindow)
  <2>1. i - ContextWindow \in Nat /\ i - ContextWindow <= i + ContextWindow
    BY <1>1, <1>3
  <2> QED
    BY <1>1, <1>3, <2>1 DEF Window, Ranges
<1> QED
  BY <1>2, <1>3

(* The window of a later hit ends later and starts no earlier.              *)
LEMMA WindowsRise ==
  ASSUME NEW i \in Nat, NEW j \in Nat, i < j
  PROVE  Window(i).lo <= Window(j).lo /\ Window(i).hi < Window(j).hi
<1>1. ContextWindow \in Nat
  BY FusionAssumption
<1> QED
  BY <1>1 DEF Window

(* The greater of two numbers.                                              *)
LEMMA GreaterOf ==
  ASSUME NEW a \in Nat, NEW b \in Nat, a <= b
  PROVE  Max({a, b}) = b
<1>1. \E x \in {a, b} : \A y \in {a, b} : x >= y
  OBVIOUS
<1>2. Max({a, b}) \in {a, b} /\ \A y \in {a, b} : Max({a, b}) >= y
  BY <1>1 DEF Max
<1> QED
  BY <1>2

(* A window joined to runs that end no later than it leaves runs, which     *)
(* cover as much and end where it ends.                                     *)
LEMMA JoinKeeps ==
  ASSUME NEW ranges \in Seq(Ranges), Runs(ranges), NEW w \in Ranges, w.lo <= w.hi,
         ranges # <<>> => Last(ranges).hi <= w.hi /\ Last(ranges).lo <= w.lo
  PROVE  LET j == Joined(ranges, w)
         IN /\ j \in Seq(Ranges) /\ j # <<>> /\ Runs(j)
            /\ Last(j).hi = w.hi /\ Last(j).lo <= w.lo
            /\ Covered(j) = Covered(ranges) \cup (w.lo .. w.hi)
<1> DEFINE j == Joined(ranges, w)
           n == Len(ranges)
<1>0. n \in Nat /\ w.lo \in Nat /\ w.hi \in Nat
      /\ \A i \in 1..n : ranges[i] \in Ranges /\ ranges[i].lo \in Nat /\ ranges[i].hi \in Nat
  <2>1. \A i \in 1..n : ranges[i] \in Ranges
    OBVIOUS
  <2> QED
    BY <2>1 DEF Ranges
<1>1. CASE ranges # <<>> /\ w.lo <= Last(ranges).hi + 1
  <2> DEFINE x == [lo |-> Last(ranges).lo, hi |-> w.hi]
             before == Front(ranges)
  <2>1. n \in 1..n /\ Last(ranges) = ranges[n] /\ n - 1 \in Nat
    BY <1>0, <1>1 DEF Last
  <2>2. Last(ranges).lo \in Nat /\ Last(ranges).hi \in Nat /\ Last(ranges).hi <= w.hi /\ Last(ranges).lo <= w.lo
    BY <1>0, <1>1, <2>1
  <2>3. j = Append(before, x)
    BY <1>0, <1>1, <2>2, GreaterOf DEF Joined
  <2>4. x \in Ranges /\ x.lo <= x.hi /\ x.lo = ranges[n].lo /\ x.hi = w.hi
    BY <1>0, <2>1, <2>2 DEF Ranges
  <2>5. before \in Seq(Ranges) /\ Len(before) = n - 1 /\ \A i \in 1..(n - 1) : before[i] = ranges[i]
    <3>1. before = SubSeq(ranges, 1, n - 1)
      BY DEF Front
    <3>2. n - 1 <= Len(ranges) /\ n - 1 = Len(ranges) - 1
      BY <1>0
    <3> HIDE DEF before, n
    <3>3. Len(before) = n - 1 /\ \A i \in 1..(n - 1) : before[i] = ranges[i]
      BY <2>1, <3>1, <3>2
    <3>4. before \in Seq(Ranges)
      BY <2>1, <3>1, <3>2
    <3> QED
      BY <3>3, <3>4
  <2> HIDE DEF x, before, j, n
  <2>6. /\ j \in Seq(Ranges) /\ Len(j) = n /\ j[n] = x
        /\ \A i \in 1..(n - 1) : j[i] = ranges[i]
    BY <2>1, <2>3, <2>4, <2>5
  <2>7. j # <<>> /\ Last(j) = x
    BY <1>0, <2>1, <2>6 DEF Last
  <2>8. \A i \in 1..n : i # n => i \in 1..(n - 1)
    BY <1>0
  <2>9. Runs(j)
    <3>1. ASSUME NEW i \in 1..n PROVE j[i].lo <= j[i].hi
      BY <2>4, <2>6, <2>8 DEF Runs, n
    <3>2. ASSUME NEW i \in 1..n, NEW k \in 1..n, i < k PROVE j[i].hi + 1 < j[k].lo
      <4>1. i # n
        BY <1>0, <3>2
      <4>2. j[i] = ranges[i] /\ j[k].lo = ranges[k].lo
        BY <2>4, <2>6, <2>8, <4>1
      <4>3. ranges[i].hi + 1 < ranges[k].lo
        BY <3>2 DEF Runs, n
      <4> QED
        BY <4>2, <4>3
    <3> QED
      BY <2>6, <3>1, <3>2 DEF Runs
  <2>10. ASSUME NEW y PROVE y \in Covered(j) <=> y \in Covered(ranges) \/ y \in w.lo .. w.hi
    <3>0. y \in Covered(ranges) <=> \E i \in 1..n : y \in ranges[i].lo .. ranges[i].hi
      BY DEF Covered, n
    <3>1. y \in Covered(j) <=> \E i \in 1..n : y \in j[i].lo .. j[i].hi
      BY <2>6 DEF Covered
    <3>2. y \in x.lo .. x.hi <=> y \in ranges[n].lo .. ranges[n].hi \/ y \in w.lo .. w.hi
      <4>1. ranges[n].lo \in Nat /\ ranges[n].hi \in Nat /\ ranges[n].hi <= w.hi /\ ranges[n].lo <= w.lo
            /\ w.lo <= ranges[n].hi + 1
        BY <1>1, <2>1, <2>2
      <4> QED
        BY <1>0, <2>4, <4>1
    <3>3. \A i \in 1..(n - 1) : i \in 1..n
      BY <1>0
    <3> QED
      BY <2>1, <2>6, <2>8, <3>0, <3>1, <3>2, <3>3
  <2>11. Covered(j) = Covered(ranges) \cup (w.lo .. w.hi)
    BY <2>10
  <2>12. Last(j).hi = w.hi /\ Last(j).lo <= w.lo
    BY <2>1, <2>2, <2>4, <2>7
  <2> QED
    BY <2>6, <2>7, <2>9, <2>11, <2>12 DEF j
<1>2. CASE ~(ranges # <<>> /\ w.lo <= Last(ranges).hi + 1)
  <2>1. j = Append(ranges, w)
    BY <1>2 DEF Joined
  <2> HIDE DEF j, n
  <2>2. /\ j \in Seq(Ranges) /\ Len(j) = n + 1 /\ j[n + 1] = w /\ j # <<>>
        /\ \A i \in 1..n : j[i] = ranges[i]
    BY <1>0, <2>1 DEF n
  <2>3. Last(j) = w
    BY <2>2 DEF Last
  <2>4. \A i \in 1..(n + 1) : i # n + 1 => i \in 1..n
    BY <1>0
  <2>5. Runs(j)
    <3>1. ASSUME NEW i \in 1..(n + 1) PROVE j[i].lo <= j[i].hi
      BY <2>2, <2>4 DEF Runs, n
    <3>2. ASSUME NEW i \in 1..(n + 1), NEW k \in 1..(n + 1), i < k PROVE j[i].hi + 1 < j[k].lo
      <4>1. i # n + 1 /\ i \in 1..n
        BY <1>0, <3>2
      <4>2. CASE k # n + 1
        <5>1. k \in 1..n
          BY <2>4, <4>2
        <5> QED
          BY <2>2, <3>2, <4>1, <5>1 DEF Runs, n
      <4>3. CASE k = n + 1
        <5>1. ranges # <<>> /\ n \in 1..n /\ Last(ranges) = ranges[n]
          BY <1>0, <4>1 DEF n, Last
        <5>2. ~(w.lo <= ranges[n].hi + 1)
          BY <1>2, <5>1
        <5>3. ranges[i].hi <= ranges[n].hi
          <6>1. CASE i = n
            BY <1>0, <5>1, <6>1
          <6>2. CASE i # n
            <7>1. i < n
              BY <1>0, <4>1, <6>2
            <7>2. ranges[i].hi + 1 < ranges[n].lo /\ ranges[n].lo <= ranges[n].hi
              BY <4>1, <5>1, <7>1 DEF Runs, n
            <7>3. ranges[i].hi \in Nat /\ ranges[n].lo \in Nat /\ ranges[n].hi \in Nat
              BY <1>0, <4>1, <5>1
            <7> QED
              BY <7>2, <7>3
          <6> QED
            BY <6>1, <6>2
        <5>4. ranges[i].hi \in Nat /\ ranges[n].hi \in Nat
          BY <1>0, <4>1, <5>1
        <5>5. ranges[i].hi + 1 < w.lo
          BY <1>0, <5>2, <5>3, <5>4
        <5> QED
          BY <2>2, <4>1, <4>3, <5>5
      <4> QED
        BY <4>2, <4>3
    <3> QED
      BY <2>2, <3>1, <3>2 DEF Runs
  <2>6. ASSUME NEW y PROVE y \in Covered(j) <=> y \in Covered(ranges) \/ y \in w.lo .. w.hi
    <3>0. y \in Covered(ranges) <=> \E i \in 1..n : y \in ranges[i].lo .. ranges[i].hi
      BY DEF Covered, n
    <3>1. y \in Covered(j) <=> \E i \in 1..(n + 1) : y \in j[i].lo .. j[i].hi
      BY <2>2 DEF Covered
    <3>2. n + 1 \in 1..(n + 1) /\ \A i \in 1..n : i \in 1..(n + 1)
      BY <1>0
    <3> QED
      BY <2>2, <2>4, <3>0, <3>1, <3>2
  <2>7. Covered(j) = Covered(ranges) \cup (w.lo .. w.hi)
    BY <2>6
  <2>8. w.lo <= w.lo
    BY <1>0
  <2> QED
    BY <2>2, <2>3, <2>5, <2>7, <2>8 DEF j
<1> QED
  BY <1>1, <1>2

(* A window joined to ranges leaves ranges.                                 *)
LEMMA JoinTyped ==
  ASSUME NEW ranges \in Seq(Ranges), NEW w \in Ranges
  PROVE  Joined(ranges, w) \in Seq(Ranges)
<1>1. CASE ranges # <<>> /\ w.lo <= Last(ranges).hi + 1
  <2> DEFINE n == Len(ranges)
             top == Max({Last(ranges).hi, w.hi})
             x == [lo |-> Last(ranges).lo, hi |-> top]
             before == Front(ranges)
  <2>1. n \in Nat /\ n \in 1..n /\ n - 1 \in Nat /\ n - 1 <= n
    BY <1>1
  <2>2. Last(ranges) = ranges[n]
    BY DEF Last
  <2>3. Last(ranges).lo \in Nat /\ Last(ranges).hi \in Nat /\ w.hi \in Nat
    <3>1. ranges[n] \in Ranges
      BY <2>1
    <3> HIDE DEF n
    <3> QED
      BY <2>2, <3>1 DEF Ranges
  <2>4. top \in Nat
    <3> HIDE DEF n
    <3>1. \E y \in {Last(ranges).hi, w.hi} : \A z \in {Last(ranges).hi, w.hi} : y >= z
      BY <2>3
    <3>2. top \in {Last(ranges).hi, w.hi}
      BY <3>1 DEF Max
    <3> QED
      BY <2>3, <3>2
  <2>5. before = SubSeq(ranges, 1, n - 1)
    BY DEF Front
  <2>6. Joined(ranges, w) = Append(before, x)
    BY <1>1 DEF Joined
  <2>l. n = Len(ranges)
    OBVIOUS
  <2> HIDE DEF before, top, n
  <2>7. before \in Seq(Ranges)
    BY <2>1, <2>5, <2>l
  <2>8. x \in Ranges
    BY <2>3, <2>4 DEF Ranges
  <2> HIDE DEF x
  <2> QED
    BY <2>6, <2>7, <2>8
<1>2. CASE ~(ranges # <<>> /\ w.lo <= Last(ranges).hi + 1)
  BY <1>2 DEF Joined
<1> QED
  BY <1>1, <1>2

(* The ranges after each index in rising order. *)
LEMMA MergeWalks ==
  ASSUME NEW indices, Rising(indices) \in Seq(Nat)
  PROVE  LET s == Rising(indices) IN
         \E r \in [0..Len(s) -> Seq(Ranges)] :
           /\ r[0] = <<>> /\ MergeWindows(indices) = r[Len(s)]
           /\ \A k \in 1..Len(s) : r[k] = Joined(r[k - 1], Window(s[k]))
<1> DEFINE s == Rising(indices)
           n == Len(s)
           V == Seq(Ranges)
           step == [i \in 1..n |-> [v \in V |-> Joined(v, Window(s[i]))]]
           Eq(g) == g = [x \in SUBSET (1..n) |->
                           IF x = {} THEN <<>> ELSE Joined(g[x \ {Max(x)}], Window(s[Max(x)]))]
           f == CHOOSE g : Eq(g)
<1>0. n \in Nat /\ DOMAIN s = 1..n /\ \A i \in 1..n : s[i] \in Nat
  OBVIOUS
<1>1. MergeWindows(indices) = f[1..n]
  BY <1>0, Zenon DEF Rising, MergeWindows, FoldLeft, MapThenFoldSet, Joined
<1>2. <<>> \in V
  OBVIOUS
<1>3. step \in [1..n -> [V -> V]]
  <2>1. ASSUME NEW i \in 1..n, NEW v \in V PROVE Joined(v, Window(s[i])) \in V
    BY <1>0, WindowTyped, JoinTyped
  <2> QED
    BY <2>1
<1>4. ASSUME NEW x \in SUBSET (1..n), x # {} PROVE Max(x) \in 1..n
  BY <1>0, <1>4, GreatestOf
<1>f. Foldable(1..n, V, <<>>, Greatest(n), step)
  BY <1>0, <1>2, <1>3, LeftFoldable
<1>m. \A x \in SUBSET (1..n) : Greatest(n)[x] = Max(x)
  BY DEF Greatest
<1>5. Eq(f)
  <2> HIDE DEF step
  <2>1. PICK g \in [SUBSET (1..n) -> V] : FoldsTo(g, 1..n, <<>>, Greatest(n), step)
    BY <1>f, FoldExists
  <2>2. \A x \in SUBSET (1..n) : g[x] = IF x = {} THEN <<>> ELSE step[Max(x)][g[x \ {Max(x)}]]
    BY <2>1, <1>m DEF FoldsTo
  <2>3. ASSUME NEW x \in SUBSET (1..n), x # {}
        PROVE  step[Max(x)][g[x \ {Max(x)}]] = Joined(g[x \ {Max(x)}], Window(s[Max(x)]))
    <3>1. g[x \ {Max(x)}] \in V
      BY <2>1
    <3> QED
      BY <1>4, <2>3, <3>1 DEF step
  <2>4. Eq(g)
    BY <2>1, <2>2, <2>3
  <2> HIDE DEF Eq
  <2> QED
    BY <2>4
<1>7. FoldsIn(f, 1..n, V, <<>>, Greatest(n), step)
  <2>1. f[{}] = <<>>
    BY <1>5
  <2>2. ASSUME NEW x \in SUBSET (1..n), x # {}, f[x \ {Max(x)}] \in V
        PROVE f[x] = step[Max(x)][f[x \ {Max(x)}]]
    <3> DEFINE m == Max(x)
               before == f[x \ {m}]
    <3>1. f[x] = Joined(before, Window(s[m]))
      <4> HIDE DEF f, step
      <4> QED
      BY <1>5, <2>2
    <3>2. m \in 1..n /\ before \in V
      BY <1>4, <2>2
    <3> HIDE DEF before, m, f
    <3>3. step[m][before] = Joined(before, Window(s[m]))
      BY <3>2
    <3> USE DEF before, m
    <3> QED
      BY <3>1, <3>3
  <2> QED
    BY <1>m, <2>1, <2>2 DEF FoldsIn
<1> HIDE DEF f, step, n, V
<1>n. n \in Nat
  BY <1>0
<1>8. Leads(n, V, <<>>, step, f[1..n])
  BY <1>n, <1>2, <1>3, <1>7, LeftFold
<1>r. PICK r \in [0..n -> V] : /\ r[0] = <<>> /\ r[n] = f[1..n]
           /\ \A k \in 1..n : r[k] = step[k][r[k - 1]]
  BY <1>8 DEF Leads
<1>9. \A k \in 1..n : r[k - 1] \in V
  BY <1>n
<1>10. \A k \in 1..n : r[k] = Joined(r[k - 1], Window(s[k]))
  BY <1>r, <1>9 DEF step
<1> QED
  BY <1>1, <1>r, <1>10 DEF n, V

(* The chunks wanted for the hit at index i.                                *)
Around(i) == Window(i).lo .. Window(i).hi

(* merge_windows makes runs of what the windows cover. *)
LEMMA MergeIs ==
  ASSUME NEW indices \in SUBSET Nat, IsFiniteSet(indices)
  PROVE  /\ MergeWindows(indices) \in Seq(Ranges)
         /\ Runs(MergeWindows(indices))
         /\ Covered(MergeWindows(indices)) = UNION {Around(i) : i \in indices}
<1> DEFINE s == Rising(indices)
           n == Len(s)
           R == {e \in Nat \X Nat : e[1] < e[2]}
<1>1. SortedInto(s, indices, R)
  BY NumbersInOrder
<1>2. s \in Seq(Nat) /\ ToSet(s) = indices /\ n \in Nat
  <2>1. s \in Seq(indices) /\ ToSet(s) = indices
    BY <1>1 DEF SortedInto
  <2> HIDE DEF s
  <2>2. Len(s) \in Nat /\ s = [i \in 1..Len(s) |-> s[i]] /\ \A i \in 1..Len(s) : s[i] \in indices
    BY <2>1
  <2>3. s \in Seq(Nat)
    BY <2>2
  <2> QED
    BY <2>1, <2>2, <2>3
<1>3. ASSUME NEW k \in 1..n, NEW m \in 1..n, k < m
      PROVE  s[k] \in Nat /\ s[m] \in Nat /\ s[k] < s[m]
  <2> HIDE DEF s
  <2>1. <<s[k], s[m]>> \in R
    BY <1>1, <1>3 DEF SortedInto
  <2> QED
    BY <2>1
<1>4. PICK r \in [0..n -> Seq(Ranges)] :
           /\ r[0] = <<>> /\ MergeWindows(indices) = r[n]
           /\ \A k \in 1..n : r[k] = Joined(r[k - 1], Window(s[k]))
  BY <1>2, MergeWalks
<1>5. \A k \in 1..n : s[k] \in Nat
  <2> HIDE DEF s
  <2> QED
    BY <1>2
<1> HIDE DEF s, n, R
<1> DEFINE A(k) == UNION {Around(s[m]) : m \in 1..k}
<1>a. ASSUME NEW k, NEW y PROVE y \in A(k) <=> \E m \in 1..k : y \in Around(s[m])
  OBVIOUS
<1> DEFINE P(k) == /\ Runs(r[k])
                   /\ Covered(r[k]) = A(k)
                   /\ k > 0 => /\ r[k] # <<>> /\ Last(r[k]).hi = Window(s[k]).hi
                               /\ Last(r[k]).lo <= Window(s[k]).lo
           G == {k \in 0..n : P(k)}
<1>6. 0 \in G
  <2>1. Len(<<>>) = 0 /\ 1..0 = {}
    OBVIOUS
  <2>2. Runs(<<>>) /\ Covered(<<>>) = {}
    BY <2>1 DEF Runs, Covered
  <2>3. UNION {Around(s[m]) : m \in 1..0} = {}
    BY <2>1
  <2> QED
    BY <1>2, <1>4, <2>2, <2>3
<1>7. ASSUME NEW k \in 1..n, k - 1 \in G PROVE k \in G
  <2> DEFINE w == Window(s[k])
             old == r[k - 1]
  <2>0. k - 1 \in 0..n /\ k \in 0..n /\ k > 0 /\ k \in Nat /\ k - 1 \in Nat
    BY <1>2
  <2>1. P(k - 1)
    BY <1>7
  <2>2. w \in Ranges /\ w.lo <= w.hi
    BY <1>5, WindowTyped
  <2>3. old \in Seq(Ranges)
    BY <1>4, <2>0
  <2>4. old # <<>> => Last(old).hi <= w.hi /\ Last(old).lo <= w.lo
    <3> SUFFICES ASSUME old # <<>> PROVE Last(old).hi <= w.hi /\ Last(old).lo <= w.lo
      OBVIOUS
    <3>1. k - 1 > 0 /\ k - 1 \in 1..n /\ k - 1 < k
      BY <1>4, <2>0
    <3>2. Last(old).hi = Window(s[k - 1]).hi /\ Last(old).lo <= Window(s[k - 1]).lo
      BY <2>1, <3>1
    <3>3. s[k - 1] \in Nat /\ s[k] \in Nat /\ s[k - 1] < s[k]
      BY <1>3, <3>1
    <3>4. Window(s[k - 1]).lo <= w.lo /\ Window(s[k - 1]).hi < w.hi
      BY <3>3, WindowsRise
    <3>5. Window(s[k - 1]) \in Ranges
      BY <3>3, WindowTyped
    <3>6. Last(old) \in Ranges
      <4> HIDE DEF old, P
      <4> QED
        BY <2>3 DEF Last
    <3> HIDE DEF w, old
    <3> QED
      BY <2>2, <3>2, <3>4, <3>5, <3>6 DEF Ranges
  <2>5. r[k] = Joined(old, w)
    BY <1>4
  <2>6. Runs(old) /\ Covered(old) = A(k - 1)
    BY <2>1
  <2> HIDE DEF P, old, w
  <2>7. /\ r[k] # <<>> /\ Runs(r[k]) /\ Last(r[k]).hi = w.hi /\ Last(r[k]).lo <= w.lo
        /\ Covered(r[k]) = Covered(old) \cup (w.lo .. w.hi)
    BY <2>2, <2>3, <2>4, <2>5, <2>6, JoinKeeps
  <2>8. Around(s[k]) = w.lo .. w.hi
    BY DEF Around, w
  <2>9. A(k) = A(k - 1) \cup Around(s[k])
    <3>1. 1..k = (1..(k - 1)) \cup {k}
      BY <2>0
    <3>2. ASSUME NEW y
          PROVE  (\E m \in 1..k : y \in Around(s[m]))
                   <=> (\E m \in 1..(k - 1) : y \in Around(s[m])) \/ y \in Around(s[k])
      BY <3>1
    <3> HIDE DEF A
    <3> QED
      BY <1>a, <3>2
  <2>10. Covered(r[k]) = A(k)
    <3> HIDE DEF A
    <3> QED
      BY <2>6, <2>7, <2>8, <2>9
  <2>11. P(k)
    BY <2>7, <2>10 DEF P, w
  <2> QED
    BY <2>0, <2>11
<1>8. n \in Nat
  BY <1>2
<1> HIDE DEF P, G
<1>9. n \in G
  <2>1. \A k \in 0..n : k \in G
    BY <1>6, <1>7, <1>8, Climb
  <2> QED
    BY <1>8, <2>1
<1>10. Runs(r[n]) /\ Covered(r[n]) = A(n)
  BY <1>9 DEF G, P
<1>11. {s[m] : m \in 1..n} = indices
  BY <1>2 DEF ToSet, n
<1>12. A(n) = UNION {Around(i) : i \in indices}
  BY <1>11
<1>13. r[n] \in Seq(Ranges)
  BY <1>4, <1>8
<1> QED
  BY <1>4, <1>10, <1>12, <1>13

(* The least of some numbers.                                               *)
LEMMA LeastOf ==
  ASSUME NEW T \in SUBSET Nat, T # {}
  PROVE  Min(T) \in T /\ \A x \in T : Min(T) <= x
<1>1. \E n \in T : \A m \in T : n <= m
  BY Least
<1> QED
  BY <1>1 DEF Min

(* The passages to fetch, by source, and the steps of group_hits_by_source: *)
(* the files in the order of their first hits, the hits in a file, and the  *)
(* ranges they make.                                                        *)
Pieces == {p \in [source : Sources, lo : Nat, hi : Nat] : p.lo <= p.hi}
FirstHit(fused, f) == Min({i \in DOMAIN fused : fused[i].source = f})
SourcesOf(fused) ==
  Sorted({fused[i].source : i \in DOMAIN fused},
         LAMBDA f, g : FirstHit(fused, f) < FirstHit(fused, g))
HitsIn(fused, f) == {fused[i].index : i \in {j \in DOMAIN fused : fused[j].source = f}}
RangesOf(fused, f) ==
  LET ranges == MergeWindows(HitsIn(fused, f))
  IN [i \in DOMAIN ranges |-> [source |-> f, lo |-> ranges[i].lo, hi |-> ranges[i].hi]]

(* Windows, said with these names.                                          *)
LEMMA WindowsBySource ==
  ASSUME NEW fused
  PROVE  Windows(fused) =
           FlattenSeq([i \in DOMAIN SourcesOf(fused) |-> RangesOf(fused, SourcesOf(fused)[i])])
BY Zenon DEF Windows, SourcesOf, FirstHit, HitsIn, RangesOf

(* The files with hits stand once each.                                     *)
LEMMA SourcesInOrder ==
  ASSUME NEW fused \in Seq(Keys)
  PROVE  LET S == {fused[i].source : i \in DOMAIN fused}
         IN /\ SourcesOf(fused) \in Seq(Sources)
            /\ ToSet(SourcesOf(fused)) = S
            /\ \A m, n \in 1..Len(SourcesOf(fused)) :
                 SourcesOf(fused)[m] = SourcesOf(fused)[n] => m = n
<1> DEFINE S == {fused[i].source : i \in DOMAIN fused}
           at(f) == FirstHit(fused, f)
           R == {e \in S \X S : at(e[1]) < at(e[2])}
           s == SourcesOf(fused)
           c == Cardinality(S)
<1>0. Len(fused) \in Nat /\ DOMAIN fused = 1..Len(fused) /\ \A i \in DOMAIN fused : fused[i].source \in Sources
  <2>1. \A i \in DOMAIN fused : fused[i] \in Keys
    OBVIOUS
  <2> QED
    BY <2>1 DEF Keys
<1>1. IsFiniteSet(S) /\ S \in SUBSET Sources
  <2>1. IsFiniteSet(Sources)
    BY RetrievalAssumption
  <2>2. S \in SUBSET Sources
    BY <1>0
  <2> HIDE DEF S
  <2> QED
    BY <2>1, <2>2, FS_Subset
<1>2. ASSUME NEW f \in S PROVE at(f) \in Nat /\ at(f) \in DOMAIN fused /\ fused[at(f)].source = f
  <2> DEFINE T == {i \in DOMAIN fused : fused[i].source = f}
  <2>1. T \in SUBSET Nat /\ T # {}
    BY <1>0
  <2>2. Min(T) \in T
    BY <2>1, LeastOf
  <2>3. at(f) = Min(T)
    BY DEF FirstHit
  <2> QED
    BY <2>1, <2>2, <2>3
<1> DEFINE nth(n) == CHOOSE x \in S : Cardinality({y \in S : at(y) < at(x)}) = n - 1
<1>4. s = [n \in 1..c |-> nth(n)]
  BY DEF SourcesOf, Sorted
<1> HIDE DEF s, S, at
<1>4a. s = [n \in 1..c |-> s[n]]
  <2> HIDE DEF c, nth
  <2> QED
    BY <1>4
<1>5. \A x, y \in S : <<x, y>> \in R <=> at(x) < at(y)
  OBVIOUS
<1>6. \A x, y \in S : x # y => at(x) # at(y)
  BY <1>2
<1> HIDE DEF R
<1>7. Ordered(S, R)
  <2>1. \A x \in S : at(x) \in Nat
    BY <1>2
  <2>2. \A x \in S : <<x, x>> \notin R
    BY <1>5, <2>1
  <2>3. \A x, y, z \in S : <<x, y>> \in R /\ <<y, z>> \in R => <<x, z>> \in R
    BY <1>5, <2>1
  <2>4. \A x, y \in S : x # y => <<x, y>> \in R \/ <<y, x>> \in R
    BY <1>5, <1>6, <2>1
  <2> QED
    BY <2>2, <2>3, <2>4 DEF Ordered
<1>8. ASSUME NEW x \in S PROVE Rank(S, R, x) = Cardinality({y \in S : at(y) < at(x)})
  <2>1. {y \in S : <<y, x>> \in R} = {y \in S : at(y) < at(x)}
    BY <1>5
  <2> QED
    BY <2>1 DEF Rank
<1>c. c \in Nat
  BY <1>1, FS_CardinalityType
<1>9. ASSUME NEW n \in 1..c PROVE s[n] \in S /\ Rank(S, R, s[n]) = n - 1
  <2>0. n - 1 \in 0..(c - 1)
    BY <1>c
  <2>1. PICK x \in S : Rank(S, R, x) = n - 1
    BY <1>1, <1>7, <2>0, RankOnto
  <2>2. Cardinality({y \in S : at(y) < at(x)}) = n - 1
    BY <1>8, <2>1
  <2>3. s[n] \in S /\ Cardinality({y \in S : at(y) < at(s[n])}) = n - 1
    <3> HIDE DEF c
    <3>1. s[n] = nth(n)
      <4> HIDE DEF nth
      <4> QED
        BY <1>4
    <3> QED
      BY <2>2, <3>1
  <2> QED
    BY <1>8, <2>3
<1>10. SortedInto(s, S, R)
  <2>1. ByRank(s, S, R)
    BY <1>4a, <1>9 DEF ByRank
  <2> QED
    BY <1>1, <1>7, <2>1, SortedIs
<1>11. s \in Seq(Sources)
  <2>1. s \in Seq(S)
    BY <1>10 DEF SortedInto
  <2>2. Len(s) \in Nat /\ s = [i \in 1..Len(s) |-> s[i]] /\ \A i \in 1..Len(s) : s[i] \in S
    BY <2>1
  <2> QED
    BY <1>1, <2>2
<1> QED
  BY <1>10, <1>11 DEF SortedInto, s, S

(* No two ranges of one file overlap or touch. *)
Apart(ws) ==
  \A a, b \in 1..Len(ws) : a # b /\ ws[a].source = ws[b].source =>
    ws[a].hi + 1 < ws[b].lo \/ ws[b].hi + 1 < ws[a].lo
CoverOf(ws, f) == UNION {w.lo .. w.hi : w \in {x \in ToSet(ws) : x.source = f}}
WantedOf(fused, f) == UNION {Around(i) : i \in HitsIn(fused, f)}

(* What ranges cover in a file.                                             *)
LEMMA CoverMember ==
  ASSUME NEW ws, NEW f, NEW y
  PROVE  y \in CoverOf(ws, f) <=>
           \E a \in DOMAIN ws : ws[a].source = f /\ y \in ws[a].lo .. ws[a].hi
BY DEF CoverOf, ToSet

(* The ranges of one file are apart, and cover the hits and their           *)
(* neighbours.                                                              *)
LEMMA RangesOfIs ==
  ASSUME NEW fused \in Seq(Keys), NEW f \in Sources
  PROVE  LET x == RangesOf(fused, f)
         IN /\ x \in Seq(Pieces) /\ Apart(x)
            /\ \A i \in 1..Len(x) : x[i].source = f
            /\ CoverOf(x, f) = WantedOf(fused, f)
<1> DEFINE H == HitsIn(fused, f)
           m == MergeWindows(H)
           x == RangesOf(fused, f)
           n == Len(m)
<1>1. H \in SUBSET Nat /\ IsFiniteSet(H)
  <2>1. DOMAIN fused = 1..Len(fused) /\ Len(fused) \in Nat /\ \A i \in DOMAIN fused : fused[i] \in Keys
    OBVIOUS
  <2>2. \A i \in DOMAIN fused : fused[i].index \in Nat
    BY <2>1 DEF Keys
  <2> DEFINE D == {j \in DOMAIN fused : fused[j].source = f}
  <2>3. IsFiniteSet(D)
    <3>1. IsFiniteSet(1..Len(fused))
      BY <2>1, FS_Interval
    <3>2. D \in SUBSET (1..Len(fused))
      BY <2>1
    <3> QED
      BY <3>1, <3>2, FS_Subset
  <2>4. H = {fused[i].index : i \in D}
    BY DEF HitsIn
  <2>5. IsFiniteSet(H)
    <3> DEFINE F == [i \in D |-> fused[i].index]
    <3>1. H = {F[i] : i \in D}
      BY <2>4
    <3>2. F \in Surjection(D, H)
      <4> HIDE DEF D, H
      <4> QED
      BY <3>1 DEF Surjection
    <3> HIDE DEF D, H, F
    <3> QED
      BY <2>3, <3>2, FS_Surjection
  <2> QED
    BY <2>2, <2>4, <2>5
<1> HIDE DEF H
<1>2. m \in Seq(Ranges) /\ Runs(m) /\ Covered(m) = UNION {Around(i) : i \in H}
  BY <1>1, MergeIs
<1>3. x = [i \in DOMAIN m |-> [source |-> f, lo |-> m[i].lo, hi |-> m[i].hi]]
  BY DEF RangesOf, H
<1> HIDE DEF m, x
<1>4. /\ n \in Nat /\ DOMAIN m = 1..n
      /\ \A i \in 1..n : m[i].lo \in Nat /\ m[i].hi \in Nat /\ m[i].lo <= m[i].hi
  <2>1. n \in Nat /\ DOMAIN m = 1..n /\ \A i \in 1..n : m[i] \in Ranges
    BY <1>2
  <2> QED
    BY <1>2, <2>1 DEF Ranges, Runs
<1> HIDE DEF n
<1>5. \A i \in 1..n : [source |-> f, lo |-> m[i].lo, hi |-> m[i].hi] \in Pieces
  BY <1>4 DEF Pieces
<1>6. x \in Seq(Pieces) /\ Len(x) = n /\ DOMAIN x = 1..n
  BY <1>3, <1>4, <1>5
<1>7. \A i \in 1..n : x[i].source = f /\ x[i].lo = m[i].lo /\ x[i].hi = m[i].hi
  BY <1>3, <1>4
<1>8. Apart(x)
  <2> SUFFICES ASSUME NEW a \in 1..n, NEW b \in 1..n, a # b
               PROVE  x[a].hi + 1 < x[b].lo \/ x[b].hi + 1 < x[a].lo
    BY <1>6 DEF Apart
  <2>1. a < b \/ b < a
    BY <1>4
  <2>2. m[a].hi + 1 < m[b].lo \/ m[b].hi + 1 < m[a].lo
    BY <1>2, <2>1 DEF Runs, n
  <2> QED
    BY <1>7, <2>2
<1>9. ASSUME NEW y PROVE y \in CoverOf(x, f) <=> y \in Covered(m)
  <2>1. y \in CoverOf(x, f) <=> \E a \in 1..n : x[a].source = f /\ y \in x[a].lo .. x[a].hi
    BY <1>6, CoverMember
  <2>2. y \in Covered(m) <=> \E a \in 1..n : y \in m[a].lo .. m[a].hi
    BY DEF Covered, n
  <2> QED
    BY <1>7, <2>1, <2>2
<1>10. CoverOf(x, f) = WantedOf(fused, f)
  BY <1>2, <1>9 DEF WantedOf, H
<1> QED
  BY <1>6, <1>7, <1>8, <1>10 DEF x

(* Ranges of different files can follow each other.                         *)
LEMMA ApartTogether ==
  ASSUME NEW x \in Seq(Pieces), NEW y \in Seq(Pieces), Apart(x), Apart(y),
         \A i \in 1..Len(x), j \in 1..Len(y) : x[i].source # y[j].source
  PROVE  /\ Apart(x \o y)
         /\ \A f : CoverOf(x \o y, f) = CoverOf(x, f) \cup CoverOf(y, f)
<1> DEFINE z == x \o y
           m == Len(x)
           n == Len(y)
<1>1. m \in Nat /\ n \in Nat /\ DOMAIN x = 1..m /\ DOMAIN y = 1..n
  OBVIOUS
<1>2. /\ z \in Seq(Pieces) /\ Len(z) = m + n /\ DOMAIN z = 1..(m + n)
      /\ \A i \in 1..m : z[i] = x[i]
      /\ \A j \in 1..n : z[m + j] = y[j]
  OBVIOUS
<1> HIDE DEF z, m, n
<1>3. ASSUME NEW i \in 1..(m + n)
      PROVE  (i \in 1..m /\ z[i] = x[i]) \/ (i - m \in 1..n /\ z[i] = y[i - m])
  <2>1. CASE i \in 1..m
    BY <1>2, <2>1
  <2>2. CASE i \notin 1..m
    <3>1. i - m \in 1..n /\ m + (i - m) = i
      BY <1>1, <2>2
    <3> QED
      BY <1>2, <3>1
  <2> QED
    BY <2>1, <2>2
<1>4. Apart(z)
  <2> SUFFICES ASSUME NEW a \in 1..(m + n), NEW b \in 1..(m + n), a # b, z[a].source = z[b].source
               PROVE  z[a].hi + 1 < z[b].lo \/ z[b].hi + 1 < z[a].lo
    BY <1>2 DEF Apart
  <2>1. a - m # b - m
    BY <1>1
  <2>2. CASE a \in 1..m /\ z[a] = x[a] /\ b \in 1..m /\ z[b] = x[b]
    BY <2>2 DEF Apart, m
  <2>3. CASE a - m \in 1..n /\ z[a] = y[a - m] /\ b - m \in 1..n /\ z[b] = y[b - m]
    BY <2>1, <2>3 DEF Apart, n
  <2>4. CASE a \in 1..m /\ z[a] = x[a] /\ b - m \in 1..n /\ z[b] = y[b - m]
    BY <2>4 DEF m, n
  <2>5. CASE a - m \in 1..n /\ z[a] = y[a - m] /\ b \in 1..m /\ z[b] = x[b]
    BY <2>5 DEF m, n
  <2> QED
    BY <1>3, <2>2, <2>3, <2>4, <2>5
<1>5. ASSUME NEW f, NEW v PROVE v \in CoverOf(z, f) <=> v \in CoverOf(x, f) \/ v \in CoverOf(y, f)
  <2>1. v \in CoverOf(z, f) <=> \E a \in 1..(m + n) : z[a].source = f /\ v \in z[a].lo .. z[a].hi
    BY <1>2, CoverMember
  <2>2. v \in CoverOf(x, f) <=> \E a \in 1..m : x[a].source = f /\ v \in x[a].lo .. x[a].hi
    BY <1>1, CoverMember
  <2>3. v \in CoverOf(y, f) <=> \E a \in 1..n : y[a].source = f /\ v \in y[a].lo .. y[a].hi
    BY <1>1, CoverMember
  <2>4. \A a \in 1..m : a \in 1..(m + n)
    BY <1>1
  <2>5. \A a \in 1..n : m + a \in 1..(m + n)
    BY <1>1
  <2>6. v \in CoverOf(z, f) => v \in CoverOf(x, f) \/ v \in CoverOf(y, f)
    BY <1>3, <2>1, <2>2, <2>3
  <2>7. v \in CoverOf(x, f) => v \in CoverOf(z, f)
    BY <1>2, <2>1, <2>2, <2>4
  <2>8. v \in CoverOf(y, f) => v \in CoverOf(z, f)
    BY <1>2, <2>1, <2>3, <2>5
  <2> QED
    BY <2>6, <2>7, <2>8
<1>6. \A f : CoverOf(z, f) = CoverOf(x, f) \cup CoverOf(y, f)
  BY <1>5
<1> QED
  BY <1>4, <1>6 DEF z

(* group_hits_by_source and merge_windows: what is fetched is the hits and  *)
(* their neighbours, in ranges that are apart.                              *)
LEMMA WindowsIs ==
  ASSUME NEW fused \in Seq(Keys)
  PROVE  /\ Windows(fused) \in Seq(Pieces) /\ Apart(Windows(fused))
         /\ \A f \in Sources : CoverOf(Windows(fused), f) = WantedOf(fused, f)
<1> DEFINE src == SourcesOf(fused)
           n == Len(src)
           seqs == [i \in 1..n |-> RangesOf(fused, src[i])]
<1>1. /\ src \in Seq(Sources) /\ ToSet(src) = {fused[i].source : i \in DOMAIN fused}
      /\ \A i, j \in 1..Len(src) : src[i] = src[j] => i = j
  BY SourcesInOrder
<1>2. n \in Nat /\ DOMAIN src = 1..n
  BY <1>1
<1>3. Windows(fused) = FlattenSeq(seqs)
  BY <1>2, WindowsBySource
<1>4. ASSUME NEW i \in 1..n
      PROVE  /\ src[i] \in Sources /\ seqs[i] \in Seq(Pieces) /\ Apart(seqs[i])
             /\ \A a \in 1..Len(seqs[i]) : seqs[i][a].source = src[i]
             /\ CoverOf(seqs[i], src[i]) = WantedOf(fused, src[i])
  <2>1. src[i] \in Sources
    BY <1>1
  <2> QED
    BY <2>1, RangesOfIs
<1>5. seqs \in Seq(Seq(Pieces)) /\ Len(seqs) = n
  <2>1. \A i \in 1..n : RangesOf(fused, src[i]) \in Seq(Pieces)
    BY <1>4
  <2> HIDE DEF n, src
  <2> QED
    BY <1>2, <2>1
<1> HIDE DEF src, n, seqs
<1>6. PICK r \in [0..n -> Seq(Pieces)] :
           /\ r[0] = <<>> /\ FlattenSeq(seqs) = r[n]
           /\ \A k \in 1..n : r[k] = r[k - 1] \o seqs[k]
  BY <1>5, FlattenIs
<1> DEFINE P(k) == /\ Apart(r[k])
                   /\ \A a \in 1..Len(r[k]) : \E m \in 1..k : r[k][a].source = src[m]
                   /\ \A m \in 1..k : CoverOf(r[k], src[m]) = WantedOf(fused, src[m])
           G == {k \in 0..n : P(k)}
<1>7. 0 \in G
  <2>1. 1..0 = {} /\ Len(<<>>) = 0
    OBVIOUS
  <2>2. Apart(<<>>)
    BY <2>1 DEF Apart
  <2>3. P(0)
    BY <1>6, <2>1, <2>2
  <2> QED
    BY <1>2, <2>3
<1>8. ASSUME NEW k \in 1..n, k - 1 \in G PROVE k \in G
  <2> DEFINE old == r[k - 1]
             new == seqs[k]
  <2>0. k - 1 \in 0..n /\ k \in 0..n /\ k \in Nat
    BY <1>2
  <2>1. P(k - 1)
    BY <1>8
  <2>2. old \in Seq(Pieces)
    BY <1>6, <2>0
  <2>3. /\ new \in Seq(Pieces) /\ Apart(new) /\ \A a \in 1..Len(new) : new[a].source = src[k]
        /\ CoverOf(new, src[k]) = WantedOf(fused, src[k])
    BY <1>4
  <2>4. r[k] = old \o new
    BY <1>6
  <2>5. /\ Apart(old) /\ \A a \in 1..Len(old) : \E m \in 1..(k - 1) : old[a].source = src[m]
        /\ \A m \in 1..(k - 1) : CoverOf(old, src[m]) = WantedOf(fused, src[m])
    BY <2>1
  <2>6. \A m \in 1..(k - 1) : m \in 1..n /\ src[m] # src[k]
    BY <1>1, <1>2 DEF n
  <2> HIDE DEF P, G, old, new
  <2>7. \A a \in 1..Len(old), b \in 1..Len(new) : old[a].source # new[b].source
    BY <2>3, <2>5, <2>6
  <2>8. Apart(r[k]) /\ \A f : CoverOf(r[k], f) = CoverOf(old, f) \cup CoverOf(new, f)
    BY <2>2, <2>3, <2>4, <2>5, <2>7, ApartTogether
  <2>9. ASSUME NEW a \in 1..Len(r[k]) PROVE \E m \in 1..k : r[k][a].source = src[m]
    <3>1. Len(old) \in Nat /\ Len(new) \in Nat
      BY <2>2, <2>3
    <3>2. CASE a \in 1..Len(old)
      <4>1. r[k][a] = old[a]
        BY <2>2, <2>3, <2>4, <3>2
      <4>2. \A m \in 1..(k - 1) : m \in 1..k
        BY <2>0
      <4> QED
        BY <2>5, <3>2, <4>1, <4>2
    <3>3. CASE a \notin 1..Len(old)
      <4>1. Len(r[k]) = Len(old) + Len(new)
        BY <2>2, <2>3, <2>4
      <4>2. a - Len(old) \in 1..Len(new) /\ a = Len(old) + (a - Len(old))
        BY <3>1, <3>3, <4>1
      <4>3. r[k][a] = new[a - Len(old)]
        BY <2>2, <2>3, <2>4, <3>3, <4>1, <4>2
      <4>4. k \in 1..k
        BY <2>0
      <4> QED
        BY <2>3, <4>2, <4>3, <4>4
    <3> QED
      BY <3>2, <3>3
  <2>10. ASSUME NEW m \in 1..k PROVE CoverOf(r[k], src[m]) = WantedOf(fused, src[m])
    <3>1. CASE m = k
      <4>1. CoverOf(old, src[k]) = {}
        <5> SUFFICES ASSUME NEW y \in CoverOf(old, src[k]) PROVE FALSE
          OBVIOUS
        <5>1. DOMAIN old = 1..Len(old)
          BY <2>2
        <5>2. PICK a \in 1..Len(old) : old[a].source = src[k]
          BY <5>1, CoverMember
        <5> QED
          BY <2>5, <2>6, <5>2
      <4> QED
        BY <2>3, <2>8, <3>1, <4>1
    <3>2. CASE m # k
      <4>1. m \in 1..(k - 1)
        BY <2>0, <3>2
      <4>2. CoverOf(new, src[m]) = {}
        <5> SUFFICES ASSUME NEW y \in CoverOf(new, src[m]) PROVE FALSE
          OBVIOUS
        <5>1. DOMAIN new = 1..Len(new)
          BY <2>3
        <5>2. PICK a \in 1..Len(new) : new[a].source = src[m]
          BY <5>1, CoverMember
        <5> QED
          BY <2>3, <2>6, <4>1, <5>2
      <4> QED
        BY <2>5, <2>8, <4>1, <4>2
    <3> QED
      BY <3>1, <3>2
  <2>11. P(k)
    BY <2>8, <2>9, <2>10 DEF P
  <2> QED
    BY <2>0, <2>11 DEF G
<1> HIDE DEF P, G
<1>9. n \in G
  <2>1. \A k \in 0..n : k \in G
    BY <1>2, <1>7, <1>8, Climb
  <2> QED
    BY <1>2, <2>1
<1>10. P(n)
  BY <1>9 DEF G
<1>11. r[n] \in Seq(Pieces)
  BY <1>2, <1>6
<1>12. ASSUME NEW f \in Sources PROVE CoverOf(r[n], f) = WantedOf(fused, f)
  <2>1. CASE f \in ToSet(src)
    <3>1. PICK m \in 1..n : src[m] = f
      BY <1>2, <2>1 DEF ToSet
    <3> QED
      BY <1>10, <3>1 DEF P
  <2>2. CASE f \notin ToSet(src)
    <3>1. CoverOf(r[n], f) = {}
      <4> SUFFICES ASSUME NEW y \in CoverOf(r[n], f) PROVE FALSE
        OBVIOUS
      <4>1. DOMAIN r[n] = 1..Len(r[n])
        BY <1>11
      <4>2. PICK a \in 1..Len(r[n]) : r[n][a].source = f
        BY <4>1, CoverMember
      <4>3. PICK m \in 1..n : r[n][a].source = src[m]
        BY <1>10 DEF P
      <4> QED
        BY <1>2, <2>2, <4>2, <4>3 DEF ToSet
    <3>2. \A i \in DOMAIN fused : fused[i].source # f
      BY <1>1, <2>2
    <3>3. HitsIn(fused, f) = {}
      BY <3>2 DEF HitsIn
    <3>4. WantedOf(fused, f) = {}
      BY <3>3 DEF WantedOf
    <3> QED
      BY <3>1, <3>4
  <2> QED
    BY <2>1, <2>2
<1> QED
  BY <1>3, <1>6, <1>10, <1>11, <1>12 DEF P

(* A sum over the subsets of S, one member at a time. *)
Sums(f, S, term) ==
  /\ f \in [SUBSET S -> Nat] /\ f[{}] = 0
  /\ \A s \in SUBSET S : s # {} => \E x \in s : f[s] = term[x] + f[s \ {x}]

(* Sums of one term and of two.                                             *)
LEMMA SmallSums ==
  ASSUME NEW S, NEW term, NEW f, Sums(f, S, term)
  PROVE  /\ \A a \in S : S = {a} => f[S] = term[a] + 0
         /\ \A a, b \in S : a # b /\ S = {a, b} =>
              f[S] = term[a] + (term[b] + 0) \/ f[S] = term[b] + (term[a] + 0)
<1>1. ASSUME NEW a \in S PROVE f[{a}] = term[a] + 0
  <2>1. {a} \in SUBSET S /\ {a} # {}
    OBVIOUS
  <2>2. PICK x \in {a} : f[{a}] = term[x] + f[{a} \ {x}]
    BY <2>1 DEF Sums
  <2>3. x = a /\ {a} \ {x} = {}
    OBVIOUS
  <2> QED
    BY <2>2, <2>3 DEF Sums
<1>2. ASSUME NEW a \in S, NEW b \in S, a # b
      PROVE  f[{a, b}] = term[a] + (term[b] + 0) \/ f[{a, b}] = term[b] + (term[a] + 0)
  <2>1. {a, b} \in SUBSET S /\ {a, b} # {}
    OBVIOUS
  <2>2. PICK x \in {a, b} : f[{a, b}] = term[x] + f[{a, b} \ {x}]
    BY <2>1 DEF Sums
  <2>3. CASE x = a
    <3>1. {a, b} \ {x} = {b}
      BY <1>2, <2>3
    <3> QED
      BY <1>1, <2>2, <2>3, <3>1
  <2>4. CASE x = b
    <3>1. {a, b} \ {x} = {a}
      BY <1>2, <2>4
    <3> QED
      BY <1>1, <2>2, <2>4, <3>1
  <2> QED
    BY <2>3, <2>4
<1> QED
  BY <1>1, <1>2

(* Where the searches have a key: the number of a list and the rank in it.  *)
Places(pair, key) ==
  UNION {{i} \X {rank \in DOMAIN pair[i] : pair[i][rank] = key} : i \in DOMAIN pair}
Share(at) == Scale \div (RrfK + at[2])

(* The score of a key is the sum of its shares.                             *)
LEMMA ScoreSums ==
  ASSUME NEW pair, NEW key, IsFiniteSet(Places(pair, key)),
         \A at \in Places(pair, key) : Share(at) \in Nat
  PROVE  \E f : /\ Sums(f, Places(pair, key), [at \in Places(pair, key) |-> Share(at)])
                /\ Score(pair, key) = f[Places(pair, key)]
<1> DEFINE S == Places(pair, key)
           term == [at \in S |-> Share(at)]
           pick == [s \in SUBSET S |-> CHOOSE x \in s : TRUE]
           step == [x \in S |-> [v \in Nat |-> Share(x) + v]]
           Eq(g) == g = [s \in SUBSET S |->
                      IF s = {} THEN 0 ELSE Share(CHOOSE x \in s : TRUE) + g[s \ {CHOOSE x \in s : TRUE}]]
           f == CHOOSE g : Eq(g)
<1>1. Score(pair, key) = f[S]
  BY Zenon DEF Score, Places, Share, MapThenSumSet, MapThenFoldSet
<1> HIDE DEF S
<1>2. ASSUME NEW s \in SUBSET S, s # {} PROVE (CHOOSE x \in s : TRUE) \in s
  BY <1>2
<1>3. Foldable(S, Nat, 0, pick, step)
  <2>1. step \in [S -> [Nat -> Nat]]
    <3>1. ASSUME NEW x \in S, NEW v \in Nat PROVE Share(x) + v \in Nat
      BY DEF S
    <3> QED
      BY <3>1
  <2>2. \A s \in SUBSET S : s # {} => pick[s] \in s
    BY <1>2
  <2> HIDE DEF step, pick
  <2> QED
    BY <2>1, <2>2 DEF Foldable, S
<1>4. Eq(f)
  <2>1. PICK g \in [SUBSET S -> Nat] : FoldsTo(g, S, 0, pick, step)
    BY <1>3, FoldExists
  <2>2. ASSUME NEW s \in SUBSET S
        PROVE  g[s] = IF s = {} THEN 0 ELSE Share(CHOOSE x \in s : TRUE) + g[s \ {CHOOSE x \in s : TRUE}]
    <3>1. CASE s = {}
      BY <2>1, <3>1 DEF FoldsTo
    <3>2. CASE s # {}
      <4> DEFINE c == CHOOSE x \in s : TRUE
      <4>1. c \in S /\ pick[s] = c /\ g[s \ {c}] \in Nat
        BY <1>2, <2>1, <3>2
      <4>2. g[s] = step[pick[s]][g[s \ {pick[s]}]]
        <5> HIDE DEF pick, step
        <5> QED
          BY <2>1, <3>2 DEF FoldsTo
      <4>3. g[s] = step[c][g[s \ {c}]]
        BY <4>1, <4>2
      <4> HIDE DEF c
      <4>4. g[s] = Share(c) + g[s \ {c}]
        BY <4>1, <4>3
      <4> QED
        BY <3>2, <4>4 DEF c
    <3> QED
      BY <3>1, <3>2
  <2>3. Eq(g)
    BY <2>1, <2>2
  <2> HIDE DEF Eq
  <2> QED
    BY <2>3
<1>5. FoldsIn(f, S, Nat, 0, pick, step)
  <2>1. f[{}] = 0
    BY <1>4
  <2>2. ASSUME NEW s \in SUBSET S, s # {}, f[s \ {pick[s]}] \in Nat
        PROVE f[s] = step[pick[s]][f[s \ {pick[s]}]]
    <3> DEFINE c == CHOOSE x \in s : TRUE
    <3>1. f[s] = Share(c) + f[s \ {c}]
      <4> HIDE DEF f
      <4> QED
        BY <1>4, <2>2
    <3>2. c \in S /\ pick[s] = c
      BY <1>2, <2>2
    <3> HIDE DEF c, f, pick
    <3>3. step[c][f[s \ {c}]] = Share(c) + f[s \ {c}]
      BY <2>2, <3>2
    <3> QED
      BY <3>1, <3>2, <3>3
  <2> HIDE DEF f, pick, step
  <2> QED
    BY <2>1, <2>2 DEF FoldsIn
<1>6. \A s \in SUBSET S : f[s] \in Nat
  <2> HIDE DEF f, pick, step
  <2> QED
    BY <1>3, <1>5, FoldStaysIn
<1>7. Sums(f, S, term)
  <2>1. f \in [SUBSET S -> Nat]
    <3> HIDE DEF f
    <3> QED
      BY <1>4, <1>6
  <2>2. f[{}] = 0
    BY <1>4
  <2>3. ASSUME NEW s \in SUBSET S, s # {} PROVE \E x \in s : f[s] = term[x] + f[s \ {x}]
    <3> DEFINE c == CHOOSE x \in s : TRUE
    <3>1. f[s] = Share(c) + f[s \ {c}]
      <4> HIDE DEF f
      <4> QED
        BY <1>4, <2>3
    <3>2. c \in s /\ c \in S
      BY <1>2, <2>3
    <3> HIDE DEF c, f
    <3> QED
      BY <3>1, <3>2
  <2> HIDE DEF f, term
  <2> QED
    BY <2>1, <2>2, <2>3 DEF Sums
<1> HIDE DEF f
<1>8. \E g : Sums(g, S, term) /\ Score(pair, key) = g[S]
  BY <1>1, <1>7
<1> QED
  BY <1>8 DEF S, term

(* The product of positive numbers is positive.                             *)
LEMMA Positive ==
  ASSUME NEW a \in Nat \ {0}, NEW b \in Nat \ {0}
  PROVE  a * b \in Nat \ {0}
<1>1. a * b \in Int
  OBVIOUS
<1>2. a * b > 0
  BY a > 0, b > 0
<1> QED
  BY <1>1, <1>2

(* A product of positive numbers is a multiple of each of them.             *)
LEMMA ProductIs ==
  ASSUME NEW T \in SUBSET (Nat \ {0}), IsFiniteSet(T)
  PROVE  /\ ProductSet(T) \in Nat \ {0}
         /\ \A x \in T : \E q \in Nat : ProductSet(T) = x * q
<1> DEFINE V == Nat \ {0}
           pick == [s \in SUBSET T |-> CHOOSE x \in s : TRUE]
           step == [x \in T |-> [v \in V |-> x * v]]
           Eq(g) == g = [s \in SUBSET T |->
                      IF s = {} THEN 1 ELSE (CHOOSE x \in s : TRUE) * g[s \ {CHOOSE x \in s : TRUE}]]
           f == CHOOSE g : Eq(g)
<1>1. ProductSet(T) = f[T]
  BY Zenon DEF ProductSet, FoldSet, MapThenFoldSet
<1>2. ASSUME NEW s \in SUBSET T, s # {} PROVE (CHOOSE x \in s : TRUE) \in s
  BY <1>2
<1>3. Foldable(T, V, 1, pick, step)
  <2>1. step \in [T -> [V -> V]]
    <3>1. ASSUME NEW x \in T, NEW v \in V PROVE x * v \in V
      BY Positive
    <3> HIDE DEF V
    <3> QED
      BY <3>1
  <2>2. \A s \in SUBSET T : s # {} => pick[s] \in s
    BY <1>2
  <2>3. 1 \in V
    OBVIOUS
  <2> HIDE DEF step, pick, V
  <2> QED
    BY <2>1, <2>2, <2>3 DEF Foldable
<1>4. Eq(f)
  <2>1. PICK g \in [SUBSET T -> V] : FoldsTo(g, T, 1, pick, step)
    <3> HIDE DEF V, pick, step
    <3> QED
      BY <1>3, FoldExists
  <2>2. ASSUME NEW s \in SUBSET T
        PROVE  g[s] = IF s = {} THEN 1 ELSE (CHOOSE x \in s : TRUE) * g[s \ {CHOOSE x \in s : TRUE}]
    <3>1. CASE s = {}
      BY <2>1, <3>1 DEF FoldsTo
    <3>2. CASE s # {}
      <4> DEFINE c == CHOOSE x \in s : TRUE
      <4>1. c \in T /\ pick[s] = c /\ g[s \ {c}] \in V
        BY <1>2, <2>1, <3>2
      <4>2. g[s] = step[pick[s]][g[s \ {pick[s]}]]
        <5> HIDE DEF pick, step
        <5> QED
          BY <2>1, <3>2 DEF FoldsTo
      <4>3. g[s] = step[c][g[s \ {c}]]
        BY <4>1, <4>2
      <4> HIDE DEF c, V
      <4>4. g[s] = c * g[s \ {c}]
        BY <4>1, <4>3
      <4> QED
        BY <3>2, <4>4 DEF c
    <3> QED
      BY <3>1, <3>2
  <2>3. Eq(g)
    BY <2>1, <2>2
  <2> HIDE DEF Eq
  <2> QED
    BY <2>3
<1> HIDE DEF V
<1>5. ASSUME NEW s \in SUBSET T, s # {} PROVE f[s] = pick[s] * f[s \ {pick[s]}]
  <2> HIDE DEF f
  <2> QED
    BY <1>4, <1>5
<1>6. \A s \in SUBSET T : f[s] \in V
  <2>1. f[{}] = 1
    BY <1>4
  <2>2. ASSUME NEW s \in SUBSET T, s # {}, f[s \ {pick[s]}] \in V
        PROVE f[s] = step[pick[s]][f[s \ {pick[s]}]]
    <3>1. pick[s] \in T
      BY <1>2, <2>2
    <3> HIDE DEF f, pick
    <3> QED
      BY <1>5, <2>2, <3>1
  <2> HIDE DEF f, pick, step
  <2>3. FoldsIn(f, T, V, 1, pick, step)
    BY <2>1, <2>2 DEF FoldsIn
  <2> QED
    BY <1>3, <2>3, FoldStaysIn
<1>7. \A s \in SUBSET T : s # {} => pick[s] \in s
  BY <1>2
<1> HIDE DEF f, pick, step
<1> DEFINE Multiple(s) == \A x \in s : \E q \in Nat : f[s] = x * q
           Bad == {s \in SUBSET T : ~Multiple(s)}
           Sizes == {Cardinality(s) : s \in Bad}
<1>8. Bad = {}
  <2> SUFFICES ASSUME Bad # {} PROVE FALSE
    OBVIOUS
  <2>1. \A s \in SUBSET T : IsFiniteSet(s) /\ Cardinality(s) \in Nat
    BY FS_Subset, FS_CardinalityType
  <2>2. Sizes \in SUBSET Nat /\ Sizes # {}
    BY <2>1
  <2>3. PICK n \in Sizes : \A m \in Sizes : n <= m
    BY <2>2, Least
  <2>4. PICK s \in Bad : Cardinality(s) = n
    OBVIOUS
  <2>5. s \in SUBSET T /\ s # {}
    OBVIOUS
  <2> DEFINE p == pick[s]
             rest == s \ {p}
  <2>6. p \in s /\ rest \in SUBSET T /\ Cardinality(rest) = Cardinality(s) - 1
    BY <1>7, <2>1, <2>5, FS_RemoveElement
  <2>7. f[s] = p * f[rest] /\ f[rest] \in Nat /\ p \in Nat
    BY <1>5, <1>6, <2>5, <2>6 DEF V
  <2>8. rest \notin Bad
    <3> SUFFICES ASSUME rest \in Bad PROVE FALSE
      OBVIOUS
    <3>1. Cardinality(rest) \in Sizes
      OBVIOUS
    <3> HIDE DEF Sizes, rest, Bad
    <3>2. n <= Cardinality(s) - 1 /\ n \in Nat
      BY <2>2, <2>3, <2>6, <3>1
    <3> QED
      BY <2>4, <3>2
  <2> HIDE DEF p
  <2>9. ASSUME NEW x \in s PROVE \E q \in Nat : f[s] = x * q
    <3>1. CASE x = p
      BY <2>7, <3>1
    <3>2. CASE x # p
      <4>1. x \in rest /\ x \in Nat
        BY <2>5, <3>2
      <4>2. PICK q \in Nat : f[rest] = x * q
        BY <2>6, <2>8, <4>1
      <4> HIDE DEF rest
      <4>3. p * (x * q) = x * (p * q) /\ p * q \in Nat
        BY <2>7, <4>1
      <4> QED
        BY <2>7, <4>2, <4>3
    <3> QED
      BY <3>1, <3>2
  <2> QED
    BY <2>4, <2>9
<1>9. T \in SUBSET T /\ Multiple(T)
  BY <1>8
<1> QED
  BY <1>1, <1>6, <1>9 DEF V

(* The unit of the scores is a multiple of every K + rank.                  *)
LEMMA ScaleIs ==
  /\ Scale \in Nat \ {0} /\ RrfK \in Nat
  /\ \A rank \in 1..LongestList : \E q \in Nat : Scale = (RrfK + rank) * q
<1> DEFINE T == {RrfK + rank : rank \in 1..LongestList}
<1>1. RrfK \in Nat /\ LongestList \in Nat
  BY FusionAssumption
<1>2. T \in SUBSET (Nat \ {0})
  BY <1>1
<1>3. IsFiniteSet(T)
  <2> DEFINE F == [rank \in 1..LongestList |-> RrfK + rank]
  <2>1. F \in Surjection(1..LongestList, T)
    BY DEF Surjection
  <2>2. IsFiniteSet(1..LongestList)
    BY <1>1, FS_Interval
  <2> HIDE DEF F, T
  <2> QED
    BY <2>1, <2>2, FS_Surjection
<1>4. Scale = ProductSet(T)
  BY DEF Scale
<1>5. \A rank \in 1..LongestList : RrfK + rank \in T
  OBVIOUS
<1> HIDE DEF T
<1> QED
  BY <1>1, <1>2, <1>3, <1>4, <1>5, ProductIs

(* The answers of the two searches of a query.                              *)
Pairs == {l \in Seq(Seq(Keys)) : Len(l) = 2}

(* Division without a remainder.                                            *)
LEMMA DivideExactly ==
  ASSUME NEW a \in Nat, NEW b \in Nat \ {0}, NEW q \in Nat, a = b * q
  PROVE  a \div b = q
OBVIOUS

(* A share is 1/(K + rank) without a remainder.                             *)
LEMMA ShareIs ==
  /\ \A i, rank \in Nat : rank > 0 => Share(<<i, rank>>) \in Nat
  /\ \A i \in Nat, rank \in 1..LongestList :
       Share(<<i, rank>>) \in Nat /\ Scale = (RrfK + rank) * Share(<<i, rank>>)
<1>1. Scale \in Nat \ {0} /\ RrfK \in Nat /\ LongestList \in Nat
  BY ScaleIs, FusionAssumption
<1> HIDE DEF Scale
<1>2. ASSUME NEW i \in Nat, NEW rank \in Nat, rank > 0 PROVE Share(<<i, rank>>) \in Nat
  <2>1. RrfK + rank \in Nat \ {0}
    BY <1>1, <1>2
  <2>2. Scale \div (RrfK + rank) \in Nat
    BY <1>1, <2>1
  <2> QED
    BY <2>2 DEF Share
<1>3. ASSUME NEW i \in Nat, NEW rank \in 1..LongestList
      PROVE  Share(<<i, rank>>) \in Nat /\ Scale = (RrfK + rank) * Share(<<i, rank>>)
  <2>1. PICK q \in Nat : Scale = (RrfK + rank) * q
    BY ScaleIs
  <2>2. RrfK + rank \in Nat \ {0}
    BY <1>1
  <2>3. Scale \div (RrfK + rank) = q
    BY <1>1, <2>1, <2>2, DivideExactly
  <2> QED
    BY <2>1, <2>3 DEF Share
<1> QED
  BY <1>2, <1>3

(* Two shares outweigh one while the ranks are at most K + 1.               *)
LEMMA TwoOutweighOne ==
  ASSUME NEW K \in Nat, NEW S \in Nat \ {0},
         NEW r1 \in 1..(K + 1), NEW r2 \in 1..(K + 1), NEW r \in Nat \ {0},
         NEW a \in Nat, NEW b \in Nat, NEW c \in Nat,
         S = (K + r1) * a, S = (K + r2) * b, S = (K + r) * c
  PROVE  a + b > c
<1> DEFINE m == K + (K + 1)
<1>0. m \in Nat \ {0} /\ K + r1 \in Nat /\ K + r2 \in Nat /\ K + r \in Nat
      /\ K + r1 <= m /\ K + r2 <= m /\ K + 1 <= K + r
  OBVIOUS
<1>m. ASSUME NEW x \in Nat, NEW y \in Nat, NEW z \in Nat, x <= y PROVE x * z <= y * z
  BY <1>m
<1>1. S <= m * a /\ S <= m * b
  BY <1>0, <1>m
<1>2. (K + 1) * c <= S
  BY <1>0, <1>m
<1>3. c > 0
  BY <1>0
<1>4. m * c < S + S
  <2>1. m * c = (K + 1) * c + (K + 1) * c - c
    OBVIOUS
  <2>2. (K + 1) * c \in Nat /\ m * c \in Nat
    OBVIOUS
  <2> HIDE DEF m
  <2> QED
    BY <1>2, <1>3, <2>1, <2>2
<1>5. m * c < m * a + m * b
  <2>1. m * a \in Nat /\ m * b \in Nat /\ m * c \in Nat
    OBVIOUS
  <2> HIDE DEF m
  <2> QED
    BY <1>1, <1>4, <2>1
<1>6. m * a + m * b = m * (a + b)
  OBVIOUS
<1>7. CASE a + b <= c
  <2>1. m * (a + b) <= m * c
    <3> HIDE DEF m
    <3>1. (a + b) * m <= c * m
      BY <1>0, <1>7, <1>m
    <3> QED
      BY <1>0, <3>1
  <2>2. m * (a + b) \in Nat /\ m * c \in Nat
    BY <1>0
  <2> HIDE DEF m
  <2> QED
    BY <1>5, <1>6, <2>1, <2>2
<1> QED
  BY <1>7

(* What a pair of answers names.                                            *)
LEMMA PairIs ==
  ASSUME NEW l \in Pairs
  PROVE  /\ DOMAIN l = {1, 2} /\ l[1] \in Seq(Keys) /\ l[2] \in Seq(Keys)
         /\ FlattenSeq(l) = l[1] \o l[2]
         /\ KeysOf(l) = ToSet(l[1]) \cup ToSet(l[2])
         /\ ToSet(FlattenSeq(l)) = KeysOf(l)
<1>1. l \in Seq(Seq(Keys)) /\ Len(l) = 2 /\ DOMAIN l = 1..2
  BY DEF Pairs
<1>2. 1..2 = {1, 2} /\ 2 - 1 = 1 /\ 1 - 1 = 0 /\ 1 \in 1..2 /\ 2 \in 1..2
  OBVIOUS
<1>3. l[1] \in Seq(Keys) /\ l[2] \in Seq(Keys)
  BY <1>1
<1>4. PICK r \in [0..2 -> Seq(Keys)] :
        r[0] = <<>> /\ FlattenSeq(l) = r[2] /\ \A k \in 1..2 : r[k] = r[k - 1] \o l[k]
  <2> DEFINE n == Len(l)
  <2>1. n = 2 /\ l \in Seq(Seq(Keys))
    BY <1>1
  <2>2. \E r \in [0..n -> Seq(Keys)] :
          r[0] = <<>> /\ FlattenSeq(l) = r[n] /\ \A k \in 1..n : r[k] = r[k - 1] \o l[k]
    BY <2>1, FlattenIs
  <2> HIDE DEF n
  <2> QED
    BY <2>1, <2>2
<1>5. r[1] = <<>> \o l[1] /\ r[2] = r[1] \o l[2]
  BY <1>2, <1>4
<1>6. FlattenSeq(l) = l[1] \o l[2]
  BY <1>3, <1>4, <1>5
<1>7. KeysOf(l) = ToSet(l[1]) \cup ToSet(l[2])
  BY <1>1, <1>2 DEF KeysOf
<1>8. ToSet(l[1] \o l[2]) = ToSet(l[1]) \cup ToSet(l[2])
  <2> DEFINE x == l[1]
             y == l[2]
             z == x \o y
  <2>1. x \in Seq(Keys) /\ y \in Seq(Keys)
    BY <1>3
  <2> HIDE DEF x, y
  <2>2. Len(x) \in Nat /\ Len(y) \in Nat /\ DOMAIN x = 1..Len(x) /\ DOMAIN y = 1..Len(y)
        /\ DOMAIN z = 1..(Len(x) + Len(y))
    BY <2>1
  <2>3. \A i \in 1..Len(x) : z[i] = x[i] /\ i \in DOMAIN z
    BY <2>1, <2>2
  <2>4. \A i \in 1..Len(y) : z[Len(x) + i] = y[i] /\ Len(x) + i \in DOMAIN z
    BY <2>1, <2>2
  <2>5. ASSUME NEW i \in DOMAIN z
        PROVE  i \in 1..Len(x) \/ (i - Len(x) \in 1..Len(y) /\ i = Len(x) + (i - Len(x)))
    BY <2>2
  <2> HIDE DEF z
  <2>6. ASSUME NEW v PROVE v \in ToSet(z) <=> v \in ToSet(x) \/ v \in ToSet(y)
    <3>1. v \in ToSet(x) => v \in ToSet(z)
      BY <2>2, <2>3 DEF ToSet
    <3>2. v \in ToSet(y) => v \in ToSet(z)
      BY <2>2, <2>4 DEF ToSet
    <3>3. ASSUME NEW i \in DOMAIN z, v = z[i] PROVE v \in ToSet(x) \/ v \in ToSet(y)
      <4>1. CASE i \in 1..Len(x)
        BY <2>2, <2>3, <3>3, <4>1 DEF ToSet
      <4>2. CASE i - Len(x) \in 1..Len(y) /\ i = Len(x) + (i - Len(x))
        BY <2>2, <2>4, <3>3, <4>2 DEF ToSet
      <4> QED
        BY <2>5, <4>1, <4>2
    <3>4. v \in ToSet(z) => \E i \in DOMAIN z : v = z[i]
      BY DEF ToSet
    <3> QED
      BY <3>1, <3>2, <3>3, <3>4
  <2> QED
    BY <2>6 DEF x, y, z
<1> QED
  BY <1>1, <1>2, <1>3, <1>6, <1>7, <1>8

(* The places of a key in a pair of answers.                                *)
LEMMA PlacesIs ==
  ASSUME NEW l \in Pairs, NEW key
  PROVE  /\ IsFiniteSet(Places(l, key))
         /\ \A at \in Places(l, key) : Share(at) \in Nat
         /\ \A at : at \in Places(l, key) <=>
              \E i \in {1, 2} : \E rank \in 1..Len(l[i]) : at = <<i, rank>> /\ l[i][rank] = key
<1> DEFINE R(i) == {rank \in DOMAIN l[i] : l[i][rank] = key}
           P == Places(l, key)
<1>1. /\ DOMAIN l = {1, 2}
      /\ \A i \in {1, 2} : l[i] \in Seq(Keys)
  BY PairIs
<1>2. \A i \in {1, 2} : DOMAIN l[i] = 1..Len(l[i]) /\ Len(l[i]) \in Nat
  BY <1>1
<1>3. P = ({1} \X R(1)) \cup ({2} \X R(2))
  <2>1. P = UNION {{i} \X R(i) : i \in {1, 2}}
    BY <1>1 DEF Places
  <2> HIDE DEF R, P
  <2> QED
    BY <2>1
<1>4. ASSUME NEW i \in {1, 2} PROVE IsFiniteSet({i} \X R(i))
  <2> DEFINE n == Len(l[i])
  <2>0. n \in Nat /\ DOMAIN l[i] = 1..n
    BY <1>2
  <2>a. R(i) \in SUBSET (1..n)
    BY <2>0
  <2> HIDE DEF n
  <2>b. IsFiniteSet(1..n)
    BY <2>0, FS_Interval
  <2>1. IsFiniteSet(1..Len(l[i])) /\ R(i) \in SUBSET (1..Len(l[i]))
    BY <2>a, <2>b DEF n
  <2>2. IsFiniteSet(R(i)) /\ IsFiniteSet({i})
    BY <2>1, FS_Subset, FS_Singleton
  <2> HIDE DEF R
  <2> QED
    BY <2>2, FS_Product
<1>5. IsFiniteSet(P)
  <2> HIDE DEF R, P
  <2> QED
    BY <1>3, <1>4, FS_Union
<1>6. ASSUME NEW at
      PROVE  at \in P <=> \E i \in {1, 2} : \E rank \in 1..Len(l[i]) : at = <<i, rank>> /\ l[i][rank] = key
  <2>1. at \in P <=> \E i \in {1, 2} : \E rank \in R(i) : at = <<i, rank>>
    <3> HIDE DEF P, R
    <3> QED
      BY <1>3
  <2> QED
    BY <1>2, <2>1
<1>7. ASSUME NEW at \in P PROVE Share(at) \in Nat
  <2>0. PICK i \in {1, 2} : \E rank \in 1..Len(l[i]) : at = <<i, rank>>
    BY <1>6
  <2>1. PICK rank \in 1..Len(l[i]) : at = <<i, rank>>
    BY <2>0
  <2>2. i \in Nat /\ rank \in Nat /\ rank > 0
    BY <1>2
  <2> QED
    BY <2>1, <2>2, ShareIs
<1> QED
  BY <1>5, <1>6, <1>7

(* Scores are numbers.                                                      *)
LEMMA ScoreTyped ==
  ASSUME NEW l \in Pairs, NEW key
  PROVE  Score(l, key) \in Nat
<1>1. PICK f : /\ Sums(f, Places(l, key), [at \in Places(l, key) |-> Share(at)])
               /\ Score(l, key) = f[Places(l, key)]
  BY PlacesIs, ScoreSums
<1> QED
  BY <1>1 DEF Sums

(* rrf_fuse before the cut: the keys by falling score, and where two have   *)
(* the same score, by their first place in the lists.                       *)
First(l, key) == Min({i \in DOMAIN FlattenSeq(l) : FlattenSeq(l)[i] = key})
FusedOf(pair) ==
  LET walked == FlattenSeq(pair)
      score == [key \in ToSet(walked) |-> Score(pair, key)]
      FirstAt(key) == Min({i \in DOMAIN walked : walked[i] = key})
      Before(x, y) == \/ score[x] > score[y]
                      \/ score[x] = score[y] /\ FirstAt(x) < FirstAt(y)
  IN Sorted(ToSet(walked), Before)
Fuses(l, R) ==
  /\ SortedInto(FusedOf(l), KeysOf(l), R)
  /\ \A x, y \in KeysOf(l) : Score(l, x) > Score(l, y) => <<x, y>> \in R

(* rrf_fuse sorts the keys of both answers, and a greater score comes       *)
(* first.                                                                   *)
LEMMA FusedIs ==
  ASSUME NEW l \in Pairs
  PROVE  /\ IsFiniteSet(KeysOf(l)) /\ KeysOf(l) \in SUBSET Keys
         /\ \E R : Fuses(l, R)
<1> DEFINE walked == FlattenSeq(l)
           S == ToSet(walked)
           score == [key \in S |-> Score(l, key)]
           at(key) == First(l, key)
           c == Cardinality(S)
           Ahead(x, y) == \/ score[x] > score[y]
                          \/ score[x] = score[y] /\ at(x) < at(y)
           R == {e \in S \X S : Ahead(e[1], e[2])}
           nth(n) == CHOOSE x \in S : Cardinality({y \in S : Ahead(y, x)}) = n - 1
           s == FusedOf(l)
<1>1. walked \in Seq(Keys) /\ S = KeysOf(l)
  <2>0. l[1] \in Seq(Keys) /\ l[2] \in Seq(Keys)
    BY PairIs
  <2>1. l[1] \o l[2] \in Seq(Keys)
    BY ONLY <2>0
  <2> QED
    BY <2>1, PairIs
<1>4. s = [n \in 1..c |-> nth(n)]
  BY DEF FusedOf, Sorted, First
<1> HIDE DEF s, walked, nth
<1>2. IsFiniteSet(S) /\ S \in SUBSET Keys
  <2>1. DOMAIN walked = 1..Len(walked) /\ Len(walked) \in Nat /\ \A i \in DOMAIN walked : walked[i] \in Keys
    BY <1>1
  <2>2. walked \in Surjection(1..Len(walked), S)
    BY <1>1, <2>1 DEF Surjection, ToSet
  <2>3. IsFiniteSet(1..Len(walked))
    BY <2>1, FS_Interval
  <2>4. S \in SUBSET Keys
    BY <2>1 DEF ToSet
  <2> HIDE DEF S
  <2> QED
    BY <2>2, <2>3, <2>4, FS_Surjection
<1>3. ASSUME NEW x \in S
      PROVE  score[x] = Score(l, x) /\ score[x] \in Nat /\ at(x) \in DOMAIN walked /\ at(x) \in Nat /\ walked[at(x)] = x
  <2> DEFINE T == {i \in DOMAIN walked : walked[i] = x}
  <2>1. T \in SUBSET Nat /\ T # {}
    BY <1>1 DEF ToSet
  <2>2. Min(T) \in T
    BY <2>1, LeastOf
  <2>3. at(x) = Min(T)
    BY DEF First, walked
  <2>4. score[x] = Score(l, x)
    OBVIOUS
  <2> QED
    BY <2>1, <2>2, <2>3, <2>4, ScoreTyped
<1> HIDE DEF S, score, at, Ahead
<1>5. \A x, y \in S : <<x, y>> \in R <=> Ahead(x, y)
  OBVIOUS
<1>6. \A x, y \in S : x # y => at(x) # at(y)
  BY <1>3
<1> HIDE DEF R
<1>7. Ordered(S, R)
  <2>1. \A x \in S : at(x) \in Nat /\ score[x] \in Nat
    BY <1>3
  <2>2. \A x \in S : ~Ahead(x, x)
    BY <2>1 DEF Ahead
  <2>3. \A x, y, z \in S : Ahead(x, y) /\ Ahead(y, z) => Ahead(x, z)
    BY <2>1 DEF Ahead
  <2>4. \A x, y \in S : x # y => Ahead(x, y) \/ Ahead(y, x)
    BY <1>6, <2>1 DEF Ahead
  <2> QED
    BY <1>5, <2>2, <2>3, <2>4 DEF Ordered
<1>8. ASSUME NEW x \in S PROVE Rank(S, R, x) = Cardinality({y \in S : Ahead(y, x)})
  <2>1. {y \in S : <<y, x>> \in R} = {y \in S : Ahead(y, x)}
    BY <1>5
  <2> QED
    BY <2>1 DEF Rank
<1>c. c \in Nat
  BY <1>2, FS_CardinalityType
<1>4a. s = [n \in 1..c |-> s[n]]
  <2> HIDE DEF c
  <2> QED
    BY <1>4
<1>9. ASSUME NEW n \in 1..c PROVE s[n] \in S /\ Rank(S, R, s[n]) = n - 1
  <2>0. n - 1 \in 0..(c - 1)
    BY <1>c
  <2>1. PICK x \in S : Rank(S, R, x) = n - 1
    BY <1>2, <1>7, <2>0, RankOnto
  <2>2. Cardinality({y \in S : Ahead(y, x)}) = n - 1
    BY <1>8, <2>1
  <2>3. s[n] \in S /\ Cardinality({y \in S : Ahead(y, s[n])}) = n - 1
    <3> HIDE DEF c
    <3>1. s[n] = nth(n)
      BY <1>4
    <3>2. nth(n) \in S /\ Cardinality({y \in S : Ahead(y, nth(n))}) = n - 1
      BY <2>2 DEF nth
    <3> QED
      BY <3>1, <3>2
  <2> QED
    BY <1>8, <2>3
<1>10. SortedInto(s, S, R)
  <2>1. ByRank(s, S, R)
    BY <1>4a, <1>9 DEF ByRank
  <2> QED
    BY <1>2, <1>7, <2>1, SortedIs
<1>11. \A x, y \in S : Score(l, x) > Score(l, y) => <<x, y>> \in R
  BY <1>3, <1>5 DEF Ahead
<1> QED
  BY <1>1, <1>2, <1>10, <1>11 DEF Fuses, s

(* What is kept of it is its beginning.                                     *)
LEMMA RrfFuseIs ==
  ASSUME NEW l \in Pairs, NEW limit \in Nat
  PROVE  /\ RrfFuse(l, limit) \in Seq(Keys)
         /\ RrfFuse(l, limit) = Cut(FusedOf(l), limit)
         /\ FusedOf(l) \in Seq(Keys)
         /\ Len(RrfFuse(l, limit)) <= Len(FusedOf(l))
         /\ \A i \in 1..Len(RrfFuse(l, limit)) : RrfFuse(l, limit)[i] = FusedOf(l)[i]
<1>1. RrfFuse(l, limit) = Cut(FusedOf(l), limit)
  BY Zenon DEF RrfFuse, FusedOf
<1> DEFINE s == FusedOf(l)
           m == Min({limit, Len(s)})
<1>2. s \in Seq(Keys)
  <2>1. s \in Seq(KeysOf(l)) /\ KeysOf(l) \in SUBSET Keys
    BY FusedIs DEF Fuses, SortedInto
  <2>2. Len(s) \in Nat /\ s = [i \in 1..Len(s) |-> s[i]] /\ \A i \in 1..Len(s) : s[i] \in KeysOf(l)
    BY <2>1
  <2> HIDE DEF s
  <2> QED
    BY <2>1, <2>2
<1> HIDE DEF s
<1>3. m \in Nat /\ m <= Len(s)
  <2>1. {limit, Len(s)} \in SUBSET Nat /\ {limit, Len(s)} # {}
    BY <1>2
  <2>2. m \in {limit, Len(s)} /\ \A x \in {limit, Len(s)} : m <= x
    BY <2>1, LeastOf
  <2> QED
    BY <2>1, <2>2
<1>4. Cut(s, limit) = SubSeq(s, 1, m)
  BY DEF Cut
<1> HIDE DEF m
<1>5. SubSeq(s, 1, m) \in Seq(Keys) /\ Len(SubSeq(s, 1, m)) = m
      /\ \A i \in 1..m : SubSeq(s, 1, m)[i] = s[i]
  BY <1>2, <1>3
<1> QED
  BY <1>1, <1>2, <1>3, <1>4, <1>5 DEF s

(* An answer no longer than the pool that names no chunk twice, but for     *)
(* those of files stored twice.                                             *)
Unrepeated(s) == \A m, n \in 1..Len(s) : s[m] = s[n] => m = n
Once(s, key)  == \A m, n \in 1..Len(s) : s[m] = key /\ s[n] = key => m = n
Searched(s)   == Len(s) <= Pool /\ \A key \in Keys : key.source \notin doubled => Once(s, key)

(* Key is at one rank of list i, and at no other.                           *)
PlacedOnce(l, i, key) ==
  \E rank \in 1..LongestList :
    /\ rank <= Pool /\ l[i][rank] = key /\ rank \in 1..Len(l[i])
    /\ \A other \in 1..Len(l[i]) : l[i][other] = key => other = rank

(* A key that an answer names once is placed once in it.                    *)
LEMMA OnePlace ==
  ASSUME NEW l \in Pairs, NEW i \in {1, 2}, Len(l[i]) <= Pool, NEW key, key \in ToSet(l[i]), Once(l[i], key)
  PROVE  PlacedOnce(l, i, key)
<1>1. l[i] \in Seq(Keys)
  BY PairIs
<1>2. DOMAIN l[i] = 1..Len(l[i]) /\ Len(l[i]) \in Nat
  BY <1>1
<1>3. PICK rank \in 1..Len(l[i]) : l[i][rank] = key
  BY <1>2 DEF ToSet
<1>4. Len(l[i]) <= Pool /\ Pool \in Nat /\ Pool <= LongestList /\ LongestList \in Nat
  BY RetrievalAssumption, FusionAssumption
<1>5. rank <= Pool /\ rank \in 1..LongestList
  BY <1>2, <1>4
<1> QED
  BY <1>3, <1>5 DEF Once, PlacedOnce

(* A key that both answers name, once each; one that only answer i names.   *)
InBoth(l, key) == \A n \in {1, 2} : key \in ToSet(l[n]) /\ Once(l[n], key)
InOnly(l, i, key) ==
  key \in ToSet(l[i]) /\ Once(l[i], key) /\ \A n \in {1, 2} : n # i => key \notin ToSet(l[n])

(* rrf_fuse puts a chunk of both lists before one of a single list.         *)
LEMMA BothBeforeOne ==
  ASSUME NEW l \in Pairs, Len(l[1]) <= Pool, Len(l[2]) <= Pool, Pool <= RrfK + 1,
         NEW limit \in Nat, NEW both, InBoth(l, both), NEW one, NEW i \in {1, 2}, InOnly(l, i, one),
         one \in ToSet(RrfFuse(l, limit))
  PROVE  \E m, n \in DOMAIN RrfFuse(l, limit) :
           RrfFuse(l, limit)[m] = both /\ RrfFuse(l, limit)[n] = one /\ m < n
<1>0. /\ l[1] \in Seq(Keys) /\ l[2] \in Seq(Keys) /\ RrfK \in Nat /\ LongestList \in Nat
      /\ Scale \in Nat \ {0} /\ Pool \in Nat /\ 1 \in {1, 2} /\ 2 \in {1, 2}
  BY PairIs, ScaleIs, FusionAssumption, RetrievalAssumption
<1> HIDE DEF Scale
<1>a. /\ both \in ToSet(l[1]) /\ both \in ToSet(l[2]) /\ one \in ToSet(l[i])
      /\ Once(l[1], both) /\ Once(l[2], both) /\ Once(l[i], one)
  BY DEF InBoth, InOnly
<1>o. PICK o \in {1, 2} : o # i /\ one \notin ToSet(l[o])
  <2>1. \E o \in {1, 2} : o # i
    OBVIOUS
  <2> QED
    BY <2>1 DEF InOnly
<1>1. PICK r1 \in 1..LongestList :
        /\ r1 <= Pool /\ l[1][r1] = both /\ r1 \in 1..Len(l[1])
        /\ \A other \in 1..Len(l[1]) : l[1][other] = both => other = r1
  BY <1>0, <1>a, OnePlace DEF PlacedOnce
<1>2. PICK r2 \in 1..LongestList :
        /\ r2 <= Pool /\ l[2][r2] = both /\ r2 \in 1..Len(l[2])
        /\ \A other \in 1..Len(l[2]) : l[2][other] = both => other = r2
  BY <1>0, <1>a, OnePlace DEF PlacedOnce
<1>3. PICK r \in 1..LongestList :
        /\ r <= Pool /\ l[i][r] = one /\ r \in 1..Len(l[i])
        /\ \A other \in 1..Len(l[i]) : l[i][other] = one => other = r
  <2>1. Len(l[i]) <= Pool
    OBVIOUS
  <2>2. PlacedOnce(l, i, one)
    BY <1>a, <2>1, OnePlace
  <2> QED
    BY <2>2 DEF PlacedOnce
<1>4. Places(l, both) = {<<1, r1>>, <<2, r2>>}
  <2>1. ASSUME NEW at PROVE at \in Places(l, both) <=> at = <<1, r1>> \/ at = <<2, r2>>
    <3>1. at \in Places(l, both) <=>
            \E n \in {1, 2} : \E rank \in 1..Len(l[n]) : at = <<n, rank>> /\ l[n][rank] = both
      BY PlacesIs
    <3>2. (\E rank \in 1..Len(l[1]) : at = <<1, rank>> /\ l[1][rank] = both) <=> at = <<1, r1>>
      BY <1>1
    <3>3. (\E rank \in 1..Len(l[2]) : at = <<2, rank>> /\ l[2][rank] = both) <=> at = <<2, r2>>
      BY <1>2
    <3> QED
      BY <3>1, <3>2, <3>3
  <2> QED
    BY <2>1
<1>5. Places(l, one) = {<<i, r>>}
  <2>1. \A other \in 1..Len(l[o]) : l[o][other] # one
    BY <1>0, <1>o DEF ToSet
  <2>2. ASSUME NEW at PROVE at \in Places(l, one) <=> at = <<i, r>>
    <3>1. \A j \in {1, 2} : j = i \/ j = o
      BY <1>o
    <3> QED
      BY <1>3, <2>1, <3>1, PlacesIs
  <2> QED
    BY <2>2
<1> DEFINE a == Share(<<1, r1>>)
           b == Share(<<2, r2>>)
           c == Share(<<i, r>>)
<1>6. /\ a \in Nat /\ Scale = (RrfK + r1) * a
      /\ b \in Nat /\ Scale = (RrfK + r2) * b
      /\ c \in Nat /\ Scale = (RrfK + r) * c
  <2>1. 1 \in Nat /\ 2 \in Nat /\ i \in Nat
    OBVIOUS
  <2> QED
    BY <2>1, ShareIs
<1>7. Score(l, both) = a + b
  <2> DEFINE S == Places(l, both)
             term == [at \in S |-> Share(at)]
  <2>1. PICK f : Sums(f, S, term) /\ Score(l, both) = f[S]
    BY PlacesIs, ScoreSums
  <2>2. <<1, r1>> \in S /\ <<2, r2>> \in S /\ <<1, r1>> # <<2, r2>> /\ S = {<<1, r1>>, <<2, r2>>}
    BY <1>4
  <2>3. term[<<1, r1>>] = a /\ term[<<2, r2>>] = b
    BY <2>2
  <2> HIDE DEF S, term, a, b
  <2>4. f[S] = a + (b + 0) \/ f[S] = b + (a + 0)
    BY <2>1, <2>2, <2>3, SmallSums
  <2> QED
    BY <1>6, <2>1, <2>4
<1>8. Score(l, one) = c
  <2> DEFINE S == Places(l, one)
             term == [at \in S |-> Share(at)]
  <2>1. PICK f : Sums(f, S, term) /\ Score(l, one) = f[S]
    BY PlacesIs, ScoreSums
  <2>2. <<i, r>> \in S /\ S = {<<i, r>>}
    BY <1>5
  <2>3. term[<<i, r>>] = c
    BY <2>2
  <2> HIDE DEF S, term, c
  <2>4. f[S] = c + 0
    BY <2>1, <2>2, <2>3, SmallSums
  <2> QED
    BY <1>6, <2>1, <2>4
<1> HIDE DEF a, b, c
<1>9. r1 \in 1..(RrfK + 1) /\ r2 \in 1..(RrfK + 1) /\ r \in Nat \ {0}
  BY <1>0, <1>1, <1>2
<1>10. Score(l, both) > Score(l, one)
  <2>1. RrfK \in Nat /\ Scale \in Nat \ {0}
    BY <1>0
  <2>2. a + b > c
    BY <1>6, <1>9, <2>1, TwoOutweighOne
  <2> QED
    BY <1>7, <1>8, <2>2
<1>11. PICK R : Fuses(l, R)
  BY FusedIs
<1> DEFINE s == FusedOf(l)
           u == RrfFuse(l, limit)
<1>12. both \in KeysOf(l) /\ one \in KeysOf(l)
  <2>1. KeysOf(l) = ToSet(l[1]) \cup ToSet(l[2])
    BY PairIs
  <2> QED
    BY <1>a, <2>1
<1>13. <<both, one>> \in R /\ SortedInto(s, KeysOf(l), R)
  BY <1>10, <1>11, <1>12 DEF Fuses
<1>14. u \in Seq(Keys) /\ s \in Seq(Keys) /\ Len(u) <= Len(s) /\ \A m \in 1..Len(u) : u[m] = s[m]
  BY RrfFuseIs
<1>15. one \in ToSet(u)
  OBVIOUS
<1> HIDE DEF s, u
<1>16. PICK n \in 1..Len(u) : u[n] = one
  BY <1>14, <1>15 DEF ToSet
<1>17. PICK m \in 1..Len(s) : s[m] = both
  <2>1. both \in ToSet(s) /\ DOMAIN s = 1..Len(s)
    BY <1>12, <1>13, <1>14 DEF SortedInto
  <2> QED
    BY <2>1 DEF ToSet
<1>18. Len(u) \in Nat /\ Len(s) \in Nat /\ DOMAIN u = 1..Len(u)
  BY <1>14
<1>19. n \in 1..Len(s) /\ s[n] = one
  BY <1>14, <1>16, <1>18
<1>20. m < n
  BY <1>13, <1>17, <1>19 DEF SortedInto
<1>21. m \in 1..Len(u) /\ u[m] = both
  BY <1>14, <1>16, <1>17, <1>18, <1>20
<1> QED
  BY <1>16, <1>18, <1>20, <1>21 DEF u

(* The rows of one copy of a file from index a to b; a copy that is stored  *)
(* whole.                                                                   *)
Stretch(f, c, a, b) == {[source |-> f, index |-> i, copy |-> c] : i \in a..b}
WholeCopy(S) == \E f : \E c \in Nat, last \in Int : S = Stretch(f, c, 0, last)
CopyOf(f, c) == {r \in OfFile(f) : r.copy = c}

(* A stretch has as many rows as indices.                                   *)
LEMMA StretchCounts ==
  ASSUME NEW f, NEW c, NEW a \in Nat, NEW b \in Int, b >= a - 1
  PROVE  IsFiniteSet(Stretch(f, c, a, b)) /\ Cardinality(Stretch(f, c, a, b)) = b - a + 1
<1> DEFINE row(i) == [source |-> f, index |-> i, copy |-> c]
           F == [i \in a..b |-> row(i)]
           S == Stretch(f, c, a, b)
<1>1. IsFiniteSet(a..b) /\ Cardinality(a..b) = b - a + 1
  BY FS_Interval
<1>2. F \in Bijection(a..b, S)
  <2>1. \A i, j \in a..b : F[i] = F[j] => i = j
    OBVIOUS
  <2>2. F \in [a..b -> S] /\ \A x \in S : \E i \in a..b : F[i] = x
    BY DEF Stretch
  <2> HIDE DEF F, S
  <2> QED
    BY <2>1, <2>2 DEF Bijection, Injection, Surjection, IsInjective
<1> HIDE DEF F, S
<1>3. ExistsBijection(a..b, S)
  BY <1>2 DEF ExistsBijection
<1> QED
  BY <1>1, <1>3, FS_Bijection DEF S

(* The rows of a stretch, put in order, are a gapless passage.              *)
LEMMA PassageIs ==
  ASSUME NEW f, NEW c \in Nat, NEW a \in Nat, NEW b \in Int
  PROVE  Gapless(Passage(Stretch(f, c, a, b)))
<1> DEFINE S == Stretch(f, c, a, b)
           p == Passage(S)
           Before(r, s) == r.index < s.index \/ (r.index = s.index /\ r.copy < s.copy)
           nth(n) == CHOOSE x \in S : Cardinality({y \in S : Before(y, x)}) = n - 1
           row(i) == [source |-> f, index |-> i, copy |-> c]
           card == Cardinality(S)
<1>1. p = [n \in 1..card |-> nth(n)]
  BY DEF Passage, Sorted
<1> HIDE DEF p, nth
<1>2. \A x \in S : x = row(x.index) /\ x.index \in a..b
  BY DEF Stretch
<1>3. \A i \in a..b : row(i) \in S
  BY DEF Stretch
<1>4. ASSUME NEW x \in S PROVE Cardinality({y \in S : Before(y, x)}) = x.index - a
  <2>1. x.index \in Int /\ x.index >= a /\ x.index <= b /\ x.copy = c
    BY <1>2
  <2> DEFINE e == x.index - 1
  <2>2. {y \in S : Before(y, x)} = Stretch(f, c, a, e)
    <3>1. ASSUME NEW i \in a..b PROVE Before(row(i), x) <=> i \in a..e
      <4>1. row(i).index = i /\ row(i).copy = c /\ ~(c < c)
        OBVIOUS
      <4> QED
        BY <2>1, <4>1
    <3> QED
      BY <1>2, <1>3, <2>1, <3>1 DEF Stretch
  <2>3. e >= a - 1 /\ e \in Int /\ e - a + 1 = x.index - a
    BY <2>1
  <2> HIDE DEF e
  <2>4. Cardinality(Stretch(f, c, a, e)) = e - a + 1
    BY <2>3, StretchCounts
  <2> QED
    BY <2>2, <2>3, <2>4
<1>5. card \in Nat /\ (b >= a - 1 => card = b - a + 1) /\ (b < a => card = 0)
  <2>1. CASE b >= a - 1
    <3>1. card = b - a + 1
      BY <2>1, StretchCounts
    <3> QED
      BY <2>1, <3>1
  <2>2. CASE b < a - 1
    <3>1. S = {}
      BY <2>2 DEF Stretch
    <3> QED
      BY <2>2, <3>1, FS_EmptySet
  <2> QED
    BY <2>1, <2>2
<1> HIDE DEF card, Before
<1>6. ASSUME NEW n \in 1..card PROVE p[n] = row(a + n - 1)
  <2>0. p[n] = nth(n)
    BY <1>1
  <2>1. a + n - 1 \in a..b
    BY <1>5
  <2>2. row(a + n - 1) \in S /\ row(a + n - 1).index - a = n - 1
    BY <1>3, <2>1
  <2>3. Cardinality({y \in S : Before(y, row(a + n - 1))}) = n - 1
    BY <1>4, <2>2
  <2> HIDE DEF row, S
  <2>4. nth(n) \in S /\ Cardinality({y \in S : Before(y, nth(n))}) = n - 1
    BY <2>2, <2>3 DEF nth
  <2>5. p[n] \in S /\ p[n].index - a = n - 1
    BY <1>4, <2>0, <2>4
  <2>6. p[n].index \in Int /\ p[n] = row(p[n].index)
    BY <1>2, <2>5
  <2>7. p[n].index = a + n - 1
    BY <2>5, <2>6
  <2> QED
    BY <2>6, <2>7
<1>7. DOMAIN p = 1..card
  BY <1>1
<1>8. ASSUME NEW j \in DOMAIN p PROVE p[j] = [p[1] EXCEPT !.index = @ + j - 1]
  <2>1. j \in 1..card /\ 1 \in 1..card /\ a + 1 - 1 = a
    BY <1>5, <1>7
  <2>2. p[1] = row(a) /\ p[j] = row(a + j - 1)
    BY <1>6, <2>1
  <2> QED
    BY <2>2
<1> QED
  BY <1>8 DEF Gapless, p, S

(* What one statement reads of a file that is stored whole.                 *)
LEMMA SliceIs ==
  ASSUME NEW S, WholeCopy(S), NEW lo \in Nat, NEW hi \in Nat
  PROVE  Gapless(Passage({r \in S : lo <= r.index /\ r.index <= hi})) /\ Gapless(Passage(S))
<1>0. PICK f : \E c \in Nat, last \in Int : S = Stretch(f, c, 0, last)
  BY DEF WholeCopy
<1>1. PICK c \in Nat, last \in Int : S = Stretch(f, c, 0, last)
  BY <1>0
<1> DEFINE b == IF hi < last THEN hi ELSE last
           T == {r \in S : lo <= r.index /\ r.index <= hi}
<1>2. b \in Int
  OBVIOUS
<1>3. T = Stretch(f, c, lo, b)
  BY <1>1 DEF Stretch
<1> HIDE DEF T, b
<1>4. Gapless(Passage(T)) /\ Gapless(Passage(S))
  BY <1>1, <1>2, <1>3, PassageIs
<1> QED
  BY <1>4 DEF T

(* A passage has the rows that were read of its file, and no others.        *)
LEMMA PassageHas ==
  ASSUME NEW S \in SUBSET Rows, IsFiniteSet(S), NEW f, \A r \in S : r.source = f
  PROVE  ToSet(Passage(S)) = S
<1> DEFINE Before(r, s) == r.index < s.index \/ (r.index = s.index /\ r.copy < s.copy)
           R == {e \in S \X S : Before(e[1], e[2])}
           p == Passage(S)
           c == Cardinality(S)
           nth(n) == CHOOSE x \in S : Cardinality({y \in S : Before(y, x)}) = n - 1
<1>1. \A x, y \in S : <<x, y>> \in R <=> Before(x, y)
  OBVIOUS
<1>2. \A x \in S : x.index \in Nat /\ x.copy \in Nat /\ x = [source |-> f, index |-> x.index, copy |-> x.copy]
  BY DEF Rows
<1>3. Ordered(S, R)
  <2> HIDE DEF R
  <2>1. ASSUME NEW x \in S, NEW y \in S, x # y PROVE Before(x, y) \/ Before(y, x)
    <3>1. x.index # y.index \/ x.copy # y.copy
      BY <1>2, <2>1
    <3> QED
      BY <1>2, <3>1
  <2>2. \A x, y, z \in S : Before(x, y) /\ Before(y, z) => Before(x, z)
    BY <1>2
  <2>3. \A x \in S : ~Before(x, x)
    BY <1>2
  <2> HIDE DEF Before
  <2> QED
    BY <1>1, <2>1, <2>2, <2>3 DEF Ordered
<1>4. ASSUME NEW x \in S PROVE Rank(S, R, x) = Cardinality({y \in S : Before(y, x)})
  <2>1. {y \in S : <<y, x>> \in R} = {y \in S : Before(y, x)}
    BY <1>1
  <2> HIDE DEF R, Before
  <2> QED
    BY <2>1 DEF Rank
<1>5. p = [n \in 1..c |-> nth(n)]
  BY DEF Passage, Sorted
<1>6. c \in Nat
  BY FS_CardinalityType
<1> HIDE DEF R, p, Before
<1>7. ASSUME NEW n \in 1..c PROVE p[n] \in S /\ Rank(S, R, p[n]) = n - 1
  <2>0. n - 1 \in 0..(c - 1)
    BY <1>6
  <2>1. PICK x \in S : Rank(S, R, x) = n - 1
    BY <1>3, <2>0, RankOnto
  <2>2. Cardinality({y \in S : Before(y, x)}) = n - 1
    BY <1>4, <2>1
  <2>3. nth(n) \in S /\ Cardinality({y \in S : Before(y, nth(n))}) = n - 1
    BY <2>2
  <2>4. p[n] = nth(n)
    <3> HIDE DEF nth, c
    <3> QED
      BY <1>5
  <2> HIDE DEF nth
  <2> QED
    BY <1>4, <2>3, <2>4
<1>8. p = [n \in 1..c |-> p[n]]
  <2> HIDE DEF nth, c
  <2> QED
    BY <1>5
<1>9. ByRank(p, S, R)
  BY <1>7, <1>8 DEF ByRank
<1>10. SortedInto(p, S, R)
  BY <1>3, <1>9, SortedIs
<1> QED
  BY <1>10 DEF SortedInto, p

(* The parents of ranked questions stand once each, and are no more.        *)
LEMMA ParentsOnce ==
  ASSUME NEW ranking \in Seq(Asked)
  PROVE  /\ Parents(ranking) \in Seq(Rows) /\ Unrepeated(Parents(ranking))
         /\ Len(Parents(ranking)) <= Len(ranking)
         /\ \A j \in 1..Len(Parents(ranking)) :
              \E i \in 1..Len(ranking) : Parents(ranking)[j] = ranking[i].parent
<1> DEFINE n == Len(ranking)
           p(k) == ranking[k].parent
<1>0. n \in Nat /\ \A k \in 1..n : p(k) \in Rows
  <2>1. \A k \in 1..n : ranking[k] \in Asked
    OBVIOUS
  <2> QED
    BY <2>1 DEF Asked
<1>1. PICK r \in [0..n -> Seq(Rows)] :
        /\ r[0] = <<>> /\ Parents(ranking) = r[n]
        /\ \A k \in 1..n : r[k] = IF p(k) \in ToSet(r[k - 1]) THEN r[k - 1] ELSE Append(r[k - 1], p(k))
  BY ParentsAre
<1> HIDE DEF n, p
<1> DEFINE P(k) == /\ Unrepeated(r[k]) /\ Len(r[k]) <= k
                   /\ \A j \in 1..Len(r[k]) : \E i \in 1..n : r[k][j] = p(i)
           G == {k \in 0..n : P(k)}
<1>2. 0 \in G
  <2>1. Len(<<>>) = 0 /\ 1..0 = {} /\ 0 \in 0..n
    BY <1>0
  <2> QED
    BY <1>1, <2>1 DEF Unrepeated
<1>3. ASSUME NEW k \in 1..n, k - 1 \in G PROVE k \in G
  <2> DEFINE old == r[k - 1]
             m == Len(old)
  <2>0. k - 1 \in 0..n /\ k \in 0..n
    BY <1>0
  <2>1. P(k - 1) /\ old \in Seq(Rows)
    BY <1>1, <1>3, <2>0
  <2>2. Unrepeated(old) /\ m <= k - 1 /\ \A j \in 1..m : \E i \in 1..n : old[j] = p(i)
    BY <2>1
  <2>3. m \in Nat /\ DOMAIN old = 1..m
    BY <2>1
  <2>4. r[k] = IF p(k) \in ToSet(old) THEN old ELSE Append(old, p(k))
    BY <1>1
  <2>5. CASE p(k) \in ToSet(old)
    <3>1. m <= k
      BY <1>0, <2>2, <2>3
    <3>2. P(k)
      BY <2>2, <2>4, <2>5, <3>1
    <3> QED
      BY <2>0, <3>2
  <2>6. CASE p(k) \notin ToSet(old)
    <3> DEFINE new == Append(old, p(k))
    <3> HIDE DEF P, G, old
    <3>1. Len(new) = m + 1 /\ new[m + 1] = p(k) /\ \A j \in 1..m : new[j] = old[j]
      BY <1>0, <2>1
    <3>2. \A j \in 1..m : old[j] # p(k)
      BY <2>3, <2>6 DEF ToSet
    <3> HIDE DEF new, m
    <3>3. \A j \in 1..(m + 1) : j \in 1..m \/ j = m + 1
      BY <2>3
    <3>4. Unrepeated(new)
      <4> SUFFICES ASSUME NEW a \in 1..(m + 1), NEW b \in 1..(m + 1), new[a] = new[b] PROVE a = b
        BY <3>1 DEF Unrepeated
      <4>1. \A i, j \in 1..m : old[i] = old[j] => i = j
        BY <2>2 DEF Unrepeated, m
      <4> QED
        BY <3>1, <3>2, <3>3, <4>1
    <3>5. \A j \in 1..(m + 1) : \E i \in 1..n : new[j] = p(i)
      BY <2>2, <3>1, <3>3
    <3>6. m + 1 <= k
      BY <1>0, <2>2, <2>3
    <3>7. P(k)
      BY <2>4, <2>6, <3>1, <3>4, <3>5, <3>6 DEF P, new
    <3> QED
      BY <2>0, <3>7 DEF G
  <2> QED
    BY <2>5, <2>6
<1> HIDE DEF P, G
<1>4. n \in G
  <2>1. \A k \in 0..n : k \in G
    BY <1>0, <1>2, <1>3, Climb
  <2> QED
    BY <1>0, <2>1
<1>5. P(n) /\ r[n] \in Seq(Rows)
  BY <1>0, <1>1, <1>4 DEF G
<1> QED
  BY <1>1, <1>5 DEF P, n, p

(* A ranking is a sequence of the rows, each once, and no longer than       *)
(* asked.                                                                   *)
LEMMA RankingOf ==
  ASSUME NEW S, IsFiniteSet(S), NEW n \in Nat, NEW s \in Rankings(S, n)
  PROVE  s \in Seq(S) /\ Unrepeated(s) /\ Len(s) <= n
<1> DEFINE m == Min({n, Cardinality(S)})
<1>1. m \in Nat /\ m <= n
  <2>1. {n, Cardinality(S)} \in SUBSET Nat /\ {n, Cardinality(S)} # {}
    BY FS_CardinalityType
  <2>2. m \in {n, Cardinality(S)} /\ \A x \in {n, Cardinality(S)} : m <= x
    BY <2>1, LeastOf
  <2> QED
    BY <2>1, <2>2
<1>2. PICK k \in 0..m : s \in [1..k -> S]
  BY DEF Rankings
<1>3. IsInjective(s)
  BY DEF Rankings
<1> HIDE DEF m
<1>4. k \in Nat /\ k <= n
  BY <1>1, <1>2
<1>5. s \in Seq(S) /\ Len(s) = k /\ DOMAIN s = 1..k
  BY <1>2, <1>4
<1> QED
  BY <1>3, <1>4, <1>5 DEF Unrepeated, IsInjective

(* The store: rows and questions, finitely many; on pgvector each copy is   *)
(* stored whole, only a file stored twice has two, and no question outlives *)
(* its chunk.                                                               *)
Kept ==
  /\ IsFiniteSet(chunks) /\ chunks \in SUBSET Rows
  /\ IsFiniteSet(questions) /\ questions \in SUBSET Asked
  /\ writes \in Nat
OneCopyUnlessDoubled ==
  \A f \in Sources : f \notin doubled => \A r, s \in OfFile(f) : r.copy = s.copy
WholeOnPg ==
  backend = "pg" =>
    /\ writer.next = "none"
    /\ \A f \in Sources, c \in Nat : WholeCopy(CopyOf(f, c))
    /\ OneCopyUnlessDoubled
    /\ \A r \in chunks : r.copy <= writes
    /\ \A q \in questions : q.parent \in chunks

(* No rows at all are a copy, an empty one.                                 *)
LEMMA NoRows == WholeCopy({})
<1>1. Stretch("", 0, 0, 0 - 1) = {} /\ 0 - 1 \in Int /\ 0 \in Nat
  BY DEF Stretch
<1> QED
  BY <1>1 DEF WholeCopy

(* What a write adds is a whole copy of its file.                           *)
LEMMA NewCopyIs ==
  ASSUME writes \in Nat, NEW f \in Sources, NEW last \in Nat
  PROVE  /\ NewCopy(f, last) \in SUBSET Rows /\ IsFiniteSet(NewCopy(f, last))
         /\ WholeCopy(NewCopy(f, last))
         /\ \A r \in NewCopy(f, last) : r.source = f /\ r.copy = writes + 1
<1>1. NewCopy(f, last) = Stretch(f, writes + 1, 0, last)
  BY DEF NewCopy, Stretch
<1>2. /\ NewCopy(f, last) \in SUBSET Rows
      /\ \A r \in NewCopy(f, last) : r.source = f /\ r.copy = writes + 1
  BY DEF NewCopy, Rows
<1>3. IsFiniteSet(Stretch(f, writes + 1, 0, last))
  <2>1. writes + 1 \in Nat /\ 0 \in Nat /\ last \in Int /\ last >= 0 - 1
    OBVIOUS
  <2> QED
    BY <2>1, StretchCounts
<1>4. writes + 1 \in Nat /\ last \in Int
  OBVIOUS
<1> QED
  BY <1>1, <1>2, <1>3, <1>4 DEF WholeCopy

(* Questions about rows have these rows as parents.                         *)
LEMMA AboutIs ==
  ASSUME NEW S \in SUBSET Rows, IsFiniteSet(S)
  PROVE  LET Q == {[parent |-> r, nr |-> n] : r \in S, n \in 1..2}
         IN Q \in SUBSET Asked /\ IsFiniteSet(Q) /\ \A q \in Q : q.parent \in S
<1> DEFINE Q == {[parent |-> r, nr |-> n] : r \in S, n \in 1..2}
           F == [e \in S \X (1..2) |-> [parent |-> e[1], nr |-> e[2]]]
<1>1. Q \in SUBSET Asked /\ \A q \in Q : q.parent \in S
  BY DEF Asked
<1>2. F \in Surjection(S \X (1..2), Q)
  <2>1. F \in [S \X (1..2) -> Q]
    OBVIOUS
  <2>2. \A q \in Q : \E e \in S \X (1..2) : F[e] = q
    <3>1. ASSUME NEW r \in S, NEW n \in 1..2
          PROVE  <<r, n>> \in S \X (1..2) /\ F[<<r, n>>] = [parent |-> r, nr |-> n]
      <4>1. <<r, n>> \in S \X (1..2) /\ <<r, n>>[1] = r /\ <<r, n>>[2] = n
        OBVIOUS
      <4> QED
        BY <4>1
    <3>2. ASSUME NEW q \in Q PROVE \E e \in S \X (1..2) : F[e] = q
      <4>1. PICK r \in S, n \in 1..2 : q = [parent |-> r, nr |-> n]
        OBVIOUS
      <4> HIDE DEF F, Q
      <4>2. <<r, n>> \in S \X (1..2) /\ F[<<r, n>>] = q
        BY <3>1, <4>1
      <4> QED
        BY <4>2
    <3> HIDE DEF F, Q
    <3> QED
      BY <3>2
  <2> HIDE DEF F, Q
  <2> QED
    BY <2>1, <2>2 DEF Surjection
<1>3. IsFiniteSet(S \X (1..2))
  <2>1. 1 \in Int /\ 2 \in Int
    OBVIOUS
  <2>2. IsFiniteSet(1..2)
    BY <2>1, FS_Interval
  <2> QED
    BY <2>2, FS_Product
<1> HIDE DEF F, Q
<1>4. IsFiniteSet(Q)
  BY <1>2, <1>3, FS_Surjection
<1> QED
  BY <1>1, <1>4 DEF Q

(* The store at first.                                                      *)
LEMMA InitKept == Init => Kept /\ WholeOnPg
<1> SUFFICES ASSUME Init PROVE Kept /\ WholeOnPg
  OBVIOUS
<1>1. PICK files \in Starts, last \in [Sources -> UNION Range(LastIndices)] :
        /\ \A f \in Sources : last[f] \in LastIndices[f]
        /\ chunks = UNION {{[source |-> f, index |-> i, copy |-> 0] : i \in 0..last[f]} : f \in files}
  BY DEF Init
<1>2. /\ questions = {[parent |-> r, nr |-> n] : r \in {c \in chunks : c.index \in Fruitful}, n \in 1..2}
      /\ writes = 0 /\ writer.next = "none"
  BY DEF Init
<1>3. IsFiniteSet(files) /\ files \in SUBSET Sources /\ \A f \in Sources : last[f] \in Nat
  <2>1. files \in SUBSET Sources /\ IsFiniteSet(Sources) /\ LastIndices \in [Sources -> SUBSET Nat]
    BY RetrievalAssumption
  <2> QED
    BY <1>1, <2>1, FS_Subset
<1> DEFINE copy(f) == Stretch(f, 0, 0, last[f])
<1>4. chunks = UNION {copy(f) : f \in files}
  BY <1>1 DEF Stretch
<1>5. ASSUME NEW f \in files
      PROVE  IsFiniteSet(copy(f)) /\ copy(f) \in SUBSET Rows /\ \A r \in copy(f) : r.source = f /\ r.copy = 0
  <2> DEFINE end == last[f]
  <2>1. end \in Nat
    BY <1>3
  <2> HIDE DEF end
  <2>2. end \in Int /\ end >= 0 - 1 /\ 0 \in Nat
    BY <2>1
  <2>3. IsFiniteSet(Stretch(f, 0, 0, end))
    BY <2>2, StretchCounts
  <2>4. Stretch(f, 0, 0, end) \in SUBSET Rows /\ \A r \in Stretch(f, 0, 0, end) : r.source = f /\ r.copy = 0
    BY <1>3, <2>1 DEF Stretch, Rows
  <2> QED
    BY <2>3, <2>4 DEF end
<1> HIDE DEF copy
<1>6. IsFiniteSet(chunks)
  <2> DEFINE F == [f \in files |-> copy(f)]
             T == {copy(f) : f \in files}
  <2>1. F \in Surjection(files, T)
    BY DEF Surjection
  <2>2. \A x \in T : IsFiniteSet(x)
    BY <1>5
  <2>3. chunks = UNION T
    BY <1>4
  <2> HIDE DEF F, T
  <2> QED
    BY <1>3, <2>1, <2>2, <2>3, FS_Surjection, FS_UNION
<1>7. chunks \in SUBSET Rows
  BY <1>4, <1>5
<1> DEFINE S == {c \in chunks : c.index \in Fruitful}
<1>8. S \in SUBSET Rows /\ IsFiniteSet(S) /\ S \subseteq chunks
  BY <1>6, <1>7, FS_Subset
<1> HIDE DEF S
<1>9. questions \in SUBSET Asked /\ IsFiniteSet(questions) /\ \A q \in questions : q.parent \in chunks
  <2>1. questions = {[parent |-> r, nr |-> n] : r \in S, n \in 1..2}
    BY <1>2 DEF S
  <2>2. questions \in SUBSET Asked /\ IsFiniteSet(questions) /\ \A q \in questions : q.parent \in S
    BY <1>8, <2>1, AboutIs
  <2> QED
    BY <1>8, <2>2
<1>10. ASSUME NEW f \in Sources, NEW c \in Nat PROVE WholeCopy(CopyOf(f, c))
  <2>1. CASE f \in files /\ c = 0
    <3>1. CopyOf(f, c) = copy(f)
      BY <1>4, <1>5, <2>1 DEF OfFile, CopyOf
    <3>2. last[f] \in Int /\ 0 \in Nat
      BY <1>3
    <3> QED
      BY <3>1, <3>2 DEF WholeCopy, copy
  <2>2. CASE ~(f \in files /\ c = 0)
    <3>1. CopyOf(f, c) = {}
      BY <1>4, <1>5, <2>2 DEF OfFile, CopyOf
    <3> QED
      BY <3>1, NoRows
  <2> QED
    BY <2>1, <2>2
<1>11. \A r \in chunks : r.copy = 0
  BY <1>4, <1>5
<1>12. OneCopyUnlessDoubled /\ \A r \in chunks : r.copy <= writes
  BY <1>2, <1>11 DEF OneCopyUnlessDoubled, OfFile
<1> QED
  BY <1>2, <1>6, <1>7, <1>9, <1>10, <1>12 DEF Kept, WholeOnPg

(* A reader changes nothing that is stored.                                 *)
LEMMA ReadersLeaveTheStore ==
  ASSUME NEW t \in Ops, Read(t) PROVE UNCHANGED store
<1>1. ASSUME NEW k \in Kinds, NEW f \in Sources \cup {AllFiles}, Begin(t, k, f) PROVE UNCHANGED store
  BY <1>1 DEF Begin
<1>2. ASSUME NEW i \in 1..Limit, Fetch(t, i) PROVE UNCHANGED store
  BY <1>2 DEF Fetch
<1>3. CASE CollectionExists(t)
  BY <1>3 DEF CollectionExists
<1>4. CASE AskHybrid(t)
  BY <1>4 DEF AskHybrid
<1>5. CASE AskQuestions(t)
  BY <1>5 DEF AskQuestions
<1>6. CASE Fuse(t)
  BY <1>6 DEF Fuse
<1>7. CASE ReadFile(t)
  BY <1>7 DEF ReadFile
<1>8. CASE Open(t)
  BY <1>8 DEF Open
<1>9. CASE CountMatching(t)
  BY <1>9 DEF CountMatching
<1>10. CASE Nearest(t)
  BY <1>10 DEF Nearest
<1>11. CASE CountQuestions(t)
  BY <1>11 DEF CountQuestions
<1>12. CASE NearestQuestions(t)
  BY <1>12 DEF NearestQuestions
<1>13. CASE CallFails(t)
  BY <1>13 DEF CallFails
<1> QED
  BY <1>1, <1>2, <1>3, <1>4, <1>5, <1>6, <1>7, <1>8, <1>9, <1>10, <1>11, <1>12, <1>13 DEF Read

(* A copy that goes, or stays as it is, is whole afterwards.                *)
LEMMA CopyStays ==
  ASSUME WholeOnPg, backend = "pg", NEW g \in Sources, NEW c \in Nat,
         CopyOf(g, c)' = {} \/ CopyOf(g, c)' = CopyOf(g, c)
  PROVE  WholeCopy(CopyOf(g, c))'
<1>1. WholeCopy(CopyOf(g, c))
  BY DEF WholeOnPg
<1>2. CASE CopyOf(g, c)' = {}
  <2>1. WholeCopy({})
    BY NoRows
  <2> QED
    BY <1>2, <2>1 DEF WholeCopy, Stretch
<1>3. CASE CopyOf(g, c)' = CopyOf(g, c)
  BY <1>1, <1>3 DEF WholeCopy, Stretch
<1> QED
  BY <1>2, <1>3

(* The chunks stay, and the questions are about chunks that are there.      *)
LEMMA ChunksStay ==
  ASSUME WholeOnPg, backend' = backend, chunks' = chunks, writes' = writes, writer' = writer,
         doubled' = doubled, backend = "pg" => \A q \in questions' : q.parent \in chunks'
  PROVE  WholeOnPg'
<1> SUFFICES ASSUME backend = "pg" PROVE WholeOnPg'
  BY DEF WholeOnPg
<1>1. ASSUME NEW g \in Sources, NEW c \in Nat PROVE WholeCopy(CopyOf(g, c))'
  <2>1. CopyOf(g, c)' = CopyOf(g, c)
    BY DEF CopyOf, OfFile
  <2> QED
    BY <2>1, CopyStays
<1>2. OneCopyUnlessDoubled'
  BY DEF WholeOnPg, OneCopyUnlessDoubled, OfFile
<1>3. /\ writer'.next = "none" /\ \A r \in chunks' : r.copy <= writes'
      /\ \A q \in questions' : q.parent \in chunks'
  BY DEF WholeOnPg
<1> QED
  BY <1>1, <1>2, <1>3 DEF WholeOnPg

(* What a DELETE that saw the copies up to one leaves of the rows.          *)
LEMMA SeenIs ==
  ASSUME NEW files \in SUBSET Sources, NEW seen
  PROVE  chunks \ UNION {SeenOf(f, seen) : f \in files}
           = {r \in chunks : ~(r.source \in files /\ r.copy <= seen)}
BY DEF SeenOf, OfFile

(* A writer keeps the copies whole on pgvector, and its readers where they  *)
(* are.                                                                     *)
LEMMA WriteKeeps ==
  ASSUME Kept, WholeOnPg, Write PROVE Kept' /\ WholeOnPg' /\ Unread /\ doubled \subseteq doubled'
<1>0. /\ IsFiniteSet(chunks) /\ chunks \in SUBSET Rows
      /\ IsFiniteSet(questions) /\ questions \in SUBSET Asked /\ writes \in Nat
  BY DEF Kept
<1>1. \A f \in Sources : LastIndices[f] \subseteq Nat
  BY RetrievalAssumption
<1>2. ASSUME NEW Q \in SUBSET questions PROVE IsFiniteSet(Q) /\ Q \in SUBSET Asked
  BY <1>0, FS_Subset
<1>3. ASSUME NEW C \in SUBSET chunks PROVE IsFiniteSet(C) /\ C \in SUBSET Rows
  BY <1>0, FS_Subset
<1> DEFINE Done == Kept' /\ WholeOnPg' /\ Unread /\ doubled \subseteq doubled'
<1>a. ASSUME chunks' = chunks, questions' \in SUBSET questions, writes' = writes, writer' = writer,
             backend' = backend, doubled' = doubled, Unread
      PROVE  Done
  <2>1. Kept'
    BY <1>a, <1>0, <1>2 DEF Kept
  <2>2. backend = "pg" => \A q \in questions' : q.parent \in chunks'
    BY <1>a DEF WholeOnPg
  <2>3. WholeOnPg'
    BY <1>a, <2>2, ChunksStay
  <2> QED
    BY <1>a, <2>1, <2>3
<1>b. ASSUME backend = "chroma", backend' = backend, Kept', Unread, doubled' = doubled PROVE Done
  BY <1>b DEF WholeOnPg
<1>4. ASSUME NEW f \in Sources, NEW last \in LastIndices[f], NEW seen \in 0..writes, Replace(f, last, seen)
      PROVE  Done
  <2> DEFINE N == NewCopy(f, last)
             old == {r \in chunks : ~(r.source \in {f} /\ r.copy <= seen)}
  <2>1. /\ backend = "pg" /\ chunks' = (chunks \ SeenOf(f, seen)) \cup N
        /\ questions' = {q \in questions : q.parent \notin SeenOf(f, seen)}
        /\ doubled' = IF SeenOf(f, seen) = OfFile(f) THEN doubled ELSE doubled \cup {f}
        /\ writes' = writes + 1 /\ writer' = writer /\ backend' = backend /\ Unread
    BY <1>4 DEF Replace, Unread
  <2>2. last \in Nat /\ seen \in Nat /\ {f} \in SUBSET Sources
    BY <1>0, <1>1
  <2>3. /\ N \in SUBSET Rows /\ IsFiniteSet(N) /\ WholeCopy(N)
        /\ \A r \in N : r.source = f /\ r.copy = writes + 1
    BY <1>0, <2>2, NewCopyIs
  <2>4. chunks' = old \cup N
    BY <2>1 DEF SeenOf, OfFile
  <2>5. old \in SUBSET chunks /\ IsFiniteSet(old)
    BY <1>3
  <2>5a. \A g, c : LET Rest == {r \in old : r.source = g /\ r.copy = c} IN Rest = {} \/ Rest = CopyOf(g, c)
    <3> SUFFICES ASSUME NEW g, NEW c
                 PROVE  LET Rest == {r \in old : r.source = g /\ r.copy = c} IN Rest = {} \/ Rest = CopyOf(g, c)
      OBVIOUS
    <3>1. CASE g = f /\ c <= seen
      BY <3>1
    <3>2. CASE ~(g = f /\ c <= seen)
      BY <3>2 DEF CopyOf, OfFile
    <3> QED
      BY <3>1, <3>2
  <2>6. \A r \in old : r.copy <= writes /\ r.copy \in Nat
    BY <1>0, <2>1, <2>5 DEF WholeOnPg, Rows
  <2> HIDE DEF N, old
  <2>7. IsFiniteSet(chunks') /\ chunks' \in SUBSET Rows
    BY <1>3, <2>3, <2>4, <2>5, FS_Union
  <2>8. questions' \in SUBSET questions
    BY <2>1
  <2>9. Kept'
    BY <1>0, <1>2, <2>1, <2>7, <2>8 DEF Kept
  <2>10. ASSUME NEW g \in Sources, NEW c \in Nat PROVE WholeCopy(CopyOf(g, c))'
    <3>1. CopyOf(g, c)' = {r \in old : r.source = g /\ r.copy = c} \cup {r \in N : g = f /\ c = writes + 1}
      BY <2>3, <2>4 DEF CopyOf, OfFile
    <3>2. CASE g = f /\ c = writes + 1
      <4>1. {r \in old : r.source = g /\ r.copy = c} = {}
        BY <1>0, <2>6, <3>2
      <4>2. CopyOf(g, c)' = N
        BY <3>1, <3>2, <4>1
      <4> QED
        BY <2>3, <4>2 DEF WholeCopy, Stretch
    <3>3. CASE ~(g = f /\ c = writes + 1)
      <4>1. CopyOf(g, c)' = {r \in old : r.source = g /\ r.copy = c}
        BY <3>1, <3>3
      <4>2. CopyOf(g, c)' = {} \/ CopyOf(g, c)' = CopyOf(g, c)
        BY <2>5a, <4>1
      <4> QED
        BY <2>1, <4>2, CopyStays
    <3> QED
      BY <3>2, <3>3
  <2>11. OneCopyUnlessDoubled'
    <3> SUFFICES ASSUME NEW g \in Sources, g \notin doubled', NEW r \in OfFile(g)', NEW x \in OfFile(g)'
                 PROVE  r.copy = x.copy
      BY DEF OneCopyUnlessDoubled
    <3>1. g \notin doubled
      BY <2>1
    <3>2. CASE g = f
      <4>1. SeenOf(f, seen) = OfFile(f)
        BY <2>1, <3>2
      <4>2. OfFile(f)' \subseteq N
        BY <2>1, <4>1 DEF OfFile, N
      <4> QED
        BY <2>3, <3>2, <4>2
    <3>3. CASE g # f
      <4>1. r \in OfFile(g) /\ x \in OfFile(g)
        BY <2>3, <2>4, <2>5, <3>3 DEF OfFile
      <4> QED
        BY <2>1, <3>1, <4>1 DEF WholeOnPg, OneCopyUnlessDoubled
    <3> QED
      BY <3>2, <3>3
  <2>12. \A r \in chunks' : r.copy <= writes'
    BY <1>0, <2>1, <2>3, <2>4, <2>6
  <2>13. \A q \in questions' : q.parent \in chunks'
    BY <2>1 DEF WholeOnPg
  <2> QED
    BY <2>1, <2>9, <2>10, <2>11, <2>12, <2>13 DEF WholeOnPg
<1>5. ASSUME NEW files \in {{f} : f \in Sources} \cup {Sources}, NEW seen \in 0..writes, Erase(files, seen)
      PROVE  Done
  <2> DEFINE gone == UNION {SeenOf(f, seen) : f \in files}
  <2>1. /\ backend = "pg" /\ chunks' = chunks \ gone /\ questions' = {q \in questions : q.parent \notin gone}
        /\ writes' = writes + 1 /\ writer' = writer /\ backend' = backend /\ doubled' = doubled /\ Unread
    BY <1>5 DEF Erase, Unread
  <2>2. seen \in Nat /\ files \in SUBSET Sources
    BY <1>0
  <2>3. chunks' = {r \in chunks : ~(r.source \in files /\ r.copy <= seen)}
    BY <2>1, <2>2, SeenIs
  <2>4. chunks' \in SUBSET chunks /\ IsFiniteSet(chunks')
    BY <1>3, <2>1
  <2>5. Kept'
    BY <1>0, <1>2, <1>3, <2>1, <2>4 DEF Kept
  <2>6. ASSUME NEW g \in Sources, NEW c \in Nat PROVE WholeCopy(CopyOf(g, c))'
    <3>1. CopyOf(g, c)' = {r \in chunks' : r.source = g /\ r.copy = c}
      BY DEF CopyOf, OfFile
    <3>2. CopyOf(g, c)' = {} \/ CopyOf(g, c)' = CopyOf(g, c)
      <4>1. CASE g \in files /\ c <= seen
        BY <2>3, <3>1, <4>1
      <4>2. CASE ~(g \in files /\ c <= seen)
        BY <2>3, <3>1, <4>2 DEF CopyOf, OfFile
      <4> QED
        BY <4>1, <4>2
    <3> QED
      BY <2>1, <3>2, CopyStays
  <2>7. OneCopyUnlessDoubled'
    BY <2>1, <2>4 DEF WholeOnPg, OneCopyUnlessDoubled, OfFile
  <2>8. \A r \in chunks' : r.copy <= writes'
    <3>1. \A r \in chunks' : r.copy \in Nat /\ r.copy <= writes
      BY <1>0, <2>1, <2>4 DEF WholeOnPg, Rows
    <3> QED
      BY <1>0, <2>1, <3>1
  <2>9. \A q \in questions' : q.parent \in chunks'
    BY <2>1 DEF WholeOnPg
  <2> QED
    BY <2>1, <2>5, <2>6, <2>7, <2>8, <2>9 DEF WholeOnPg
<1>6. ASSUME NEW f \in Sources, NEW c \in 0..writes, StoreQuestions(f, c) PROVE Done
  <2> DEFINE S == {x \in OfFile(f) : x.copy = c /\ x.index \in Fruitful}
             Q == {[parent |-> r, nr |-> n] : r \in S, n \in 1..2}
  <2>1. /\ questions' = questions \cup Q /\ chunks' = chunks /\ writes' = writes
        /\ writer' = writer /\ backend' = backend /\ doubled' = doubled /\ Unread
    BY <1>6 DEF StoreQuestions, Unread
  <2>2. S \in SUBSET chunks
    BY DEF OfFile
  <2> HIDE DEF S
  <2>3. IsFiniteSet(S) /\ S \in SUBSET Rows
    BY <1>3, <2>2
  <2>4. Q \in SUBSET Asked /\ IsFiniteSet(Q) /\ \A q \in Q : q.parent \in S
    BY <2>3, AboutIs
  <2> HIDE DEF Q
  <2>5. IsFiniteSet(questions') /\ questions' \in SUBSET Asked
    BY <1>0, <2>1, <2>4, FS_Union
  <2>6. Kept'
    BY <1>0, <2>1, <2>5 DEF Kept
  <2>8. backend = "pg" => \A q \in questions' : q.parent \in chunks'
    BY <2>1, <2>2, <2>4 DEF WholeOnPg
  <2>9. WholeOnPg'
    BY <2>1, <2>8, ChunksStay
  <2> QED
    BY <2>1, <2>6, <2>9
<1>7. ASSUME NEW f \in Sources, DeleteQuestions(f) PROVE Done
  BY <1>7, <1>a DEF DeleteQuestions, Unasked, Unread
<1>8. ASSUME NEW f \in Sources, NEW last \in LastIndices[f], AddCopy(f, last) PROVE Done
  <2> DEFINE N == NewCopy(f, last)
  <2>1. /\ backend = "chroma" /\ chunks' = chunks \cup N /\ questions' = questions /\ doubled' = doubled
        /\ writes' = writes + 1 /\ backend' = backend /\ Unread
    BY <1>8 DEF AddCopy, Unread
  <2>2. last \in Nat
    BY <1>1
  <2>3. N \in SUBSET Rows /\ IsFiniteSet(N)
    BY <1>0, <2>2, NewCopyIs
  <2> HIDE DEF N
  <2>4. IsFiniteSet(chunks') /\ chunks' \in SUBSET Rows
    BY <1>0, <2>1, <2>3, FS_Union
  <2>5. Kept'
    BY <1>0, <2>1, <2>4 DEF Kept
  <2> QED
    BY <1>b, <2>1, <2>5
<1>9. ASSUME backend = "chroma" \/ writer.next # "none", chunks' \in SUBSET chunks,
             questions' \in SUBSET questions, writes' \in Nat, backend' = backend,
             doubled' = doubled, Unread
      PROVE  Done
  <2>1. Kept'
    BY <1>2, <1>3, <1>9 DEF Kept
  <2> QED
    BY <1>9, <2>1 DEF WholeOnPg
<1>10. ASSUME NEW f \in Sources, DeleteChunks(f) PROVE Done
  BY <1>0, <1>9, <1>10 DEF DeleteChunks, Unread
<1>11. CASE DeleteOld
  BY <1>0, <1>9, <1>11 DEF DeleteOld, Unread
<1>12. CASE Purge
  BY <1>0, <1>9, <1>12 DEF Purge, Unasked, Unread
<1>13. CASE Drop
  <2>1. writes' \in Nat
    BY <1>0, <1>13 DEF Drop
  <2> QED
    BY <1>9, <1>13, <2>1 DEF Drop, Unread
<1>14. CASE DropQuestions
  BY <1>0, <1>9, <1>14 DEF DropQuestions, Unasked, Unread
<1>15. Done
  <2>1. ASSUME NEW f \in Sources,
               \/ \E last \in LastIndices[f] : \/ \E seen \in 0..writes : Replace(f, last, seen)
                                               \/ AddCopy(f, last)
               \/ \E c \in 0..writes : StoreQuestions(f, c)
               \/ DeleteQuestions(f) \/ DeleteChunks(f)
        PROVE  Done
    BY <1>4, <1>6, <1>7, <1>8, <1>10, <2>1
  <2>2. ASSUME NEW files \in {{f} : f \in Sources} \cup {Sources}, NEW seen \in 0..writes, Erase(files, seen)
        PROVE  Done
    BY <1>5, <2>2
  <2>3. CASE \E f \in Sources :
               \/ \E last \in LastIndices[f] : \/ \E seen \in 0..writes : Replace(f, last, seen)
                                               \/ AddCopy(f, last)
               \/ \E c \in 0..writes : StoreQuestions(f, c)
               \/ DeleteQuestions(f) \/ DeleteChunks(f)
    BY <2>1, <2>3
  <2>4. CASE \E files \in {{f} : f \in Sources} \cup {Sources}, seen \in 0..writes : Erase(files, seen)
    BY <2>2, <2>4
  <2> QED
    BY Zenon, <1>11, <1>12, <1>13, <1>14, <2>3, <2>4 DEF Write
<1> QED
  BY <1>15 DEF Done

(* On pgvector no two chunks have the same file and index, but in a file    *)
(* that is stored twice.                                                    *)
LEMMA KeysApart ==
  ASSUME Kept, WholeOnPg, backend = "pg", NEW r \in chunks, NEW s \in chunks, KeyOf(r) = KeyOf(s),
         r.source \notin doubled
  PROVE  r = s
<1>1. r \in Rows /\ s \in Rows
  BY DEF Kept
<1>2. r.source \in Sources /\ s.source = r.source /\ s.index = r.index
  BY <1>1 DEF Rows, KeyOf
<1>3. r \in OfFile(r.source) /\ s \in OfFile(r.source)
  BY <1>2 DEF OfFile
<1>4. r.copy = s.copy
  BY <1>2, <1>3 DEF WholeOnPg, OneCopyUnlessDoubled
<1> QED
  BY <1>1, <1>2, <1>4 DEF Rows

(* The readers, by reader: what is in place, and how far it goes.           *)
Stored == Kept /\ WholeOnPg
Typed ==
  /\ DOMAIN pc = Ops /\ kind \in [Ops -> Kinds] /\ filter \in [Ops -> Sources \cup {AllFiles}]
  /\ total \in [Ops -> Nat]
  /\ lists \in [Ops -> [1..2 -> Seq(Keys) \cup {NoList}]]
  /\ DOMAIN hits = Ops /\ DOMAIN windows = Ops /\ DOMAIN texts = Ops
ListOnce(x) == x # NoList => Searched(x)
SearchesOnce == backend = "pg" => \A t \in Ops, i \in 1..2 : ListOnce(lists[t][i])
FusedAt(t) ==
  /\ NoList \notin ToSet(lists[t]) /\ hits[t] = RrfFuse(lists[t], Limit) /\ windows[t] = Windows(hits[t])
Answer(t) ==
  /\ pc[t] \in {"fetch", "done"} /\ kind[t] = "query" => FusedAt(t)
  /\ pc[t] = "fetch" => kind[t] = "query" /\ DOMAIN texts[t] = DOMAIN windows[t]
  /\ pc[t] = "read" => kind[t] = "document"
  /\ kind[t] = "document" => filter[t] # AllFiles
  /\ pc[t] = "exists" => kind[t] = "search"
  /\ pc[t] = "idle" => texts[t] = <<>>
Answers == \A t \in Ops : Answer(t)
Filled(p, lo) == \A r \in ToSet(p) : \A before \in lo..r.index : [r EXCEPT !.index = before] \in ToSet(p)
PassageOk(p, lo) ==
  p \notin {NoList, <<>>} => Filled(p, lo) /\ (p[1].source \notin doubled => Gapless(p))
TextOk(t) == \A i \in DOMAIN texts[t] : PassageOk(texts[t][i], Begins(t, i))
Whole == backend = "pg" => \A t \in Ops : TextOk(t)
ReadInv == Stored /\ Typed /\ SearchesOnce /\ Answers /\ Whole

(* What has been read stays as good as it was: a file stored twice is never *)
(* taken for one that was not.                                              *)
LEMMA SameText ==
  ASSUME NEW u \in Ops, TextOk(u), texts'[u] = texts[u], windows'[u] = windows[u], kind'[u] = kind[u],
         doubled \subseteq doubled'
  PROVE  TextOk(u)'
<1> SUFFICES ASSUME NEW i \in DOMAIN texts'[u] PROVE PassageOk(texts[u][i], Begins(u, i))'
  BY DEF TextOk
<1>1. PassageOk(texts[u][i], Begins(u, i)) /\ Begins(u, i)' = Begins(u, i) /\ (texts[u][i])' = texts[u][i]
  BY DEF TextOk, Begins
<1> QED
  BY <1>1 DEF PassageOk, Filled, Gapless

LEMMA SameSearches ==
  ASSUME SearchesOnce, backend' = backend, lists' = lists, doubled \subseteq doubled'
  PROVE  SearchesOnce'
BY DEF SearchesOnce, ListOnce, Searched, Once

(* On pgvector the rows before one of the same copy are there as well.      *)
LEMMA RowsBefore ==
  ASSUME Stored, backend = "pg", NEW f \in Sources, NEW r \in OfFile(f), NEW before \in 0..r.index
  PROVE  [r EXCEPT !.index = before] \in OfFile(f)
<1>1. r \in Rows /\ r.copy \in Nat /\ r \in CopyOf(f, r.copy)
  BY DEF Stored, Kept, OfFile, CopyOf, Rows
<1>2. PICK g : \E c \in Nat, last \in Int : CopyOf(f, r.copy) = Stretch(g, c, 0, last)
  BY <1>1 DEF Stored, WholeOnPg, WholeCopy
<1>3. PICK c \in Nat, last \in Int : CopyOf(f, r.copy) = Stretch(g, c, 0, last)
  BY <1>2
<1>4. r = [source |-> g, index |-> r.index, copy |-> c] /\ r.index \in 0..last
  BY <1>1, <1>3 DEF Stretch
<1>5. [r EXCEPT !.index = before] = [source |-> g, index |-> before, copy |-> c] /\ before \in 0..last
  BY <1>4
<1>6. [r EXCEPT !.index = before] \in CopyOf(f, r.copy)
  BY <1>3, <1>5 DEF Stretch
<1> QED
  BY <1>6 DEF CopyOf

(* What one statement reads of a file: no part of a copy without what comes *)
(* before it, and one copy only, unless the file is stored twice.           *)
LEMMA SliceOk ==
  ASSUME Stored, backend = "pg", NEW f \in Sources, NEW lo \in Nat, NEW S,
         \/ S = OfFile(f) /\ lo = 0
         \/ \E hi \in Nat : S = {r \in OfFile(f) : lo <= r.index /\ r.index <= hi}
  PROVE  PassageOk(Passage(S), lo)
<1>1. /\ S \in SUBSET Rows /\ IsFiniteSet(S) /\ \A r \in S : r.source = f
  <2>1. S \in SUBSET chunks /\ \A r \in S : r.source = f
    BY DEF OfFile
  <2> QED
    BY <2>1, FS_Subset DEF Stored, Kept
<1>2. ToSet(Passage(S)) = S
  BY <1>1, PassageHas
<1>3. Filled(Passage(S), lo)
  <2> SUFFICES ASSUME NEW r \in S, NEW before \in lo..r.index PROVE [r EXCEPT !.index = before] \in S
    BY <1>2 DEF Filled
  <2>1. r \in OfFile(f) /\ r.index \in Nat
    BY <1>1 DEF Rows
  <2>2. before \in 0..r.index /\ lo <= before /\ before <= r.index
    BY <2>1
  <2>3. [r EXCEPT !.index = before] \in OfFile(f)
    BY <2>1, <2>2, RowsBefore
  <2>4. CASE S = OfFile(f)
    BY <2>3, <2>4
  <2>5. ASSUME NEW hi \in Nat, S = {x \in OfFile(f) : lo <= x.index /\ x.index <= hi}
        PROVE  [r EXCEPT !.index = before] \in S
    <3>1. r.index <= hi /\ [r EXCEPT !.index = before].index = before
      BY <1>1, <2>5 DEF Rows
    <3>2. before <= hi
      BY <2>1, <2>2, <2>5, <3>1
    <3> QED
      BY <2>2, <2>3, <2>5, <3>1, <3>2
  <2> QED
    BY <2>4, <2>5
<1>4. ASSUME f \notin doubled PROVE Gapless(Passage(S))
  <2>1. WholeCopy(OfFile(f))
    <3>1. CASE OfFile(f) = {}
      BY <3>1, NoRows
    <3>2. CASE OfFile(f) # {}
      <4>1. PICK r \in OfFile(f) : TRUE
        BY <3>2
      <4>2. r.copy \in Nat
        BY DEF Stored, Kept, OfFile, Rows
      <4>3. \A x \in OfFile(f) : x.copy = r.copy
        BY <1>4 DEF Stored, WholeOnPg, OneCopyUnlessDoubled
      <4>4. CopyOf(f, r.copy) = OfFile(f)
        BY <4>3 DEF CopyOf
      <4> QED
        BY <4>2, <4>4 DEF Stored, WholeOnPg
    <3> QED
      BY <3>1, <3>2
  <2> QED
    BY <2>1, SliceIs
<1>5. ASSUME Passage(S) # <<>>, Passage(S) # NoList PROVE Passage(S)[1].source = f \/ Gapless(Passage(S))
  <2>1. CASE 1 \in DOMAIN Passage(S)
    BY <1>1, <1>2, <2>1 DEF ToSet
  <2>2. CASE 1 \notin DOMAIN Passage(S)
    <3>1. DOMAIN Passage(S) = 1..Cardinality(S) /\ Cardinality(S) \in Nat
      BY <1>1, FS_CardinalityType DEF Passage, Sorted
    <3>2. DOMAIN Passage(S) = {}
      BY <2>2, <3>1
    <3> QED
      BY <3>2 DEF Gapless
  <2> QED
    BY <2>1, <2>2
<1> QED
  BY <1>3, <1>4, <1>5 DEF PassageOk

(* A reader nothing happens to.                                             *)
LEMMA SameAnswer ==
  ASSUME NEW u \in Ops, Answer(u), pc'[u] = pc[u], kind'[u] = kind[u], filter'[u] = filter[u],
         lists'[u] = lists[u], hits'[u] = hits[u], windows'[u] = windows[u], texts'[u] = texts[u]
  PROVE  Answer(u)'
BY DEF Answer, FusedAt

(* The limits are numbers.                                                  *)
LEMMA NatChoice == {Pool, Limit} \subseteq Nat /\ Limit <= Pool
BY RetrievalAssumption

(* The keys of chunks that stand once each, stand once each on pgvector, if *)
(* their file is not stored twice.                                          *)
LEMMA KeysOnce ==
  ASSUME Stored, NEW s \in Seq(chunks), Unrepeated(s), Len(s) <= Pool
  PROVE  ToKeys(s) \in Seq(Keys) /\ (backend = "pg" => Searched(ToKeys(s)))
<1>1. chunks \in SUBSET Rows /\ s \in Seq(Rows)
  BY DEF Stored, Kept
<1>2. ToKeys(s) \in Seq(Keys) /\ Len(ToKeys(s)) = Len(s) /\ \A i \in 1..Len(s) : ToKeys(s)[i] = KeyOf(s[i])
  BY <1>1, ToKeysTyped
<1>3. \A i \in 1..Len(s) : s[i] \in chunks
  OBVIOUS
<1>4. ASSUME backend = "pg", NEW m \in 1..Len(s), NEW n \in 1..Len(s), KeyOf(s[m]) = KeyOf(s[n]),
             s[m].source \notin doubled
      PROVE  m = n
  <2>1. s[m] = s[n]
    BY <1>3, <1>4, KeysApart DEF Stored
  <2> QED
    BY <2>1 DEF Unrepeated
<1>5. ASSUME backend = "pg", NEW key \in Keys, key.source \notin doubled PROVE Once(ToKeys(s), key)
  <2> SUFFICES ASSUME NEW m \in 1..Len(s), NEW n \in 1..Len(s), ToKeys(s)[m] = key, ToKeys(s)[n] = key
               PROVE  m = n
    BY <1>2 DEF Once
  <2>1. KeyOf(s[m]) = key /\ KeyOf(s[n]) = key /\ KeyOf(s[m]).source = s[m].source
    BY <1>2 DEF KeyOf
  <2> QED
    BY <1>4, <1>5, <2>1
<1> QED
  BY <1>2, <1>5 DEF Searched

(* The answer of a chunk search.                                            *)
LEMMA ChunksFound ==
  ASSUME Stored, NEW t \in Ops, NEW n \in Nat, n <= Pool, NEW s \in Rankings(Matching(t), n)
  PROVE  ToKeys(s) \in Seq(Keys) /\ (backend = "pg" => Searched(ToKeys(s)))
<1>1. Matching(t) \in SUBSET chunks
  BY DEF Matching
<1>2. IsFiniteSet(Matching(t))
  BY <1>1, FS_Subset DEF Stored, Kept
<1>3. s \in Seq(Matching(t)) /\ Unrepeated(s) /\ Len(s) <= n
  BY <1>2, RankingOf
<1>4. Len(s) \in Nat /\ Pool \in Nat /\ s \in Seq(chunks)
  BY <1>1, <1>3, NatChoice
<1>5. Len(s) <= Pool
  BY <1>3, <1>4
<1> QED
  BY <1>3, <1>4, <1>5, KeysOnce

(* The answer of a question search.                                         *)
LEMMA QuestionsFound ==
  ASSUME Stored, NEW t \in Ops, NEW n \in Nat, n <= Pool, NEW s \in Rankings(QMatching(t), n)
  PROVE  ToKeys(Parents(s)) \in Seq(Keys) /\ (backend = "pg" => Searched(ToKeys(Parents(s))))
<1> DEFINE p == Parents(s)
<1>1. QMatching(t) \in SUBSET questions
  BY DEF QMatching
<1>2. IsFiniteSet(QMatching(t)) /\ questions \in SUBSET Asked
  BY <1>1, FS_Subset DEF Stored, Kept
<1>3. s \in Seq(QMatching(t)) /\ Len(s) <= n
  BY <1>2, RankingOf
<1>4. s \in Seq(Asked) /\ Len(s) \in Nat /\ Pool \in Nat /\ \A i \in 1..Len(s) : s[i] \in questions
  BY <1>1, <1>2, <1>3, NatChoice
<1>5. /\ p \in Seq(Rows) /\ Unrepeated(p) /\ Len(p) <= Len(s)
      /\ \A j \in 1..Len(p) : \E i \in 1..Len(s) : p[j] = s[i].parent
  BY <1>4, ParentsOnce
<1> HIDE DEF p
<1>6. Len(p) \in Nat
  BY <1>5
<1>7. Len(p) <= Pool
  BY <1>3, <1>4, <1>5, <1>6
<1>8. ToKeys(p) \in Seq(Keys)
  BY <1>5, ToKeysTyped
<1>9. ASSUME backend = "pg" PROVE Searched(ToKeys(p))
  <2>1. \A j \in 1..Len(p) : p[j] \in chunks
    BY <1>4, <1>5, <1>9 DEF Stored, WholeOnPg
  <2>2. p \in Seq(chunks)
    BY <1>5, <1>6, <2>1
  <2> QED
    BY <1>5, <1>7, <1>9, <2>2, KeysOnce
<1> QED
  BY <1>8, <1>9 DEF p

(* An answer that arrives is one more.                                      *)
LEMMA ListAdded ==
  ASSUME Typed, SearchesOnce, backend' = backend, doubled' = doubled, NEW t \in Ops, NEW i \in 1..2,
         NEW list \in Seq(Keys), backend = "pg" => Searched(list), Found(t, i, list)
  PROVE  /\ lists' \in [Ops -> [1..2 -> Seq(Keys) \cup {NoList}]] /\ SearchesOnce'
         /\ \A u \in Ops \ {t} : lists'[u] = lists[u]
<1>1. lists' = [lists EXCEPT ![t][i] = list] /\ lists \in [Ops -> [1..2 -> Seq(Keys) \cup {NoList}]]
  BY DEF Found, Typed
<1>2. ASSUME NEW u \in Ops, NEW j \in 1..2
      PROVE  lists'[u][j] = IF u = t /\ j = i THEN list ELSE lists[u][j]
  BY <1>1
<1>3. ASSUME backend = "pg", NEW u \in Ops, NEW j \in 1..2 PROVE ListOnce(lists'[u][j])
  BY <1>2, <1>3 DEF SearchesOnce, ListOnce
<1> QED
  BY <1>1, <1>3 DEF SearchesOnce, ListOnce, Searched, Once

(* What a step of a reader has to keep; the store is not its to change.     *)
ReadersStay == Typed' /\ SearchesOnce' /\ Answers' /\ Whole'

(* A step of reader t that only moves it on.                                *)
LEMMA MovesOn ==
  ASSUME ReadInv, backend' = backend, doubled' = doubled, NEW t \in Ops, NEW stage, Goto(t, stage), Answer(t)',
         kind'[t] = kind[t] \/ texts[t] = <<>>,
         \A u \in Ops \ {t} : kind'[u] = kind[u] /\ filter'[u] = filter[u],
         kind' \in [Ops -> Kinds], filter' \in [Ops -> Sources \cup {AllFiles}],
         total' \in [Ops -> Nat], UNCHANGED <<lists, hits, windows, texts>>
  PROVE  ReadersStay
<1>1. DOMAIN pc' = Ops /\ \A u \in Ops \ {t} : pc'[u] = pc[u]
  BY DEF Goto, ReadInv, Typed
<1>2. Typed'
  BY <1>1 DEF ReadInv, Typed
<1>3. SearchesOnce'
  BY SameSearches DEF ReadInv
<1>4. ASSUME NEW u \in Ops PROVE Answer(u)'
  <2>1. CASE u = t
    BY <2>1
  <2>2. CASE u # t
    BY <1>1, <2>2, SameAnswer DEF ReadInv, Answers
  <2> QED
    BY <2>1, <2>2
<1>5. Whole'
  <2>1. ASSUME backend = "pg", NEW u \in Ops PROVE TextOk(u)'
    <3>1. TextOk(u)
      BY <2>1 DEF ReadInv, Whole
    <3>2. CASE u = t /\ texts[t] = <<>>
      BY <3>2 DEF TextOk
    <3>3. CASE u # t \/ kind'[t] = kind[t]
      BY <3>1, <3>3, SameText
    <3> QED
      BY <3>2, <3>3
  <2> QED
    BY <2>1 DEF Whole
<1> QED
  BY <1>2, <1>3, <1>4, <1>5 DEF ReadersStay, Answers

(* A step of reader t that brings an answer.                                *)
LEMMA AnswerArrives ==
  ASSUME ReadInv, backend' = backend, doubled' = doubled, NEW t \in Ops, NEW i \in 1..2,
         NEW list \in Seq(Keys), backend = "pg" => Searched(list), Found(t, i, list),
         DOMAIN pc' = Ops, \A u \in Ops \ {t} : pc'[u] = pc[u], Answer(t)',
         UNCHANGED <<reading, total, hits, windows, texts>>
  PROVE  ReadersStay
<1>0. kind' = kind /\ filter' = filter
  BY DEF reading
<1>1. /\ lists' \in [Ops -> [1..2 -> Seq(Keys) \cup {NoList}]] /\ SearchesOnce'
      /\ \A u \in Ops \ {t} : lists'[u] = lists[u]
  BY ListAdded DEF ReadInv
<1>2. Typed'
  BY <1>0, <1>1 DEF ReadInv, Typed
<1>4. ASSUME NEW u \in Ops PROVE Answer(u)'
  <2>1. CASE u = t
    BY <2>1
  <2>2. CASE u # t
    BY <1>0, <1>1, <2>2, SameAnswer DEF ReadInv, Answers
  <2> QED
    BY <2>1, <2>2
<1>5. Whole'
  BY <1>0, SameText DEF ReadInv, Whole
<1> QED
  BY <1>1, <1>2, <1>4, <1>5 DEF ReadersStay, Answers

(* A request that comes in keeps it.                                        *)
LEMMA BeginStep ==
  ASSUME ReadInv, NEW t \in Ops, NEW k \in Kinds, NEW f \in Sources \cup {AllFiles}, Begin(t, k, f)
  PROVE  ReadersStay
<1> DEFINE stage == IF backend = "chroma" THEN "open"
                    ELSE CASE k = "query" -> "ask" [] k = "search" -> "exists" [] k = "document" -> "read"
<1>1. k = "query" \/ k = "search" \/ k = "document"
  BY DEF Kinds
<1>2. /\ stage \notin {"fetch", "done", "idle"}
      /\ stage = "read" => k = "document"
      /\ stage = "exists" => k = "search"
  <2>1. CASE backend = "chroma"
    BY <2>1
  <2>2. CASE backend # "chroma" /\ k = "query"
    BY <2>2
  <2>3. CASE backend # "chroma" /\ k = "search"
    BY <2>3
  <2>4. CASE backend # "chroma" /\ k = "document"
    BY <2>4
  <2> QED
    BY <1>1, <2>1, <2>2, <2>3, <2>4
<1>3. /\ kind' = [kind EXCEPT ![t] = k] /\ filter' = [filter EXCEPT ![t] = f] /\ Goto(t, stage)
      /\ UNCHANGED <<store, handle, total, lists, hits, windows, texts>>
      /\ k = "document" => f # AllFiles
  BY DEF Begin
<1> HIDE DEF stage
<1>4. pc'[t] = stage /\ kind'[t] = k /\ filter'[t] = f
  BY <1>3 DEF Goto, ReadInv, Typed
<1>5. Answer(t)'
  BY <1>2, <1>3, <1>4 DEF Answer
<1>6. /\ \A u \in Ops \ {t} : kind'[u] = kind[u] /\ filter'[u] = filter[u]
      /\ kind' \in [Ops -> Kinds] /\ filter' \in [Ops -> Sources \cup {AllFiles}]
      /\ total' \in [Ops -> Nat] /\ backend' = backend /\ doubled' = doubled
  BY <1>3 DEF ReadInv, Typed, store
<1>7. texts[t] = <<>>
  BY DEF Begin, ReadInv, Answers, Answer
<1> QED
  BY <1>3, <1>5, <1>6, <1>7, MovesOn

(* So does a step that only looks at the store.                             *)
LEMMA WaySteps ==
  ASSUME ReadInv, NEW t \in Ops,
         CollectionExists(t) \/ Open(t) \/ CountMatching(t) \/ CountQuestions(t) \/ CallFails(t)
  PROVE  ReadersStay
<1> DEFINE On(stage) == /\ Goto(t, stage) /\ stage \notin {"fetch", "done", "exists", "idle"}
                        /\ stage = "read" => kind[t] = "document"
<1>1. UNCHANGED <<reading, lists, hits, windows, texts>> /\ backend' = backend /\ doubled' = doubled
  BY DEF CollectionExists, Open, CountMatching, CountQuestions, CallFails, store
<1>2. kind' = kind /\ filter' = filter
  BY <1>1 DEF reading
<1>3. \E stage : On(stage)
  <2>1. CASE CollectionExists(t)
    <3>1. CASE chunks = {}
      <4>1. On("missing")
        BY <2>1, <3>1 DEF CollectionExists
      <4> QED
        BY <4>1
    <3>2. CASE chunks # {}
      <4>1. On("ask")
        BY <2>1, <3>2 DEF CollectionExists
      <4> QED
        BY <4>1
    <3> QED
      BY <3>1, <3>2
  <2>2. CASE Open(t)
    <3>1. CASE shelf = NoList
      <4>1. On("missing")
        BY <2>2, <3>1 DEF Open
      <4> QED
        BY <4>1
    <3>2. CASE shelf # NoList /\ kind[t] = "document"
      <4>1. On("read")
        BY <2>2, <3>2 DEF Open
      <4> QED
        BY <4>1
    <3>3. CASE shelf # NoList /\ kind[t] # "document"
      <4>1. On("count")
        BY <2>2, <3>3 DEF Open
      <4> QED
        BY <4>1
    <3> QED
      BY <3>1, <3>2, <3>3
  <2>3. CASE CountMatching(t)
    <3>1. On("nearest")
      BY <2>3 DEF CountMatching
    <3> QED
      BY <3>1
  <2>4. CASE CountQuestions(t)
    <3>1. On("nearestQuestions")
      BY <2>4 DEF CountQuestions
    <3> QED
      BY <3>1
  <2>5. CASE CallFails(t)
    <3>1. On("failed")
      BY <2>5 DEF CallFails
    <3> QED
      BY <3>1
  <2> HIDE DEF On
  <2> QED
    BY <2>1, <2>2, <2>3, <2>4, <2>5
<1>4. PICK stage : On(stage)
  BY <1>3
<1>5. Answer(t)'
  <2>1. pc'[t] = stage
    BY <1>4 DEF Goto, ReadInv, Typed
  <2> QED
    BY <1>2, <1>4, <2>1 DEF Answer, ReadInv, Answers
<1>6. total' \in [Ops -> Nat]
  <2>1. Matching(t) \in SUBSET chunks /\ QMatching(t) \in SUBSET questions
    BY DEF Matching, QMatching
  <2>2. IsFiniteSet(Matching(t)) /\ IsFiniteSet(QMatching(t))
    BY <2>1, FS_Subset DEF ReadInv, Stored, Kept
  <2>3. Cardinality(Matching(t)) \in Nat /\ Cardinality(QMatching(t)) \in Nat
    BY <2>2, FS_CardinalityType
  <2>4. total \in [Ops -> Nat]
    BY DEF ReadInv, Typed
  <2>5. total' = total \/ total' = [total EXCEPT ![t] = Cardinality(Matching(t))]
        \/ total' = [total EXCEPT ![t] = Cardinality(QMatching(t))]
    BY DEF CollectionExists, Open, CountMatching, CountQuestions, CallFails
  <2> QED
    BY <2>3, <2>4, <2>5
<1>7. kind' \in [Ops -> Kinds] /\ filter' \in [Ops -> Sources \cup {AllFiles}]
  BY <1>2 DEF ReadInv, Typed
<1>8. UNCHANGED <<lists, hits, windows, texts>>
  BY <1>1
<1> QED
  BY <1>1, <1>2, <1>4, <1>5, <1>6, <1>7, <1>8, MovesOn

(* Chroma is never asked for more than the pool.                            *)
LEMMA WantedIs ==
  ASSUME ReadInv, NEW t \in Ops PROVE Wanted(t) \in Nat /\ Wanted(t) <= Pool
<1> DEFINE n == IF kind[t] = "query" THEN Pool ELSE Limit
           T == {n, total[t]}
<1>1. n \in Nat /\ n <= Pool /\ total[t] \in Nat /\ Pool \in Nat
  BY NatChoice DEF ReadInv, Typed
<1> HIDE DEF n
<1>2. T \in SUBSET Nat /\ T # {}
  BY <1>1
<1>3. Min(T) \in T /\ \A x \in T : Min(T) <= x
  BY <1>2, LeastOf
<1>4. Wanted(t) = Min(T)
  BY DEF Wanted, n
<1>5. n \in T /\ Min(T) \in Nat
  BY <1>2, <1>3
<1>6. Min(T) <= n
  BY <1>3, <1>5
<1> HIDE DEF T
<1> QED
  BY <1>1, <1>4, <1>5, <1>6

(* So does a search.                                                        *)
LEMMA SearchSteps ==
  ASSUME ReadInv, NEW t \in Ops, AskHybrid(t) \/ AskQuestions(t) \/ Nearest(t) \/ NearestQuestions(t)
  PROVE  ReadersStay
<1>0. Stored /\ backend' = backend /\ doubled' = doubled /\ UNCHANGED <<reading, total, hits, windows, texts>>
  BY DEF AskHybrid, AskQuestions, Nearest, NearestQuestions, store, ReadInv
<1>1. DOMAIN pc = Ops /\ kind' = kind /\ filter' = filter /\ Answer(t)
  BY <1>0 DEF ReadInv, Typed, Answers, reading
<1>2. 1 \in 1..2 /\ 2 \in 1..2
  OBVIOUS
<1>3. ASSUME NEW stage, Goto(t, stage), stage \notin {"fetch", "read", "exists", "idle"},
             stage = "done" => kind[t] # "query"
      PROVE  DOMAIN pc' = Ops /\ Answer(t)' /\ \A u \in Ops \ {t} : pc'[u] = pc[u]
  <2>1. DOMAIN pc' = Ops /\ pc'[t] = stage /\ \A u \in Ops \ {t} : pc'[u] = pc[u]
    BY <1>1, <1>3 DEF Goto
  <2>2. Answer(t)'
    BY <1>1, <1>3, <2>1 DEF Answer
  <2> QED
    BY <2>1, <2>2
<1>4. ASSUME pc' = pc, pc[t] = "ask"
      PROVE  DOMAIN pc' = Ops /\ Answer(t)' /\ \A u \in Ops \ {t} : pc'[u] = pc[u]
  BY <1>1, <1>4 DEF Answer
<1>5. CASE AskHybrid(t)
  <2> DEFINE n == IF kind[t] = "query" THEN Pool ELSE Limit
  <2>1. n \in Nat /\ n <= Pool
    BY NatChoice
  <2>2. PICK s \in Rankings(Matching(t), n) : Found(t, 1, ToKeys(s))
    BY <1>5 DEF AskHybrid
  <2> HIDE DEF n
  <2>3. ToKeys(s) \in Seq(Keys) /\ (backend = "pg" => Searched(ToKeys(s)))
    BY <1>0, <2>1, <2>2, ChunksFound
  <2>4. DOMAIN pc' = Ops /\ Answer(t)' /\ \A u \in Ops \ {t} : pc'[u] = pc[u]
    <3>1. CASE kind[t] = "query"
      BY <1>4, <1>5, <3>1 DEF AskHybrid
    <3>2. CASE kind[t] # "query"
      <4>1. Goto(t, "done")
        BY <1>5, <3>2 DEF AskHybrid
      <4> QED
        BY <1>3, <3>2, <4>1
    <3> QED
      BY <3>1, <3>2
  <2> QED
    BY <1>0, <1>2, <2>2, <2>3, <2>4, AnswerArrives
<1>6. CASE AskQuestions(t)
  <2>1. Pool \in Nat /\ Pool <= Pool
    BY NatChoice
  <2>2. PICK s \in Rankings(QMatching(t), Pool) : Found(t, 2, ToKeys(Parents(s)))
    BY <1>6 DEF AskQuestions
  <2>3. ToKeys(Parents(s)) \in Seq(Keys) /\ (backend = "pg" => Searched(ToKeys(Parents(s))))
    BY <1>0, <2>1, <2>2, QuestionsFound
  <2>4. DOMAIN pc' = Ops /\ Answer(t)' /\ \A u \in Ops \ {t} : pc'[u] = pc[u]
    BY <1>4, <1>6 DEF AskQuestions
  <2> QED
    BY <1>0, <1>2, <2>2, <2>3, <2>4, AnswerArrives
<1>7. CASE Nearest(t)
  <2>1. Wanted(t) \in Nat /\ Wanted(t) <= Pool
    BY WantedIs
  <2>2. PICK s \in Rankings(Matching(t), Wanted(t)) : Found(t, 1, ToKeys(s))
    BY <1>7 DEF Nearest
  <2>3. ToKeys(s) \in Seq(Keys) /\ (backend = "pg" => Searched(ToKeys(s)))
    BY <1>0, <2>1, <2>2, ChunksFound
  <2>4. DOMAIN pc' = Ops /\ Answer(t)' /\ \A u \in Ops \ {t} : pc'[u] = pc[u]
    <3>1. CASE kind[t] = "query"
      <4>1. Goto(t, "countQuestions")
        BY <1>7, <3>1 DEF Nearest
      <4> QED
        BY <1>3, <4>1
    <3>2. CASE kind[t] # "query"
      <4>1. Goto(t, "done")
        BY <1>7, <3>2 DEF Nearest
      <4> QED
        BY <1>3, <3>2, <4>1
    <3> QED
      BY <3>1, <3>2
  <2> QED
    BY <1>0, <1>2, <2>2, <2>3, <2>4, AnswerArrives
<1>8. CASE NearestQuestions(t)
  <2>1. Wanted(t) \in Nat /\ Wanted(t) <= Pool
    BY WantedIs
  <2>2. PICK s \in Rankings(QMatching(t), Wanted(t)) : Found(t, 2, ToKeys(Parents(s)))
    BY <1>8 DEF NearestQuestions
  <2>3. ToKeys(Parents(s)) \in Seq(Keys) /\ (backend = "pg" => Searched(ToKeys(Parents(s))))
    BY <1>0, <2>1, <2>2, QuestionsFound
  <2>4. DOMAIN pc' = Ops /\ Answer(t)' /\ \A u \in Ops \ {t} : pc'[u] = pc[u]
    <3>1. Goto(t, "ask")
      BY <1>8 DEF NearestQuestions
    <3> QED
      BY <1>3, <3>1
  <2> QED
    BY <1>0, <1>2, <2>2, <2>3, <2>4, AnswerArrives
<1> QED
  BY <1>5, <1>6, <1>7, <1>8

(* With both answers in, they are a pair.                                   *)
LEMMA PairOf ==
  ASSUME ReadInv, NEW t \in Ops, NoList \notin ToSet(lists[t])
  PROVE  lists[t] \in Pairs
<1>1. lists[t] \in [1..2 -> Seq(Keys) \cup {NoList}]
  BY DEF ReadInv, Typed
<1>2. lists[t][1] # NoList /\ lists[t][2] # NoList
  BY <1>1 DEF ToSet
<1>3. \A i \in 1..2 : lists[t][i] \in Seq(Keys)
  BY <1>1, <1>2
<1>4. lists[t] \in [1..2 -> Seq(Keys)]
  BY <1>1, <1>3
<1> DEFINE l == lists[t]
<1> HIDE DEF l
<1>5. l \in [1..2 -> Seq(Keys)]
  BY <1>4 DEF l
<1>6. ASSUME NEW k \in Nat, l \in [1..k -> Seq(Keys)] PROVE l \in Seq(Seq(Keys)) /\ Len(l) = k
  BY <1>6
<1>7. l \in Seq(Seq(Keys)) /\ Len(l) = 2
  <2>1. 2 \in Nat
    OBVIOUS
  <2> QED
    BY <1>5, <1>6, <2>1
<1> QED
  BY <1>7 DEF Pairs, l

(* So does the fusion: the windows are those of the hits, and nothing has   *)
(* been fetched.                                                            *)
LEMMA FuseStep ==
  ASSUME ReadInv, NEW t \in Ops, Fuse(t) PROVE ReadersStay
<1> DEFINE stage == IF windows'[t] = <<>> THEN "done" ELSE "fetch"
<1>1. /\ pc[t] = "ask" /\ kind[t] = "query" /\ NoList \notin ToSet(lists[t])
      /\ hits' = [hits EXCEPT ![t] = RrfFuse(lists[t], Limit)]
      /\ windows' = [windows EXCEPT ![t] = Windows(hits'[t])]
      /\ texts' = [texts EXCEPT ![t] = [i \in DOMAIN windows'[t] |-> NoList]]
      /\ pc' = [pc EXCEPT ![t] = stage]
      /\ backend' = backend /\ doubled' = doubled /\ kind' = kind /\ filter' = filter /\ total' = total /\ lists' = lists
  BY DEF Fuse, Goto, store, reading
<1>2. stage \in {"done", "fetch"}
  OBVIOUS
<1> HIDE DEF stage
<1>3. DOMAIN pc = Ops /\ DOMAIN hits = Ops /\ DOMAIN windows = Ops /\ DOMAIN texts = Ops /\ Answers
  BY DEF ReadInv, Typed
<1>4. /\ DOMAIN pc' = Ops /\ DOMAIN hits' = Ops /\ DOMAIN windows' = Ops /\ DOMAIN texts' = Ops
      /\ pc'[t] = stage /\ hits'[t] = RrfFuse(lists[t], Limit) /\ windows'[t] = Windows(hits'[t])
      /\ texts'[t] = [i \in DOMAIN windows'[t] |-> NoList]
      /\ \A u \in Ops \ {t} : /\ pc'[u] = pc[u] /\ hits'[u] = hits[u]
                              /\ windows'[u] = windows[u] /\ texts'[u] = texts[u]
  BY <1>1, <1>3
<1>5. Typed'
  BY <1>1, <1>4 DEF ReadInv, Typed
<1>6. SearchesOnce'
  BY <1>1, SameSearches DEF ReadInv
<1>7. Answer(t)'
  <2>1. FusedAt(t)'
    BY <1>1, <1>4 DEF FusedAt
  <2>2. DOMAIN texts'[t] = DOMAIN windows'[t]
    BY <1>4
  <2> QED
    BY <1>1, <1>2, <1>3, <1>4, <2>1, <2>2 DEF Answer, Answers
<1>8. \A u \in Ops : Answer(u)'
  BY <1>1, <1>3, <1>4, <1>7, SameAnswer DEF Answers
<1>9. TextOk(t)'
  BY <1>4 DEF TextOk, PassageOk
<1>10. Whole'
  <2>1. ASSUME backend = "pg", NEW u \in Ops \ {t} PROVE TextOk(u)'
    BY <1>1, <1>4, <2>1, SameText DEF ReadInv, Whole
  <2> QED
    BY <1>1, <1>9, <2>1 DEF Whole
<1> QED
  BY <1>5, <1>6, <1>8, <1>10 DEF ReadersStay, Answers

(* So does the fetch of one window.                                         *)
LEMMA FetchStep ==
  ASSUME ReadInv, NEW t \in Ops, NEW i \in 1..Limit, Fetch(t, i) PROVE ReadersStay
<1> DEFINE w == windows[t][i]
           S == {r \in OfFile(w.source) : w.lo <= r.index /\ r.index <= w.hi}
           stage == IF NoList \in ToSet(texts'[t]) THEN "fetch" ELSE "done"
<1>1. /\ pc[t] = "fetch" /\ i \in DOMAIN texts[t]
      /\ texts' = [texts EXCEPT ![t][i] = Passage(S)] /\ pc' = [pc EXCEPT ![t] = stage]
      /\ backend' = backend /\ doubled' = doubled /\ kind' = kind /\ filter' = filter /\ total' = total
      /\ lists' = lists /\ hits' = hits /\ windows' = windows
  BY DEF Fetch, Goto, store, reading
<1>2. stage \in {"done", "fetch"}
  OBVIOUS
<1>3. DOMAIN pc = Ops /\ DOMAIN texts = Ops /\ Answers /\ Answer(t)
  BY DEF ReadInv, Typed, Answers
<1>4. kind[t] = "query" /\ FusedAt(t) /\ DOMAIN texts[t] = DOMAIN windows[t]
  BY <1>1, <1>3 DEF Answer
<1>5. backend = "pg" => PassageOk(Passage(S), w.lo)
  <2>1. hits[t] \in Seq(Keys)
    <3>1. lists[t] \in Pairs /\ hits[t] = RrfFuse(lists[t], Limit)
      BY <1>4, PairOf DEF FusedAt
    <3> QED
      BY <3>1, NatChoice, RrfFuseIs
  <2>2. windows[t] \in Seq(Pieces)
    BY <1>4, <2>1, WindowsIs DEF FusedAt
  <2>3. i \in DOMAIN windows[t]
    BY <1>1, <1>4
  <2>4. w \in Pieces
    BY <2>2, <2>3
  <2>5. w.source \in Sources /\ w.lo \in Nat /\ w.hi \in Nat
    BY <2>4 DEF Pieces
  <2> HIDE DEF w
  <2> QED
    BY <2>5, SliceOk DEF ReadInv
<1> HIDE DEF stage, S, w
<1>6. /\ DOMAIN pc' = Ops /\ DOMAIN texts' = Ops /\ pc'[t] = stage
      /\ texts'[t] = [texts[t] EXCEPT ![i] = Passage(S)]
      /\ \A u \in Ops \ {t} : pc'[u] = pc[u] /\ texts'[u] = texts[u]
  BY <1>1, <1>3
<1>7. DOMAIN texts'[t] = DOMAIN windows'[t]
  BY <1>1, <1>4, <1>6
<1>8. Typed'
  BY <1>1, <1>6 DEF ReadInv, Typed
<1>9. SearchesOnce'
  BY <1>1, SameSearches DEF ReadInv
<1>10. Answer(t)'
  <2>1. FusedAt(t)'
    BY <1>1, <1>4 DEF FusedAt
  <2> QED
    BY <1>1, <1>2, <1>4, <1>6, <1>7, <2>1 DEF Answer
<1>11. \A u \in Ops : Answer(u)'
  BY <1>1, <1>3, <1>6, <1>10, SameAnswer DEF Answers
<1>12. ASSUME backend = "pg" PROVE TextOk(t)'
  <2>1. TextOk(t) /\ PassageOk(Passage(S), w.lo)
    BY <1>5, <1>12 DEF ReadInv, Whole
  <2> SUFFICES ASSUME NEW j \in DOMAIN texts'[t] PROVE PassageOk(texts[t][j], Begins(t, j))'
    BY DEF TextOk
  <2>2. \A n : Begins(t, n)' = windows[t][n].lo /\ Begins(t, n) = windows[t][n].lo
    BY <1>1, <1>4 DEF Begins
  <2>3. CASE j = i
    <3>1. texts'[t][j] = Passage(S) /\ Begins(t, j)' = w.lo
      BY <1>6, <2>2, <2>3 DEF w
    <3> QED
      BY <1>1, <2>1, <3>1 DEF PassageOk, Filled, Gapless
  <2>4. CASE j # i
    <3>1. texts'[t][j] = texts[t][j] /\ j \in DOMAIN texts[t]
      BY <1>6, <2>4
    <3>2. PassageOk(texts[t][j], Begins(t, j))
      BY <2>1, <3>1 DEF TextOk
    <3> QED
      BY <1>1, <2>2, <3>1, <3>2 DEF PassageOk, Filled, Gapless
  <2> QED
    BY <2>3, <2>4
<1>13. Whole'
  <2>1. ASSUME backend = "pg", NEW u \in Ops \ {t} PROVE TextOk(u)'
    BY <1>1, <1>6, <2>1, SameText DEF ReadInv, Whole
  <2> QED
    BY <1>1, <1>12, <2>1 DEF Whole
<1> QED
  BY <1>8, <1>9, <1>11, <1>13 DEF ReadersStay, Answers

(* So does the read of a whole file.                                        *)
LEMMA ReadFileStep ==
  ASSUME ReadInv, NEW t \in Ops, ReadFile(t) PROVE ReadersStay
<1> DEFINE S == OfFile(filter[t])
           stage == IF S = {} THEN "missing" ELSE "done"
<1>1. /\ pc[t] = "read"
      /\ texts' = [texts EXCEPT ![t] = <<Passage(S)>>] /\ pc' = [pc EXCEPT ![t] = stage]
      /\ backend' = backend /\ doubled' = doubled /\ kind' = kind /\ filter' = filter /\ total' = total
      /\ lists' = lists /\ hits' = hits /\ windows' = windows
  BY DEF ReadFile, Goto, store, reading
<1>2. stage \in {"done", "missing"}
  OBVIOUS
<1>3. DOMAIN pc = Ops /\ DOMAIN texts = Ops /\ Answers /\ Answer(t) /\ filter[t] \in Sources \cup {AllFiles}
  BY DEF ReadInv, Typed, Answers
<1>4. kind[t] = "document" /\ filter[t] \in Sources
  BY <1>1, <1>3 DEF Answer
<1>5. backend = "pg" => PassageOk(Passage(S), 0)
  BY <1>4, SliceOk DEF ReadInv
<1> HIDE DEF stage, S
<1>6. /\ DOMAIN pc' = Ops /\ DOMAIN texts' = Ops /\ pc'[t] = stage /\ texts'[t] = <<Passage(S)>>
      /\ \A u \in Ops \ {t} : pc'[u] = pc[u] /\ texts'[u] = texts[u]
  BY <1>1, <1>3
<1>7. Typed'
  BY <1>1, <1>6 DEF ReadInv, Typed
<1>8. SearchesOnce'
  BY <1>1, SameSearches DEF ReadInv
<1>9. Answer(t)'
  BY <1>1, <1>2, <1>3, <1>4, <1>6 DEF Answer
<1>10. \A u \in Ops : Answer(u)'
  BY <1>1, <1>3, <1>6, <1>9, SameAnswer DEF Answers
<1>11. ASSUME backend = "pg" PROVE TextOk(t)'
  <2> SUFFICES ASSUME NEW j \in DOMAIN texts'[t] PROVE PassageOk(texts[t][j], Begins(t, j))'
    BY DEF TextOk
  <2>1. texts'[t][j] = Passage(S) /\ Begins(t, j)' = 0
    BY <1>1, <1>4, <1>6 DEF Begins
  <2> QED
    BY <1>1, <1>5, <1>11, <2>1 DEF PassageOk, Filled, Gapless
<1>12. Whole'
  <2>1. ASSUME backend = "pg", NEW u \in Ops \ {t} PROVE TextOk(u)'
    BY <1>1, <1>6, <2>1, SameText DEF ReadInv, Whole
  <2> QED
    BY <1>1, <1>11, <2>1 DEF Whole
<1> QED
  BY <1>7, <1>8, <1>10, <1>12 DEF ReadersStay, Answers

(* The invariant of the readers and the store, for any number of readers,   *)
(* files, chunks and writes: on pgvector copies stay whole, a file has two  *)
(* only when overlapping uploads have stored it twice, and answers name no  *)
(* chunk twice but in such a file; what a reader has fused is what its      *)
(* answers fuse to.                                                         *)
THEOREM ReadsKeepInvariant == Spec => []ReadInv
<1>1. Init => ReadInv
  <2> SUFFICES ASSUME Init PROVE ReadInv
    OBVIOUS
  <2>1. Stored
    BY InitKept DEF Stored
  <2>2. /\ pc = [t \in Ops |-> "idle"] /\ kind = [t \in Ops |-> "query"]
        /\ filter = [t \in Ops |-> AllFiles] /\ total = [t \in Ops |-> 0]
        /\ lists = [t \in Ops |-> <<NoList, NoList>>]
        /\ hits = [t \in Ops |-> <<>>] /\ windows = hits /\ texts = hits
    BY DEF Init
  <2>3. lists \in [Ops -> [1..2 -> Seq(Keys) \cup {NoList}]]
    <3>1. <<NoList, NoList>> \in [1..2 -> Seq(Keys) \cup {NoList}]
      OBVIOUS
    <3> QED
      BY <2>2, <3>1
  <2>4. Typed
    BY <2>2, <2>3 DEF Typed, Kinds
  <2>5. SearchesOnce
    BY <2>2 DEF SearchesOnce, ListOnce
  <2>6. Answers
    BY <2>2 DEF Answers, Answer
  <2>7. Whole
    BY <2>2 DEF Whole, TextOk
  <2> QED
    BY <2>1, <2>4, <2>5, <2>6, <2>7 DEF ReadInv
<1>2. ReadInv /\ [Next]_vars => ReadInv'
  <2> SUFFICES ASSUME ReadInv, [Next]_vars PROVE ReadInv'
    OBVIOUS
  <2>1. ASSUME Unread, Stored', doubled \subseteq doubled' PROVE ReadInv'
    <3>1. /\ backend' = backend /\ pc' = pc /\ kind' = kind /\ filter' = filter /\ total' = total
          /\ lists' = lists /\ hits' = hits /\ windows' = windows /\ texts' = texts
      BY <2>1 DEF Unread, reading
    <3>2. Typed' /\ SearchesOnce' /\ Whole'
      <4>1. Typed'
        BY <3>1 DEF ReadInv, Typed
      <4>2. SearchesOnce'
        BY <2>1, <3>1, SameSearches DEF ReadInv
      <4>3. Whole'
        BY <2>1, <3>1, SameText DEF ReadInv, Whole
      <4> QED
        BY <4>1, <4>2, <4>3
    <3>3. Answers'
      BY <3>1, SameAnswer DEF ReadInv, Answers
    <3> QED
      BY <2>1, <3>2, <3>3 DEF ReadInv
  <2>2. ASSUME UNCHANGED store PROVE Stored'
    <3>1. /\ backend' = backend /\ chunks' = chunks /\ questions' = questions
          /\ writes' = writes /\ writer' = writer /\ doubled' = doubled
      BY <2>2 DEF store
    <3>2. Kept'
      BY <3>1 DEF ReadInv, Stored, Kept
    <3>3. backend = "pg" => \A q \in questions' : q.parent \in chunks'
      BY <3>1 DEF ReadInv, Stored, WholeOnPg
    <3>4. WholeOnPg'
      BY <3>1, <3>3, ChunksStay DEF ReadInv, Stored
    <3> QED
      BY <3>2, <3>4 DEF Stored
  <2>3. CASE Write
    BY <2>1, <2>3, WriteKeeps DEF ReadInv, Stored
  <2>4. CASE UNCHANGED vars
    <3>1. Unread /\ UNCHANGED store /\ doubled' = doubled
      BY <2>4 DEF vars, store, Unread
    <3> QED
      BY <2>1, <2>2, <3>1
  <2>5. ASSUME NEW t \in Ops, Read(t) PROVE ReadInv'
    <3>1. Stored'
      BY <2>2, <2>5, ReadersLeaveTheStore
    <3>2. ASSUME NEW k \in Kinds, NEW f \in Sources \cup {AllFiles}, Begin(t, k, f) PROVE ReadersStay
      BY <3>2, BeginStep
    <3>3. ASSUME NEW i \in 1..Limit, Fetch(t, i) PROVE ReadersStay
      BY <3>3, FetchStep
    <3>4. ReadersStay
      BY <2>5, <3>2, <3>3, WaySteps, SearchSteps, FuseStep, ReadFileStep DEF Read
    <3> QED
      BY <3>1, <3>4 DEF ReadersStay, ReadInv
  <2> QED
    BY <2>3, <2>4, <2>5 DEF Next
<1> QED
  BY <1>1, <1>2, PTL DEF Spec

(* On pgvector a copy of a file is never seen half-way, however uploads and *)
(* deletes overlap, and a passage or a document mixes two copies only where *)
(* two overlapping uploads have stored the file twice (_fetch_range,        *)
(* get_full_document_text).                                                 *)
THEOREM NoFileHalfSeen == Spec => []OneCopyEach
<1>1. ReadInv => OneCopyEach
  BY DEF ReadInv, Whole, TextOk, PassageOk, Filled, OneCopyEach
<1> QED
  BY <1>1, ReadsKeepInvariant, PTL

(* Ranges that are apart are as many as the sequence is long.               *)
LEMMA ApartCounts ==
  ASSUME NEW ws \in Seq(Pieces), Apart(ws)
  PROVE  /\ \A v, w \in ToSet(ws) : v # w /\ v.source = w.source => v.hi + 1 < w.lo \/ w.hi + 1 < v.lo
         /\ Len(ws) = Cardinality(ToSet(ws))
<1> DEFINE n == Len(ws)
<1>1. n \in Nat /\ DOMAIN ws = 1..n /\ \A i \in 1..n : ws[i] \in Pieces
  OBVIOUS
<1>2. \A i \in 1..n : ws[i].lo \in Nat /\ ws[i].hi \in Nat /\ ws[i].lo <= ws[i].hi
  BY <1>1 DEF Pieces
<1> HIDE DEF n
<1>3. ASSUME NEW v \in ToSet(ws), NEW w \in ToSet(ws), v # w, v.source = w.source
      PROVE  v.hi + 1 < w.lo \/ w.hi + 1 < v.lo
  <2>1. PICK a \in 1..n : v = ws[a]
    BY <1>1 DEF ToSet
  <2>2. PICK b \in 1..n : w = ws[b]
    BY <1>1 DEF ToSet
  <2> QED
    BY <1>3, <2>1, <2>2 DEF Apart, n
<1>4. ASSUME NEW a \in 1..n, NEW b \in 1..n, ws[a] = ws[b] PROVE a = b
  BY <1>2, <1>4 DEF Apart, n
<1>5. ws \in Bijection(1..n, ToSet(ws))
  <2>1. ws \in [1..n -> ToSet(ws)]
    <3>1. ws = [i \in 1..n |-> ws[i]]
      BY <1>1
    <3>2. \A i \in 1..n : ws[i] \in ToSet(ws)
      BY <1>1 DEF ToSet
    <3> QED
      BY <3>1, <3>2
  <2>2. \A v \in ToSet(ws) : \E i \in 1..n : ws[i] = v
    BY <1>1 DEF ToSet
  <2> QED
    BY <1>4, <2>1, <2>2 DEF Bijection, Injection, Surjection, IsInjective
<1>6. ExistsBijection(1..n, ToSet(ws))
  BY <1>5 DEF ExistsBijection
<1>7. IsFiniteSet(1..n) /\ Cardinality(1..n) = n
  <2>1. 1 \in Int /\ n \in Int /\ (1 > n => n = 0) /\ n - 1 + 1 = n
    BY <1>1
  <2> QED
    BY <2>1, FS_Interval
<1>8. Cardinality(ToSet(ws)) = n
  BY <1>6, <1>7, FS_Bijection
<1> QED
  BY <1>3, <1>8 DEF n

(* The passages of an answer are the maximal runs of the chunks the hits    *)
(* and their neighbours make, each once, for every ranking a search may     *)
(* return (merge_windows, group_hits_by_source).                            *)
THEOREM PassagesStayRuns == Spec => []PassagesAreRuns
<1>1. ASSUME ReadInv PROVE PassagesAreRuns
  <2> DEFINE Wants(t, f) == UNION {Window(h.index).lo .. Window(h.index).hi :
                                     h \in {x \in ToSet(hits[t]) : x.source = f}}
  <2>1. ASSUME NEW t \in Ops, pc[t] \in {"fetch", "done"}, kind[t] = "query"
        PROVE  /\ \A f \in Sources : CoverOf(windows[t], f) = Wants(t, f)
               /\ Apart(windows[t]) /\ windows[t] \in Seq(Pieces)
    <3>1. FusedAt(t)
      BY <1>1, <2>1 DEF ReadInv, Answers, Answer
    <3>2. lists[t] \in Pairs
      BY <1>1, <3>1, PairOf DEF FusedAt
    <3>3. hits[t] \in Seq(Keys)
      BY <3>1, <3>2, NatChoice, RrfFuseIs DEF FusedAt
    <3>4. /\ windows[t] \in Seq(Pieces) /\ Apart(windows[t])
          /\ \A f \in Sources : CoverOf(windows[t], f) = WantedOf(hits[t], f)
      BY <3>1, <3>3, WindowsIs DEF FusedAt
    <3>5. ASSUME NEW f \in Sources PROVE WantedOf(hits[t], f) = Wants(t, f)
      <4>1. HitsIn(hits[t], f) = {h.index : h \in {x \in ToSet(hits[t]) : x.source = f}}
        BY DEF HitsIn, ToSet
      <4> QED
        BY <4>1 DEF WantedOf, Around
    <3> QED
      BY <3>4, <3>5
  <2>2. ASSUME NEW t \in Ops, pc[t] \in {"fetch", "done"}, kind[t] = "query"
        PROVE  /\ \A f \in Sources :
                    UNION {w.lo .. w.hi : w \in {x \in ToSet(windows[t]) : x.source = f}} = Wants(t, f)
               /\ \A v, w \in ToSet(windows[t]) :
                    v # w /\ v.source = w.source => v.hi + 1 < w.lo \/ w.hi + 1 < v.lo
               /\ Len(windows[t]) = Cardinality(ToSet(windows[t]))
    <3>1. \A f \in Sources : CoverOf(windows[t], f) = Wants(t, f)
      BY <2>1, <2>2
    <3>2. /\ \A v, w \in ToSet(windows[t]) :
               v # w /\ v.source = w.source => v.hi + 1 < w.lo \/ w.hi + 1 < v.lo
          /\ Len(windows[t]) = Cardinality(ToSet(windows[t]))
      BY <2>1, <2>2, ApartCounts
    <3> QED
      BY <3>1, <3>2 DEF CoverOf
  <2> QED
    BY <2>2 DEF PassagesAreRuns
<1> QED
  BY <1>1, ReadsKeepInvariant, PTL

(* A chunk both searches surfaced outranks one that a single search found,  *)
(* on pgvector and while the pool is no longer than K + 1, if the files of  *)
(* both are not stored twice (rrf_fuse).                                    *)
THEOREM TwoPathsOutrankOne == Spec => []BothPathsOutrank
<1>1. ASSUME ReadInv PROVE BothPathsOutrank
  <2> SUFFICES ASSUME NEW t \in Answered, backend = "pg", kind[t] = "query", Pool <= RrfK + 1,
                      NEW both \in KeysOf(lists[t]), NEW one \in KeysOf(lists[t]),
                      both.source \notin doubled, one.source \notin doubled,
                      Cardinality({i \in 1..2 : both \in ToSet(lists[t][i])}) = 2,
                      Cardinality({i \in 1..2 : one \in ToSet(lists[t][i])}) = 1,
                      one \in ToSet(hits[t])
               PROVE  \E i, j \in DOMAIN hits[t] : hits[t][i] = both /\ hits[t][j] = one /\ i < j
    BY DEF BothPathsOutrank
  <2> DEFINE l == lists[t]
             P(key) == {i \in 1..2 : key \in ToSet(l[i])}
  <2>1. t \in Ops /\ FusedAt(t)
    BY <1>1 DEF Answered, ReadInv, Answers, Answer
  <2>2. l \in Pairs
    BY <1>1, <2>1, PairOf DEF FusedAt
  <2>3. Searched(l[1]) /\ Searched(l[2])
    <3>1. l[1] # NoList /\ l[2] # NoList
      <4>1. DOMAIN l = {1, 2}
        BY <2>2, PairIs
      <4> QED
        BY <2>1, <4>1 DEF FusedAt, ToSet
    <3>2. 1 \in 1..2 /\ 2 \in 1..2
      OBVIOUS
    <3> QED
      BY <1>1, <2>1, <3>1, <3>2 DEF ReadInv, SearchesOnce, ListOnce
  <2>4. Cardinality({}) = 0 /\ Cardinality({1}) = 1 /\ Cardinality({2}) = 1
    BY FS_EmptySet, FS_Singleton
  <2>5. \A key : P(key) = {} \/ P(key) = {1} \/ P(key) = {2} \/ P(key) = {1, 2}
    OBVIOUS
  <2>6. Cardinality({1, 2}) = 2
    <3>1. 1..2 = {1, 2} /\ 1 \in Int /\ 2 \in Int
      OBVIOUS
    <3>2. ASSUME NEW n \in Nat, n > 0 PROVE Cardinality(1..n) = n
      <4>1. 1 \in Int /\ n \in Int /\ ~(1 > n) /\ n - 1 + 1 = n
        BY <3>2
      <4> QED
        BY <4>1, FS_Interval
    <3>3. 2 \in Nat /\ 2 > 0
      OBVIOUS
    <3>4. Cardinality(1..2) = 2
      BY <3>2, <3>3
    <3> QED
      BY <3>1, <3>4
  <2>7. Cardinality(P(both)) = 2 /\ Cardinality(P(one)) = 1
    OBVIOUS
  <2>8. P(both) = {1, 2} /\ (P(one) = {1} \/ P(one) = {2})
    <3> HIDE DEF P
    <3>1. 0 # 1 /\ 0 # 2 /\ 1 # 2
      OBVIOUS
    <3> DEFINE B == P(both)
               O == P(one)
    <3>2. B = {} \/ B = {1} \/ B = {2} \/ B = {1, 2}
      BY <2>5
    <3>3. O = {} \/ O = {1} \/ O = {2} \/ O = {1, 2}
      BY <2>5
    <3>4. Cardinality(B) = 2 /\ Cardinality(O) = 1
      BY <2>7
    <3> HIDE DEF B, O
    <3>5. B = {1, 2} /\ (O = {1} \/ O = {2})
      BY <2>4, <2>6, <3>1, <3>2, <3>3, <3>4
    <3> QED
      BY <3>5 DEF B, O
  <2>9. both \in ToSet(l[1]) /\ both \in ToSet(l[2])
    BY <2>8
  <2>10. PICK i \in {1, 2} : P(one) = {i}
    BY <2>8
  <2>12. one \in ToSet(l[i]) /\ \A n \in {1, 2} : n # i => one \notin ToSet(l[n])
    BY <2>10
  <2>13. hits[t] = RrfFuse(l, Limit) /\ Limit \in Nat
    BY <2>1, NatChoice DEF FusedAt
  <2>14. both \in Keys /\ one \in Keys
    <3>1. \A n \in {1, 2} : l[n] \in Seq(Keys)
      BY <2>2, PairIs
    <3>2. \A n \in {1, 2} : \A key \in ToSet(l[n]) : key \in Keys
      BY <3>1 DEF ToSet
    <3> HIDE DEF l
    <3> QED
      BY <2>9, <2>12, <3>2
  <2>15. InBoth(l, both) /\ InOnly(l, i, one) /\ Len(l[1]) <= Pool /\ Len(l[2]) <= Pool
    BY <2>3, <2>9, <2>12, <2>14 DEF Searched, InBoth, InOnly
  <2>16. one \in ToSet(RrfFuse(l, Limit))
    BY <2>13
  <2> HIDE DEF l, P
  <2>17. \E m, n \in DOMAIN RrfFuse(l, Limit) :
           RrfFuse(l, Limit)[m] = both /\ RrfFuse(l, Limit)[n] = one /\ m < n
    BY <2>2, <2>13, <2>15, <2>16, BothBeforeOne
  <2> QED
    BY <2>13, <2>17
<1> QED
  BY <1>1, ReadsKeepInvariant, PTL
=============================================================================
