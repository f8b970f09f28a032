-------------------------------- MODULE Sums --------------------------------
(***************************************************************************)
(* Laws of the sums over finite sets that the properties about money are   *)
(* stated with: MapThenSumSet is a recursive function on the subsets of a  *)
(* set, and takes its elements in the order of an unspecified CHOOSE.  The *)
(* laws say that the function exists and that the order does not matter.   *)
(* Induction is used in the form of the least-number principle, with a set *)
(* in the place of a predicate.                                            *)
(***************************************************************************)
EXTENDS FiniteSetsExt, FiniteSetTheorems, WellFoundedInduction, TLAPS

-----------------------------------------------------------------------------
(* Induction.                                                               *)

(* A set of numbers that is not empty has a least one.                      *)
LEMMA LeastNumber ==
  ASSUME NEW T \in SUBSET Nat, T # {}
  PROVE  \E m \in T : \A k \in T : ~(k < m)
<1> DEFINE Less == {ss \in Nat \X Nat : ss[1] < ss[2]}
<1>1. IsWellFoundedOn(Less, Nat)
  BY NatLessThanWellFounded DEF OpToRel
<1>2. PICK m \in T : \A k \in T : <<k, m>> \notin Less
  BY <1>1, WFMin
<1>3. \A k \in T : ~(k < m)
  <2> TAKE k \in T
  <2>1. <<k, m>> \in Nat \X Nat
    OBVIOUS
  <2> QED
    BY <1>2, <2>1
<1> QED
  BY <1>3

LEMMA NumberInduction ==
  ASSUME NEW G, 0 \in G, \A n \in Nat : n \in G => n + 1 \in G
  PROVE  Nat \subseteq G
<1> DEFINE T == Nat \ G
<1>1. SUFFICES ASSUME T # {} PROVE FALSE
  OBVIOUS
<1>2. PICK m \in T : \A k \in T : ~(k < m)
  BY <1>1, LeastNumber
<1>3. m \in Nat /\ m # 0 /\ m \notin G
  BY <1>2
<1>4. m - 1 \in Nat /\ m - 1 < m /\ (m - 1) + 1 = m
  BY <1>3
<1>5. m - 1 \in G
  BY <1>2, <1>4
<1> QED
  BY <1>3, <1>4, <1>5

(* A set G has every subset of S if it has each one for which it has those   *)
(* with one element less.                                                    *)
LEMMA SubsetInduction ==
  ASSUME NEW S, IsFiniteSet(S), NEW G,
         \A s \in SUBSET S : (\A x \in s : s \ {x} \in G) => s \in G
  PROVE  SUBSET S \subseteq G
<1> DEFINE Bad == {s \in SUBSET S : s \notin G}
           T == {Cardinality(s) : s \in Bad}
<1>1. SUFFICES ASSUME Bad # {} PROVE FALSE
  OBVIOUS
<1>2. \A s \in SUBSET S : IsFiniteSet(s) /\ Cardinality(s) \in Nat
  BY FS_Subset, FS_CardinalityType
<1>3. T \in SUBSET Nat /\ T # {}
  BY <1>1, <1>2
<1>4. PICK m \in T : \A k \in T : ~(k < m)
  BY <1>3, LeastNumber
<1>5. PICK s \in Bad : m = Cardinality(s)
  BY <1>4
<1>6. ASSUME NEW x \in s PROVE s \ {x} \in G
  <2>1. Cardinality(s \ {x}) = Cardinality(s) - 1
    BY <1>2, <1>5, FS_RemoveElement
  <2>2. Cardinality(s \ {x}) \in Nat /\ Cardinality(s \ {x}) < m
    BY <1>2, <1>5, <2>1
  <2>3. Cardinality(s \ {x}) \notin T
    BY <1>4, <2>2
  <2> QED
    BY <1>5, <2>3
<1> QED
  BY <1>5, <1>6

-----------------------------------------------------------------------------
(* The recursive function behind MapThenSumSet.                              *)

First(s) == CHOOSE x \in s : TRUE
SumStep(f, g, s) == IF s = {} THEN 0 ELSE f[First(s)] + g[s \ {First(s)}]
IsSumOn(g, f, S) == g = [s \in SUBSET S |-> SumStep(f, g, s)]

LEMMA FirstIsElement == \A s : s # {} => First(s) \in s
BY DEF First

(* Iterating SumStep, after n + 1 rounds the sums of n elements are right.   *)
LEMMA SumExists ==
  ASSUME NEW S, IsFiniteSet(S), NEW f, \A x \in S : f[x] \in Int
  PROVE  \E g : IsSumOn(g, f, S) /\ \A s \in SUBSET S : g[s] \in Int
<1> DEFINE Fits(g, n) == \A s \in SUBSET S :
                           Cardinality(s) <= n => g[s] = SumStep(f, g, s)
           G == {n \in Nat : \E g \in [SUBSET S -> Int] : Fits(g, n)}
<1>1. \A s \in SUBSET S : IsFiniteSet(s) /\ Cardinality(s) \in Nat
  BY FS_Subset, FS_CardinalityType
<1>2. 0 \in G
  <2>1. [s \in SUBSET S |-> 0] \in [SUBSET S -> Int]
    OBVIOUS
  <2>2. Fits([s \in SUBSET S |-> 0], 0)
    <3> SUFFICES ASSUME NEW s \in SUBSET S, Cardinality(s) <= 0
                 PROVE  0 = SumStep(f, [t \in SUBSET S |-> 0], s)
      OBVIOUS
    <3>1. s = {}
      BY <1>1, FS_EmptySet
    <3> QED
      BY <3>1 DEF SumStep
  <2> QED
    BY <2>1, <2>2
<1>3. ASSUME NEW n \in Nat, n \in G PROVE n + 1 \in G
  <2>1. PICK g \in [SUBSET S -> Int] : Fits(g, n)
    BY <1>3
  <2> DEFINE h == [s \in SUBSET S |-> SumStep(f, g, s)]
  <2>2. h \in [SUBSET S -> Int]
    <3> SUFFICES ASSUME NEW s \in SUBSET S, s # {} PROVE SumStep(f, g, s) \in Int
      BY DEF SumStep
    <3>1. First(s) \in S /\ s \ {First(s)} \in SUBSET S
      BY FirstIsElement
    <3> QED
      BY <3>1 DEF SumStep
  <2>3. ASSUME NEW s \in SUBSET S, Cardinality(s) <= n + 1
        PROVE  h[s] = SumStep(f, h, s)
    <3>1. CASE s = {}
      BY <3>1 DEF SumStep
    <3>2. CASE s # {}
      <4> DEFINE t == s \ {First(s)}
      <4>1. First(s) \in s /\ t \in SUBSET S
        BY <3>2, FirstIsElement
      <4>2. Cardinality(t) <= n
        BY <1>1, <2>3, <4>1, FS_RemoveElement
      <4>3. g[t] = h[t]
        BY <2>1, <4>1, <4>2
      <4> QED
        BY <3>2, <4>3 DEF SumStep
    <3> QED
      BY <3>1, <3>2
  <2>4. Fits(h, n + 1)
    BY <2>3
  <2>5. \E k \in [SUBSET S -> Int] : Fits(k, n + 1)
    <3> HIDE DEF h, Fits
    <3> QED
      BY <2>2, <2>4
  <2> HIDE DEF Fits
  <2> QED
    BY <2>5
<1>4. Cardinality(S) \in G
  <2> HIDE DEF G
  <2> QED
    BY <1>1, <1>2, <1>3, NumberInduction
<1>5. PICK g \in [SUBSET S -> Int] : Fits(g, Cardinality(S))
  BY <1>4
<1>6. \A s \in SUBSET S : Cardinality(s) <= Cardinality(S)
  BY FS_Subset
<1>7. \A s \in SUBSET S : g[s] = SumStep(f, g, s) /\ g[s] \in Int
  BY <1>5, <1>6
<1>8. IsSumOn(g, f, S)
  BY <1>7 DEF IsSumOn
<1> QED
  BY <1>7, <1>8

LEMMA SumIsUnique ==
  ASSUME NEW S, IsFiniteSet(S), NEW f, NEW g, NEW h,
         IsSumOn(g, f, S), IsSumOn(h, f, S)
  PROVE  g = h
<1> DEFINE G == {s \in SUBSET S : g[s] = h[s]}
<1>1. /\ g = [s \in SUBSET S |-> SumStep(f, g, s)]
      /\ h = [s \in SUBSET S |-> SumStep(f, h, s)]
  BY DEF IsSumOn
<1>2. ASSUME NEW s \in SUBSET S, \A x \in s : s \ {x} \in G PROVE s \in G
  <2>1. g[s] = SumStep(f, g, s) /\ h[s] = SumStep(f, h, s)
    BY <1>1
  <2>2. s # {} => g[s \ {First(s)}] = h[s \ {First(s)}]
    BY <1>2, FirstIsElement
  <2> QED
    BY <2>1, <2>2 DEF SumStep
<1>3. SUBSET S \subseteq G
  <2> HIDE DEF G
  <2> QED
    BY <1>2, SubsetInduction
<1>4. \A s \in SUBSET S : g[s] = h[s]
  BY <1>3
<1> QED
  BY <1>1, <1>4

(* Any element of a set may be taken first.                                  *)
LEMMA SumInAnyOrder ==
  ASSUME NEW S, IsFiniteSet(S), NEW f, \A x \in S : f[x] \in Int,
         NEW g, \A s \in SUBSET S : g[s] \in Int, IsSumOn(g, f, S)
  PROVE  \A s \in SUBSET S : \A x \in s : g[s] = f[x] + g[s \ {x}]
<1> DEFINE G == {s \in SUBSET S : \A x \in s : g[s] = f[x] + g[s \ {x}]}
<1>1. \A s \in SUBSET S : s # {} => g[s] = f[First(s)] + g[s \ {First(s)}]
  BY DEF IsSumOn, SumStep
<1>2. ASSUME NEW s \in SUBSET S, \A x \in s : s \ {x} \in G PROVE s \in G
  <2> SUFFICES ASSUME NEW x \in s PROVE g[s] = f[x] + g[s \ {x}]
    OBVIOUS
  <2> DEFINE c == First(s)
  <2>1. c \in s /\ g[s] = f[c] + g[s \ {c}]
    BY <1>1, FirstIsElement
  <2>2. CASE x = c
    BY <2>1, <2>2
  <2>3. CASE x # c
    <3> HIDE DEF c
    <3>1. g[s \ {c}] = f[x] + g[(s \ {c}) \ {x}]
      BY <1>2, <2>1, <2>3
    <3>2. g[s \ {x}] = f[c] + g[(s \ {x}) \ {c}]
      BY <1>2, <2>1, <2>3
    <3>3. (s \ {c}) \ {x} = (s \ {x}) \ {c}
      OBVIOUS
    <3>4. /\ f[x] \in Int /\ f[c] \in Int
          /\ g[(s \ {x}) \ {c}] \in Int
      BY <2>1
    <3>5. g[s] = f[c] + (f[x] + g[(s \ {x}) \ {c}])
      BY <2>1, <3>1, <3>3
    <3>6. f[x] + g[s \ {x}] = f[x] + (f[c] + g[(s \ {x}) \ {c}])
      BY <3>2
    <3> QED
      BY <3>4, <3>5, <3>6
  <2> QED
    BY <2>2, <2>3
<1>3. SUBSET S \subseteq G
  <2> HIDE DEF G
  <2> QED
    BY <1>2, SubsetInduction
<1> QED
  BY <1>3

(* The function for S serves every subset of S.                              *)
LEMMA SumOfPart ==
  ASSUME NEW S, NEW T, T \subseteq S, NEW f, NEW g, IsSumOn(g, f, S),
         NEW k, k = [s \in SUBSET T |-> g[s]]
  PROVE  IsSumOn(k, f, T)
<1>1. \A s \in SUBSET T : g[s] = SumStep(f, g, s) /\ k[s] = g[s]
  BY DEF IsSumOn
<1>2. \A s \in SUBSET T : g[s] = SumStep(f, k, s)
  BY <1>1, FirstIsElement DEF SumStep
<1> QED
  BY <1>2 DEF IsSumOn

-----------------------------------------------------------------------------
(* Sums of the values of a function.                                         *)

SumOf(f, S) == MapThenSumSet(LAMBDA x : f[x], S)

(* SumOf is the value of that function.                                      *)
LEMMA SumOfIsFold ==
  ASSUME NEW S, IsFiniteSet(S), NEW f, \A x \in S : f[x] \in Int
  PROVE  \E g : IsSumOn(g, f, S) /\ SumOf(f, S) = g[S]
<1> DEFINE Iter == CHOOSE g : IsSumOn(g, f, S)
<1>1. IsSumOn(Iter, f, S)
  BY SumExists
<1>2. SumOf(f, S) = Iter[S]
  BY DEF SumOf, MapThenSumSet, MapThenFoldSet, IsSumOn, SumStep, First
<1> QED
  BY <1>1, <1>2

(* All sums over parts of S come from one function of integers.              *)
LEMMA SumTable ==
  ASSUME NEW S, IsFiniteSet(S), NEW f, \A x \in S : f[x] \in Int
  PROVE  \E g : /\ IsSumOn(g, f, S)
                /\ \A T \in SUBSET S : g[T] \in Int /\ SumOf(f, T) = g[T]
<1>1. PICK g : IsSumOn(g, f, S) /\ \A T \in SUBSET S : g[T] \in Int
  BY SumExists
<1>2. ASSUME NEW T \in SUBSET S PROVE SumOf(f, T) = g[T]
  <2>1. IsFiniteSet(T) /\ \A x \in T : f[x] \in Int
    BY FS_Subset
  <2>2. PICK h : IsSumOn(h, f, T) /\ SumOf(f, T) = h[T]
    BY <2>1, SumOfIsFold
  <2>3. PICK k : k = [s \in SUBSET T |-> g[s]]
    OBVIOUS
  <2>4. IsSumOn(k, f, T)
    BY <1>1, <2>3, SumOfPart
  <2>5. h = k
    BY <2>1, <2>2, <2>4, SumIsUnique
  <2> QED
    BY <2>2, <2>3, <2>5
<1> QED
  BY <1>1, <1>2

LEMMA SumEmpty == \A f : SumOf(f, {}) = 0
<1> SUFFICES ASSUME NEW f PROVE SumOf(f, {}) = 0
  OBVIOUS
<1>1. PICK g : IsSumOn(g, f, {}) /\ SumOf(f, {}) = g[{}]
  BY SumOfIsFold, FS_EmptySet
<1> QED
  BY <1>1 DEF IsSumOn, SumStep

LEMMA SumType ==
  ASSUME NEW S, IsFiniteSet(S), NEW f, \A x \in S : f[x] \in Int
  PROVE  SumOf(f, S) \in Int
BY SumTable

LEMMA SumTake ==
  ASSUME NEW S, IsFiniteSet(S), NEW f, \A x \in S : f[x] \in Int, NEW x \in S
  PROVE  SumOf(f, S) = f[x] + SumOf(f, S \ {x})
<1>1. PICK g : /\ IsSumOn(g, f, S)
               /\ \A T \in SUBSET S : g[T] \in Int /\ SumOf(f, T) = g[T]
  BY SumTable
<1>2. g[S] = f[x] + g[S \ {x}]
  BY <1>1, SumInAnyOrder
<1> QED
  BY <1>1, <1>2

LEMMA SumAdd ==
  ASSUME NEW S, IsFiniteSet(S), NEW f, \A y \in S : f[y] \in Int,
         NEW x, x \notin S, f[x] \in Int
  PROVE  SumOf(f, S \cup {x}) = SumOf(f, S) + f[x]
<1>1. IsFiniteSet(S \cup {x}) /\ (S \cup {x}) \ {x} = S
  BY FS_AddElement
<1>2. SumOf(f, S \cup {x}) = f[x] + SumOf(f, S)
  BY <1>1, SumTake
<1> QED
  BY <1>2, SumType

(* The sum depends on the values in S only.                                  *)
LEMMA SumSame ==
  ASSUME NEW S, IsFiniteSet(S), NEW f, \A x \in S : f[x] \in Int,
         NEW h, \A x \in S : h[x] = f[x]
  PROVE  SumOf(h, S) = SumOf(f, S)
<1>1. PICK g : IsSumOn(g, f, S) /\ SumOf(f, S) = g[S]
  BY SumOfIsFold
<1>2. PICK k : IsSumOn(k, h, S) /\ SumOf(h, S) = k[S]
  BY SumOfIsFold
<1>3. \A s \in SUBSET S : SumStep(f, g, s) = SumStep(h, g, s)
  BY FirstIsElement DEF SumStep
<1>4. IsSumOn(g, h, S)
  BY <1>1, <1>3 DEF IsSumOn
<1> QED
  BY <1>1, <1>2, <1>4, SumIsUnique

(* What one element loses another one of the set gains: the sum stays.       *)
LEMMA SumMoved ==
  ASSUME NEW S, IsFiniteSet(S), NEW f, \A z \in S : f[z] \in Int,
         NEW n \in Int, NEW x \in S, NEW y \in S, x # y,
         NEW g, g[x] = f[x] - n, g[y] = f[y] + n,
         \A z \in S \ {x, y} : g[z] = f[z]
  PROVE  SumOf(g, S) = SumOf(f, S)
<1> DEFINE Rest == (S \ {x}) \ {y}
<1>1. /\ IsFiniteSet(S \ {x}) /\ IsFiniteSet(Rest) /\ y \in S \ {x}
      /\ f[x] \in Int /\ f[y] \in Int /\ \A z \in S \ {x} : f[z] \in Int
      /\ \A z \in S : g[z] \in Int
  BY FS_RemoveElement
<1>2. \A z \in S \ {x} : g[z] \in Int
  BY <1>1
<1>3. SumOf(f, S) = f[x] + (f[y] + SumOf(f, Rest))
  BY <1>1, SumTake
<1>4. SumOf(g, S \ {x}) = g[y] + SumOf(g, Rest)
  BY <1>1, <1>2, SumTake
<1>5. SumOf(g, S) = g[x] + SumOf(g, S \ {x})
  BY <1>1, SumTake
<1>6. SumOf(g, Rest) = SumOf(f, Rest)
  <2>1. \A z \in Rest : f[z] \in Int /\ g[z] = f[z]
    BY <1>1
  <2> HIDE DEF Rest
  <2> QED
    BY <1>1, <2>1, SumSame
<1>7. SumOf(f, Rest) \in Int
  <2>1. \A z \in Rest : f[z] \in Int
    BY <1>1
  <2> HIDE DEF Rest
  <2> QED
    BY <1>1, <2>1, SumType
<1> HIDE DEF Rest
<1> QED
  BY <1>1, <1>3, <1>4, <1>5, <1>6, <1>7

-----------------------------------------------------------------------------
(* Sums of the field amount of a set of rows.                                *)

AmountsOf(S) == [e \in S |-> e.amount]

LEMMA AmountSum ==
  ASSUME NEW S, IsFiniteSet(S), \A e \in S : e.amount \in Int
  PROVE  MapThenSumSet(LAMBDA e : e.amount, S) = SumOf(AmountsOf(S), S)
<1> DEFINE f == AmountsOf(S)
           Step(g, s) == IF s = {} THEN 0
                         ELSE First(s).amount + g[s \ {First(s)}]
           Fits(g) == g = [s \in SUBSET S |-> Step(g, s)]
           Iter == CHOOSE g : Fits(g)
<1>1. MapThenSumSet(LAMBDA e : e.amount, S) = Iter[S]
  BY DEF MapThenSumSet, MapThenFoldSet, First
<1>2. PICK g : IsSumOn(g, f, S) /\ SumOf(f, S) = g[S]
  BY SumOfIsFold DEF AmountsOf
<1>3. \A h : \A s \in SUBSET S : Step(h, s) = SumStep(f, h, s)
  BY FirstIsElement DEF SumStep, AmountsOf
<1>4. \A h : Fits(h) <=> IsSumOn(h, f, S)
  BY <1>3 DEF IsSumOn
<1>5. Fits(Iter)
  BY <1>2, <1>4
<1>6. Iter = g
  BY <1>2, <1>4, <1>5, SumIsUnique
<1> QED
  BY <1>1, <1>2, <1>6

(* A row more adds its amount.                                               *)
TotalAmount(S) == MapThenSumSet(LAMBDA e : e.amount, S)

LEMMA TotalOfNone == TotalAmount({}) = 0
BY AmountSum, SumEmpty, FS_EmptySet DEF TotalAmount

LEMMA TotalOfOneMore ==
  ASSUME NEW S, IsFiniteSet(S), \A e \in S : e.amount \in Int,
         NEW row, row \notin S, row.amount \in Int
  PROVE  TotalAmount(S \cup {row}) = TotalAmount(S) + row.amount
<1> DEFINE f == AmountsOf(S \cup {row})
<1>1. IsFiniteSet(S \cup {row}) /\ \A e \in S \cup {row} : e.amount \in Int
  BY FS_AddElement
<1>2. TotalAmount(S \cup {row}) = SumOf(f, S \cup {row})
  BY <1>1, AmountSum DEF TotalAmount
<1>3. TotalAmount(S) = SumOf(AmountsOf(S), S)
  BY AmountSum DEF TotalAmount
<1>4. /\ \A e \in S : f[e] = AmountsOf(S)[e] /\ f[e] \in Int /\ AmountsOf(S)[e] \in Int
      /\ f[row] = row.amount /\ f[row] \in Int
  BY <1>1 DEF AmountsOf
<1>5. SumOf(f, S) = SumOf(AmountsOf(S), S)
  BY <1>4, SumSame
<1>6. SumOf(f, S \cup {row}) = SumOf(f, S) + f[row]
  <2> HIDE DEF f
  <2> QED
    BY <1>4, SumAdd
<1> QED
  BY <1>2, <1>3, <1>4, <1>5, <1>6

=============================================================================
