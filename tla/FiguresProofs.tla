---------------------------- MODULE FiguresProofs ----------------------------
(***************************************************************************)
(* Proofs about Dashboards, for any rows and any questions: what holds of  *)
(* an answer that no change overlapped, the room it shows, what different  *)
(* services count alike and that its figures are of one piece.             *)
(*                                                                         *)
(* The figures of such an answer are those of one database (MomentsInv),   *)
(* so what is left is a fact about the reads: each clause of a property    *)
(* holds of DashboardReads(d, q) for every database whose rows stand and   *)
(* every question.  Totals are sums of functions over finite sets; what    *)
(* the proofs need of them is shown first, by taking a least counter-      *)
(* example, for the induction theorems of the library are out of reach.    *)
(***************************************************************************)
EXTENDS DashboardsProofs, SequenceTheorems
-----------------------------------------------------------------------------
(* Sums over finite sets. *)

\* A set of natural numbers that is not empty has a least one.
LEMMA LeastNatural ==
  ASSUME NEW T \in SUBSET Nat, T # {}
  PROVE  \E n \in T : \A m \in T : n <= m
<1>1. IsWellFoundedOn(OpToRel(<, Nat), Nat)
  BY NatLessThanWellFounded
<1>2. PICK n \in T : \A m \in T : ~(<<m, n>> \in OpToRel(<, Nat))
  BY <1>1, WFMin
<1>3. \A m \in T : ~(m < n)
  BY <1>2 DEF OpToRel
<1> QED
  BY <1>3

\* What holds of 0, and of the next number where it holds of one, holds of all.
LEMMA CountUp ==
  ASSUME NEW Good, 0 \in Good, \A n \in Nat : n \in Good => n + 1 \in Good
  PROVE  Nat \subseteq Good
<1> SUFFICES ASSUME Nat \ Good # {}
             PROVE  FALSE
  OBVIOUS
<1>1. PICK n \in Nat \ Good : \A m \in Nat \ Good : n <= m
  BY LeastNatural
<1>2. n # 0 /\ n - 1 \in Nat /\ n - 1 \in Good
  BY <1>1
<1> QED
  BY <1>2

\* What holds of the empty set, and of a set with one more element where it
\* holds of the set, holds of every finite set.
LEMMA BuildUp ==
  ASSUME NEW S, IsFiniteSet(S), NEW Good, {} \in Good,
         \A T \in SUBSET S : \A x \in S \ T : T \in Good => T \cup {x} \in Good
  PROVE  S \in Good
<1> DEFINE Sizes == {n \in Nat : \A T \in SUBSET S : Cardinality(T) = n => T \in Good}
<1>1. 0 \in Sizes
  BY FS_EmptySet, FS_Subset
<1>2. ASSUME NEW n \in Nat, n \in Sizes
      PROVE  n + 1 \in Sizes
  <2> SUFFICES ASSUME NEW T \in SUBSET S, Cardinality(T) = n + 1
               PROVE  T \in Good
    BY <1>2
  <2>1. IsFiniteSet(T) /\ T # {}
    BY FS_Subset, FS_EmptySet
  <2>2. PICK x \in T : TRUE
    BY <2>1
  <2>3. Cardinality(T \ {x}) = n
    <3>1. Cardinality(T \ {x}) = Cardinality(T) - 1
      BY <2>1, FS_RemoveElement
    <3> QED
      BY <3>1
  <2>4. T \ {x} \in Good
    BY <1>2, <2>3
  <2>5. (T \ {x}) \cup {x} = T
    OBVIOUS
  <2> QED
    BY <2>4, <2>5
<1> HIDE DEF Sizes
<1>3. Cardinality(S) \in Sizes
  BY <1>1, <1>2, CountUp, FS_CardinalityType
<1> QED
  BY <1>3 DEF Sizes

\* The sum of the values of a function is added up one element at a time.
Picked(s) == CHOOSE x \in s : TRUE

\* Sum(f, S) adds up what f gives for the elements of S.
Sum(f, S) == SumFunctionOnSet(f, S)

Adds(g, f, S) ==
  g = [s \in SUBSET S |-> IF s = {} THEN 0
                          ELSE f[Picked(s)] + g[s \ {Picked(s)}]]

LEMMA SumDefined ==
  ASSUME NEW f, NEW S, IsFiniteSet(S)
  PROVE  \E g : Adds(g, f, S)
<1> DEFINE Sub(n) == {s \in SUBSET S : Cardinality(s) <= n}
           Fits(g, n) == g = [s \in Sub(n) |->
                                IF s = {} THEN 0
                                ELSE f[Picked(s)] + g[s \ {Picked(s)}]]
           Sizes == {n \in Nat : \E g : Fits(g, n)}
<1>0. \A s \in SUBSET S : /\ Cardinality(s) \in Nat
                          /\ s # {} => /\ Picked(s) \in s
                                       /\ Cardinality(s \ {Picked(s)}) = Cardinality(s) - 1
                                       /\ s \ {Picked(s)} \in SUBSET S
  BY FS_Subset, FS_CardinalityType, FS_RemoveElement DEF Picked
<1>1. 0 \in Sizes
  <2> DEFINE g == [s \in Sub(0) |-> 0]
  <2>1. \A s \in Sub(0) : s = {}
    BY FS_Subset, FS_EmptySet, FS_CardinalityType
  <2>2. Fits(g, 0)
    BY <2>1
  <2> QED
    BY <2>2
<1>2. ASSUME NEW n \in Nat, n \in Sizes
      PROVE  n + 1 \in Sizes
  <2>1. PICK h : Fits(h, n)
    BY <1>2
  <2> DEFINE g == [s \in Sub(n + 1) |->
                     IF s = {} THEN 0
                     ELSE f[Picked(s)] + h[s \ {Picked(s)}]]
  <2>2. \A s \in Sub(n) : s \in Sub(n + 1) /\ g[s] = h[s]
    <3> TAKE s \in Sub(n)
    <3>1. s \in Sub(n + 1)
      <4>1. s \in SUBSET S /\ Cardinality(s) \in Nat /\ Cardinality(s) <= n
        BY <1>0
      <4> QED
        BY <4>1
    <3>2. g[s] = IF s = {} THEN 0 ELSE f[Picked(s)] + h[s \ {Picked(s)}]
      BY <3>1
    <3>3. h[s] = IF s = {} THEN 0 ELSE f[Picked(s)] + h[s \ {Picked(s)}]
      BY <2>1
    <3> QED
      BY <3>1, <3>2, <3>3
  <2>3. \A s \in Sub(n + 1) : s # {} => s \ {Picked(s)} \in Sub(n)
    BY <1>0
  <2>4. Fits(g, n + 1)
    BY <2>2, <2>3
  <2> HIDE DEF g, Fits
  <2>5. \E k : Fits(k, n + 1)
    BY <2>4
  <2> QED
    BY <2>5
<1> HIDE DEF Sizes
<1>3. Cardinality(S) \in Sizes
  BY <1>1, <1>2, CountUp, FS_CardinalityType
<1>4. Sub(Cardinality(S)) = SUBSET S
  BY FS_Subset
<1>5. PICK g : Fits(g, Cardinality(S))
  BY <1>3 DEF Sizes
<1> QED
  BY <1>4, <1>5 DEF Adds

LEMMA SumUnfolds ==
  ASSUME NEW f, NEW S, IsFiniteSet(S)
  PROVE  \E g : Adds(g, f, S) /\ Sum(f, S) = g[S]
<1>1. Sum(f, S) = (CHOOSE g : g = [s \in SUBSET S |->
                                     IF s = {} THEN 0
                                     ELSE f[Picked(s)] + g[s \ {Picked(s)}]])[S]
  BY DEF Sum, SumFunctionOnSet, FoldFunctionOnSet, MapThenFoldSet, Picked
<1>2. Sum(f, S) = (CHOOSE g : Adds(g, f, S))[S]
  BY <1>1 DEF Adds
<1>3. \E g : Adds(g, f, S)
  BY SumDefined
<1>4. Adds(CHOOSE g : Adds(g, f, S), f, S)
  BY <1>3
<1> QED
  BY <1>2, <1>4

\* Every subset of a finite set is finite, and smaller without one of its elements.
LEMMA Smaller ==
  ASSUME NEW S, IsFiniteSet(S), NEW T \in SUBSET S
  PROVE  /\ IsFiniteSet(T) /\ Cardinality(T) \in Nat
         /\ \A x \in T : Cardinality(T \ {x}) = Cardinality(T) - 1
         /\ T # {} => Picked(T) \in T /\ Cardinality(T) > 0
         /\ Cardinality(T) > 0 => T # {}
<1>1. IsFiniteSet(T)
  BY FS_Subset
<1> QED
  BY <1>1, FS_CardinalityType, FS_RemoveElement, FS_EmptySet DEF Picked

LEMMA SumAlike ==
  ASSUME NEW f, NEW S, IsFiniteSet(S), NEW g, Adds(g, f, S),
         NEW R \in SUBSET S, NEW h, Adds(h, f, R)
  PROVE  \A T \in SUBSET R : g[T] = h[T]
<1> DEFINE Sizes == {n \in Nat : \A T \in SUBSET R : Cardinality(T) = n => g[T] = h[T]}
<1>1. \A T \in SUBSET R : g[T] = IF T = {} THEN 0
                                 ELSE f[Picked(T)] + g[T \ {Picked(T)}]
  BY DEF Adds
<1>2. \A T \in SUBSET R : h[T] = IF T = {} THEN 0
                                 ELSE f[Picked(T)] + h[T \ {Picked(T)}]
  BY DEF Adds
<1>3. 0 \in Sizes
  <2>1. \A T \in SUBSET R : Cardinality(T) = 0 => T = {}
    BY Smaller
  <2> QED
    BY <1>1, <1>2, <2>1
<1>4. ASSUME NEW n \in Nat, n \in Sizes
      PROVE  n + 1 \in Sizes
  <2> SUFFICES ASSUME NEW T \in SUBSET R, Cardinality(T) = n + 1
               PROVE  g[T] = h[T]
    OBVIOUS
  <2>1. T # {} /\ Picked(T) \in T /\ Cardinality(T \ {Picked(T)}) = n
    <3>1. Cardinality(T) > 0 /\ Cardinality(T) - 1 = n
      OBVIOUS
    <3> QED
      BY <3>1, Smaller
  <2>2. g[T \ {Picked(T)}] = h[T \ {Picked(T)}]
    BY <1>4, <2>1
  <2> QED
    BY <1>1, <1>2, <2>1, <2>2
<1> HIDE DEF Sizes
<1>5. \A T \in SUBSET R : Cardinality(T) \in Sizes
  BY <1>3, <1>4, CountUp, Smaller
<1> QED
  BY <1>5 DEF Sizes

LEMMA SumParts ==
  ASSUME NEW f, NEW S, IsFiniteSet(S)
  PROVE  \E g : Adds(g, f, S) /\ \A T \in SUBSET S : Sum(f, T) = g[T]
<1>1. PICK g : Adds(g, f, S)
  BY SumUnfolds
<1>2. ASSUME NEW T \in SUBSET S
      PROVE  Sum(f, T) = g[T]
  <2>1. PICK h : Adds(h, f, T) /\ Sum(f, T) = h[T]
    BY SumUnfolds, FS_Subset
  <2> QED
    BY <1>1, <2>1, SumAlike
<1> QED
  BY <1>1, <1>2

LEMMA SumPicked ==
  ASSUME NEW f, NEW S, IsFiniteSet(S)
  PROVE  Sum(f, S) = IF S = {} THEN 0
                     ELSE f[Picked(S)] + Sum(f, S \ {Picked(S)})
<1>1. PICK g : Adds(g, f, S) /\ \A T \in SUBSET S : Sum(f, T) = g[T]
  BY SumParts
<1>2. g[S] = IF S = {} THEN 0 ELSE f[Picked(S)] + g[S \ {Picked(S)}]
  BY <1>1 DEF Adds
<1> QED
  BY <1>1, <1>2

\* A sum of whole numbers is one.
LEMMA SumWhole ==
  ASSUME NEW f, NEW S, IsFiniteSet(S), \A x \in S : f[x] \in Int
  PROVE  \A T \in SUBSET S : Sum(f, T) \in Int
<1> DEFINE Sizes == {n \in Nat : \A T \in SUBSET S :
                                   Cardinality(T) = n => Sum(f, T) \in Int}
<1>1. \A T \in SUBSET S : Sum(f, T) = IF T = {} THEN 0
                                      ELSE f[Picked(T)] + Sum(f, T \ {Picked(T)})
  BY SumPicked, Smaller
<1>2. 0 \in Sizes
  <2>1. \A T \in SUBSET S : Cardinality(T) = 0 => T = {}
    BY Smaller
  <2>2. Sum(f, {}) = 0
    BY <1>1
  <2> QED
    BY <2>1, <2>2
<1>3. ASSUME NEW n \in Nat, n \in Sizes
      PROVE  n + 1 \in Sizes
  <2> SUFFICES ASSUME NEW T \in SUBSET S, Cardinality(T) = n + 1
               PROVE  Sum(f, T) \in Int
    OBVIOUS
  <2>1. T # {} /\ Picked(T) \in T /\ Cardinality(T \ {Picked(T)}) = n
    <3>1. Cardinality(T) > 0 /\ Cardinality(T) - 1 = n
      OBVIOUS
    <3> QED
      BY <3>1, Smaller
  <2>2. Sum(f, T \ {Picked(T)}) \in Int
    BY <1>3, <2>1
  <2> QED
    BY <1>1, <2>1, <2>2
<1> HIDE DEF Sizes
<1>4. \A T \in SUBSET S : Cardinality(T) \in Sizes
  BY <1>2, <1>3, CountUp, Smaller
<1> QED
  BY <1>4 DEF Sizes

\* Any of the numbers may be taken out of a sum first.
LEMMA SumWithout ==
  ASSUME NEW f, NEW S, IsFiniteSet(S), \A x \in S : f[x] \in Int
  PROVE  \A x \in S : Sum(f, S) = f[x] + Sum(f, S \ {x})
<1> DEFINE Fine(T) == \A x \in T : Sum(f, T) = f[x] + Sum(f, T \ {x})
           Sizes == {n \in Nat : \A T \in SUBSET S : Cardinality(T) = n => Fine(T)}
<1>1. \A T \in SUBSET S : Sum(f, T) = IF T = {} THEN 0
                                      ELSE f[Picked(T)] + Sum(f, T \ {Picked(T)})
  BY SumPicked, Smaller
<1>2. 0 \in Sizes
  <2>1. \A T \in SUBSET S : Cardinality(T) = 0 => T = {}
    BY Smaller
  <2> QED
    BY <2>1
<1>3. ASSUME NEW n \in Nat, n \in Sizes
      PROVE  n + 1 \in Sizes
  <2> SUFFICES ASSUME NEW T \in SUBSET S, Cardinality(T) = n + 1
               PROVE  Fine(T)
    OBVIOUS
  <2> DEFINE p == Picked(T)
  <2>1. T # {} /\ p \in T /\ \A x \in T : Cardinality(T \ {x}) = n
    <3>1. Cardinality(T) > 0 /\ Cardinality(T) - 1 = n
      OBVIOUS
    <3> QED
      BY <3>1, Smaller
  <2>2. \A x \in T : Fine(T \ {x})
    BY <1>3, <2>1
  <2>3. Sum(f, T) = f[p] + Sum(f, T \ {p})
    BY <1>1, <2>1
  <2> HIDE DEF p
  <2>4. ASSUME NEW x \in T, x # p
        PROVE  Sum(f, T) = f[x] + Sum(f, T \ {x})
    <3>1. Sum(f, T \ {p}) = f[x] + Sum(f, (T \ {p}) \ {x})
      BY <2>1, <2>2, <2>4
    <3>2. Sum(f, T \ {x}) = f[p] + Sum(f, (T \ {x}) \ {p})
      BY <2>1, <2>2, <2>4
    <3>3. Sum(f, (T \ {p}) \ {x}) = Sum(f, (T \ {x}) \ {p})
      <4>1. (T \ {p}) \ {x} = (T \ {x}) \ {p}
        OBVIOUS
      <4> QED
        BY <4>1
    <3>4. f[x] \in Int /\ f[p] \in Int
      BY <2>1
    <3>5. Sum(f, (T \ {x}) \ {p}) \in Int
      BY SumWhole
    <3> QED
      BY <2>3, <3>1, <3>2, <3>3, <3>4, <3>5
  <2> QED
    BY <2>3, <2>4
<1> HIDE DEF Sizes
<1>4. Cardinality(S) \in Sizes
  BY <1>2, <1>3, CountUp, Smaller
<1> QED
  BY <1>4 DEF Sizes

LEMMA SumOfNone ==
  ASSUME NEW f
  PROVE  Sum(f, {}) = 0
BY SumPicked, FS_EmptySet

LEMMA SumOfMore ==
  ASSUME NEW f, NEW S, IsFiniteSet(S), NEW x, x \notin S,
         \A y \in S \cup {x} : f[y] \in Int
  PROVE  /\ Sum(f, S \cup {x}) = f[x] + Sum(f, S)
         /\ f[x] \in Int /\ Sum(f, S) \in Int
<1>1. IsFiniteSet(S \cup {x})
  BY FS_AddElement
<1>2. Sum(f, S \cup {x}) = f[x] + Sum(f, (S \cup {x}) \ {x})
  BY <1>1, SumWithout
<1>3. (S \cup {x}) \ {x} = S
  OBVIOUS
<1> QED
  BY <1>2, <1>3, SumWhole

\* The sum depends on nothing but the values it adds up.
LEMMA SumOfSame ==
  ASSUME NEW f, NEW g, NEW S, IsFiniteSet(S), \A x \in S : f[x] \in Int /\ f[x] = g[x]
  PROVE  Sum(f, S) = Sum(g, S)
<1> DEFINE Good == {T \in SUBSET S : Sum(f, T) = Sum(g, T)}
<1>1. {} \in Good
  BY SumOfNone
<1>2. ASSUME NEW T \in SUBSET S, NEW x \in S \ T, T \in Good
      PROVE  T \cup {x} \in Good
  <2>1. IsFiniteSet(T)
    BY FS_Subset
  <2>2. Sum(f, T \cup {x}) = f[x] + Sum(f, T) /\ Sum(g, T \cup {x}) = g[x] + Sum(g, T)
    BY <2>1, SumOfMore
  <2> QED
    BY <1>2, <2>2
<1> HIDE DEF Good
<1>3. S \in Good
  BY <1>1, <1>2, BuildUp
<1> QED
  BY <1>3 DEF Good

\* No sum of numbers is below that of smaller ones, and adding none below zero
\* makes it no smaller.
LEMMA SumBelow ==
  ASSUME NEW f, NEW g, NEW S, IsFiniteSet(S),
         \A x \in S : f[x] \in Int /\ g[x] \in Int /\ f[x] <= g[x]
  PROVE  Sum(f, S) <= Sum(g, S)
<1> DEFINE Good == {T \in SUBSET S : Sum(f, T) <= Sum(g, T)}
<1>1. {} \in Good
  BY SumOfNone
<1>2. ASSUME NEW T \in SUBSET S, NEW x \in S \ T, T \in Good
      PROVE  T \cup {x} \in Good
  <2>1. IsFiniteSet(T)
    BY FS_Subset
  <2>2. /\ Sum(f, T \cup {x}) = f[x] + Sum(f, T) /\ Sum(f, T) \in Int
        /\ Sum(g, T \cup {x}) = g[x] + Sum(g, T) /\ Sum(g, T) \in Int
    BY <2>1, SumOfMore
  <2>3. f[x] \in Int /\ g[x] \in Int /\ f[x] <= g[x] /\ Sum(f, T) <= Sum(g, T)
    BY <1>2
  <2>4. Sum(f, T \cup {x}) <= Sum(g, T \cup {x})
    BY <2>2, <2>3
  <2> QED
    BY <2>4
<1> HIDE DEF Good
<1>3. S \in Good
  BY <1>1, <1>2, BuildUp
<1> QED
  BY <1>3 DEF Good

\* A sum of values between two bounds is between as many times the bounds.
LEMMA SumBetween ==
  ASSUME NEW f, NEW S, IsFiniteSet(S), NEW low \in Int, NEW high \in Int,
         \A x \in S : f[x] \in Int /\ low <= f[x] /\ f[x] <= high
  PROVE  /\ Sum(f, S) \in Int
         /\ low * Cardinality(S) <= Sum(f, S) /\ Sum(f, S) <= high * Cardinality(S)
<1> DEFINE Good == {T \in SUBSET S : /\ low * Cardinality(T) <= Sum(f, T)
                                     /\ Sum(f, T) <= high * Cardinality(T)}
<1>1. {} \in Good
  BY SumOfNone, FS_EmptySet
<1>2. ASSUME NEW T \in SUBSET S, NEW x \in S \ T, T \in Good
      PROVE  T \cup {x} \in Good
  <2>1. IsFiniteSet(T) /\ Cardinality(T) \in Nat
        /\ Cardinality(T \cup {x}) = Cardinality(T) + 1
    BY FS_Subset, FS_AddElement, FS_CardinalityType
  <2>2. Sum(f, T \cup {x}) = f[x] + Sum(f, T) /\ Sum(f, T) \in Int
    BY <2>1, SumOfMore
  <2>3. /\ f[x] \in Int /\ low <= f[x] /\ f[x] <= high
        /\ low * Cardinality(T) <= Sum(f, T) /\ Sum(f, T) <= high * Cardinality(T)
    BY <1>2
  <2> DEFINE n == Cardinality(T)
             m == Sum(f, T)
             v == f[x]
  <2>4. low * (n + 1) <= v + m /\ v + m <= high * (n + 1)
    <3>1. n \in Nat /\ m \in Int /\ v \in Int
      BY <2>1, <2>2, <2>3
    <3>2. low <= v /\ v <= high /\ low * n <= m /\ m <= high * n
      BY <2>3
    <3> HIDE DEF n, m, v
    <3> QED
      BY <3>1, <3>2
  <2> QED
    BY <2>1, <2>2, <2>4
<1> HIDE DEF Good
<1>3. S \in Good
  BY <1>1, <1>2, BuildUp
<1> QED
  BY <1>3, SumWhole DEF Good

LEMMA SumOfNaturals ==
  ASSUME NEW f, NEW S, IsFiniteSet(S), \A x \in S : f[x] \in Nat
  PROVE  Sum(f, S) \in Nat
<1> DEFINE Good == {T \in SUBSET S : Sum(f, T) \in Nat}
<1>1. {} \in Good
  BY SumOfNone
<1>2. ASSUME NEW T \in SUBSET S, NEW x \in S \ T, T \in Good
      PROVE  T \cup {x} \in Good
  <2>1. IsFiniteSet(T)
    BY FS_Subset
  <2>2. Sum(f, T \cup {x}) = f[x] + Sum(f, T)
    BY <2>1, SumOfMore
  <2>3. f[x] \in Nat /\ Sum(f, T) \in Nat
    BY <1>2
  <2> QED
    BY <2>2, <2>3
<1> HIDE DEF Good
<1>3. S \in Good
  BY <1>1, <1>2, BuildUp
<1> QED
  BY <1>3 DEF Good

\* Elements without values add nothing, and ones add up to the number of elements.
LEMMA SumOfOnes ==
  ASSUME NEW f, NEW S, IsFiniteSet(S), \A x \in S : f[x] = 1
  PROVE  Sum(f, S) = Cardinality(S)
<1>1. \A x \in S : f[x] \in Int /\ 1 <= f[x] /\ f[x] <= 1
  OBVIOUS
<1>2. /\ Sum(f, S) \in Int
      /\ 1 * Cardinality(S) <= Sum(f, S) /\ Sum(f, S) <= 1 * Cardinality(S)
  BY <1>1, SumBetween
<1> QED
  BY <1>2, FS_CardinalityType

\* Two sets that share nothing are added up one after the other.
LEMMA SumOfBoth ==
  ASSUME NEW f, NEW R, NEW S, IsFiniteSet(R), IsFiniteSet(S), R \cap S = {},
         \A x \in R \cup S : f[x] \in Int
  PROVE  Sum(f, R \cup S) = Sum(f, R) + Sum(f, S)
<1> DEFINE Good == {T \in SUBSET S : Sum(f, R \cup T) = Sum(f, R) + Sum(f, T)}
<1>1. {} \in Good
  <2>1. R \cup {} = R /\ Sum(f, R) \in Int
    BY SumWhole
  <2> QED
    BY <2>1, SumOfNone
<1>2. ASSUME NEW T \in SUBSET S, NEW x \in S \ T, T \in Good
      PROVE  T \cup {x} \in Good
  <2>1. IsFiniteSet(T) /\ IsFiniteSet(R \cup T) /\ x \notin R \cup T
    BY FS_Subset, FS_Union
  <2>2. Sum(f, T \cup {x}) = f[x] + Sum(f, T) /\ Sum(f, T) \in Int
    BY <2>1, SumOfMore
  <2>3. Sum(f, (R \cup T) \cup {x}) = f[x] + Sum(f, R \cup T)
    BY <2>1, SumOfMore
  <2>4. R \cup (T \cup {x}) = (R \cup T) \cup {x}
    OBVIOUS
  <2>5. Sum(f, R \cup T) = Sum(f, R) + Sum(f, T) /\ Sum(f, R) \in Int /\ f[x] \in Int
    BY <1>2, SumWhole
  <2>6. Sum(f, R \cup (T \cup {x})) = f[x] + Sum(f, R \cup T)
    BY <2>3, <2>4
  <2>7. Sum(f, R \cup (T \cup {x})) = Sum(f, R) + Sum(f, T \cup {x})
    BY ONLY <2>2, <2>5, <2>6
  <2> QED
    BY <2>7
<1> HIDE DEF Good
<1>3. S \in Good
  BY <1>1, <1>2, BuildUp
<1> QED
  BY <1>3 DEF Good

LEMMA SumOfPart ==
  ASSUME NEW f, NEW S, IsFiniteSet(S), \A x \in S : f[x] \in Nat, NEW T \in SUBSET S
  PROVE  Sum(f, T) \in Nat /\ Sum(f, S) \in Nat /\ Sum(f, T) <= Sum(f, S)
<1>1. IsFiniteSet(T) /\ IsFiniteSet(S \ T) /\ T \cup (S \ T) = S
  BY FS_Subset
<1>2. Sum(f, T \cup (S \ T)) = Sum(f, T) + Sum(f, S \ T)
  BY <1>1, SumOfBoth
<1>3. Sum(f, T) \in Nat /\ Sum(f, S \ T) \in Nat
  BY <1>1, SumOfNaturals
<1>4. Sum(f, S) = Sum(f, T) + Sum(f, S \ T)
  BY ONLY <1>1, <1>2
<1> QED
  BY ONLY <1>3, <1>4

\* The elements that are in one of the parts.
InParts(S, parts, V) == {x \in S : \E v \in V : x \in parts[v]}

\* The sums of parts that share nothing add up to the sum of what is in them.
LEMMA SumOfParts ==
  ASSUME NEW f, NEW S, IsFiniteSet(S), \A x \in S : f[x] \in Int,
         NEW V, IsFiniteSet(V), NEW parts, \A v \in V : parts[v] \in SUBSET S,
         \A v, w \in V : v # w => parts[v] \cap parts[w] = {},
         NEW g, \A v \in V : g[v] = Sum(f, parts[v])
  PROVE  Sum(g, V) = Sum(f, InParts(S, parts, V))
<1> DEFINE Good == {W \in SUBSET V : Sum(g, W) = Sum(f, InParts(S, parts, W))}
<1>1. {} \in Good
  <2>1. InParts(S, parts, {}) = {}
    BY DEF InParts
  <2> QED
    BY <2>1, SumOfNone
<1>2. ASSUME NEW W \in SUBSET V, NEW v \in V \ W, W \in Good
      PROVE  W \cup {v} \in Good
  <2>1. IsFiniteSet(W) /\ IsFiniteSet(parts[v]) /\ IsFiniteSet(InParts(S, parts, W))
    BY FS_Subset DEF InParts
  <2>2. \A w \in W \cup {v} : g[w] \in Int
    BY SumWhole
  <2>3. Sum(g, W \cup {v}) = g[v] + Sum(g, W) /\ g[v] \in Int /\ Sum(g, W) \in Int
    BY <2>1, <2>2, SumOfMore
  <2>4. /\ InParts(S, parts, W \cup {v}) = parts[v] \cup InParts(S, parts, W)
        /\ parts[v] \cap InParts(S, parts, W) = {}
    BY DEF InParts
  <2>5. Sum(f, InParts(S, parts, W \cup {v}))
          = Sum(f, parts[v]) + Sum(f, InParts(S, parts, W))
    BY <2>1, <2>4, SumOfBoth DEF InParts
  <2>6. Sum(g, W) = Sum(f, InParts(S, parts, W))
    BY <1>2
  <2>7. Sum(g, W \cup {v}) = Sum(f, InParts(S, parts, W \cup {v}))
    BY <2>3, <2>5, <2>6
  <2> QED
    BY <2>7
<1> HIDE DEF Good
<1>3. V \in Good
  BY <1>1, <1>2, BuildUp
<1> QED
  BY <1>3 DEF Good

\* So do the numbers of elements of parts that share nothing.
LEMMA CountOfParts ==
  ASSUME NEW S, IsFiniteSet(S), NEW V, IsFiniteSet(V),
         NEW parts, \A v \in V : parts[v] \in SUBSET S,
         \A v, w \in V : v # w => parts[v] \cap parts[w] = {},
         NEW g, \A v \in V : g[v] = Cardinality(parts[v])
  PROVE  Sum(g, V) = Cardinality(InParts(S, parts, V))
<1> DEFINE one == [x \in S |-> 1]
<1>1. \A T \in SUBSET S : Sum(one, T) = Cardinality(T)
  BY SumOfOnes, FS_Subset
<1>2. \A x \in S : one[x] \in Int
  OBVIOUS
<1> HIDE DEF one
<1>3. \A v \in V : g[v] = Sum(one, parts[v])
  BY <1>1
<1>4. Sum(g, V) = Sum(one, InParts(S, parts, V))
  BY <1>2, <1>3, SumOfParts
<1> QED
  BY <1>1, <1>4 DEF InParts

\* There are no more keys than elements.
LEMMA KeysFinite ==
  ASSUME NEW S, IsFiniteSet(S), NEW key
  PROVE  IsFiniteSet({key[x] : x \in S})
<1> DEFINE Good == {T \in SUBSET S : IsFiniteSet({key[x] : x \in T})}
<1>1. {} \in Good
  <2>1. {key[x] : x \in {}} = {}
    OBVIOUS
  <2> QED
    BY <2>1, FS_EmptySet
<1>2. ASSUME NEW T \in SUBSET S, NEW y \in S \ T, T \in Good
      PROVE  T \cup {y} \in Good
  <2>1. {key[x] : x \in T \cup {y}} = {key[x] : x \in T} \cup {key[y]}
    OBVIOUS
  <2>2. IsFiniteSet({key[x] : x \in T} \cup {key[y]})
    BY <1>2, FS_AddElement
  <2> QED
    BY <2>1, <2>2
<1> HIDE DEF Good
<1>3. S \in Good
  BY <1>1, <1>2, BuildUp
<1> QED
  BY <1>3 DEF Good

\* Where every element has a key, the sums for each key add up to the sum of the
\* elements that have one of the keys.
LEMMA SumByKey ==
  ASSUME NEW S, IsFiniteSet(S), NEW f, \A x \in S : f[x] \in Int,
         NEW V, IsFiniteSet(V), NEW key,
         NEW g, \A v \in V : g[v] = Sum(f, {x \in S : key[x] = v})
  PROVE  Sum(g, V) = Sum(f, {x \in S : key[x] \in V})
<1> DEFINE parts == [v \in V |-> {x \in S : key[x] = v}]
<1>1. /\ \A v \in V : parts[v] \in SUBSET S /\ g[v] = Sum(f, parts[v])
      /\ \A v, w \in V : v # w => parts[v] \cap parts[w] = {}
  OBVIOUS
<1>2. InParts(S, parts, V) = {x \in S : key[x] \in V}
  BY DEF InParts
<1> HIDE DEF parts
<1>3. Sum(g, V) = Sum(f, InParts(S, parts, V))
  BY <1>1, SumOfParts
<1> QED
  BY <1>2, <1>3

LEMMA CountByKey ==
  ASSUME NEW S, IsFiniteSet(S), NEW V, IsFiniteSet(V), NEW key,
         NEW g, \A v \in V : g[v] = Cardinality({x \in S : key[x] = v})
  PROVE  Sum(g, V) = Cardinality({x \in S : key[x] \in V})
<1> DEFINE parts == [v \in V |-> {x \in S : key[x] = v}]
<1>1. /\ \A v \in V : parts[v] \in SUBSET S /\ g[v] = Cardinality(parts[v])
      /\ \A v, w \in V : v # w => parts[v] \cap parts[w] = {}
  OBVIOUS
<1>2. InParts(S, parts, V) = {x \in S : key[x] \in V}
  BY DEF InParts
<1> HIDE DEF parts
<1>3. Sum(g, V) = Cardinality(InParts(S, parts, V))
  BY <1>1, CountOfParts
<1> QED
  BY <1>2, <1>3

\* A table of how many elements have each key there is adds up to their number,
\* and a table of what they are worth to what all are worth.
LEMMA TableOfCounts ==
  ASSUME NEW S, IsFiniteSet(S), NEW key,
         NEW g, g = [v \in {key[x] : x \in S} |-> Cardinality({x \in S : key[x] = v})]
  PROVE  SumFunction(g) = Cardinality(S)
<1> DEFINE V == {key[x] : x \in S}
<1>1. IsFiniteSet(V)
  BY KeysFinite
<1>2. /\ DOMAIN g = V /\ {x \in S : key[x] \in V} = S
      /\ \A v \in V : g[v] = Cardinality({x \in S : key[x] = v})
  OBVIOUS
<1> HIDE DEF V
<1>3. Sum(g, V) = Cardinality({x \in S : key[x] \in V})
  BY <1>1, <1>2, CountByKey
<1> QED
  BY <1>2, <1>3 DEF SumFunction, Sum

LEMMA TableOfSums ==
  ASSUME NEW S, IsFiniteSet(S), NEW f, \A x \in S : f[x] \in Int, NEW key,
         NEW g, g = [v \in {key[x] : x \in S} |-> Sum(f, {x \in S : key[x] = v})]
  PROVE  SumFunction(g) = Sum(f, S)
<1> DEFINE V == {key[x] : x \in S}
<1>1. IsFiniteSet(V)
  BY KeysFinite
<1>2. /\ DOMAIN g = V /\ {x \in S : key[x] \in V} = S
      /\ \A v \in V : g[v] = Sum(f, {x \in S : key[x] = v})
  OBVIOUS
<1> HIDE DEF V
<1>3. Sum(g, V) = Sum(f, {x \in S : key[x] \in V})
  BY <1>1, <1>2, SumByKey
<1> QED
  BY <1>2, <1>3 DEF SumFunction, Sum

-----------------------------------------------------------------------------
(* What holds of the answers of one moment.                                *)

IsRecord(f) == f = [field \in DOMAIN f |-> f[field]]

LEMMA AnswersAreRecords ==
  ASSUME NEW d, NEW q \in Questions, TellsTickets(q)
  PROVE  /\ IsRecord(DashboardReads(d, q))
         /\ IsRecord(DashboardReads(d, q).tickets)
<1>1. q.access.role \in AccessRoles
  BY QuestionsAsked
<1>2. \A x : IsRecord(TicketReads(d, x))
  BY DEF TicketReads, IsRecord
<1>3. /\ IsRecord(AggregateReads(d, q)) /\ AggregateReads(d, q).tickets = TicketReads(d, q)
      /\ IsRecord(ReportReads(d, q)) /\ ReportReads(d, q).tickets = TicketReads(d, q)
  BY DEF AggregateReads, ReportReads, IsRecord
<1>4. IsRecord(PlatformReads(d, q)) /\ PlatformReads(d, q).tickets = TicketReads(d, q)
  BY DEF PlatformReads, IsRecord
<1>5. IsRecord(TenantReads(d, q)) /\ TenantReads(d, q).tickets = TicketReads(d, q)
  BY DEF TenantReads, IsRecord
<1>6. IsRecord(AgentReads(d, q)) /\ AgentReads(d, q).tickets = TicketReads(d, Own(q))
  BY DEF AgentReads, IsRecord
<1>7. IsRecord(CustomerReads(d, q)) /\ IsRecord(CustomerReads(d, q).tickets)
  BY DEF CustomerReads, IsRecord
<1>8. CASE q.kind = "dashboard"
  <2>1. DashboardReads(d, q) = RoleReads(d, q)
    BY <1>8 DEF DashboardReads, ListingKinds
  <2>2. \/ RoleReads(d, q) = PlatformReads(d, q) \/ RoleReads(d, q) = TenantReads(d, q)
        \/ RoleReads(d, q) = AgentReads(d, q) \/ RoleReads(d, q) = CustomerReads(d, q)
    BY <1>1 DEF RoleReads, AccessRoles, Staff
  <2> QED
    BY <1>2, <1>4, <1>5, <1>6, <1>7, <2>1, <2>2
<1>9. CASE q.kind # "dashboard"
  <2>1. \/ DashboardReads(d, q) = AggregateReads(d, q)
        \/ DashboardReads(d, q) = ReportReads(d, q)
    BY <1>9 DEF DashboardReads, ListingKinds, TellsTickets
  <2> QED
    BY <1>2, <1>3, <2>1
<1> QED
  BY <1>8, <1>9

\* The figures are those of one moment.
Moment(f, q) == \E d : RowsStand(d) /\ f = DashboardReads(d, q)

\* Each read tells of a moment, and so does an answer, unless it was overlapped
\* and tells of tickets.
MomentsInv ==
  /\ asked # Nothing =>
       /\ asked \in Questions /\ Allowed(asked)
       /\ \A i \in DOMAIN answers : Moment(answers[i], asked)
  /\ shown # Nothing =>
       /\ shown.question \in Questions /\ Allowed(shown.question)
       /\ shown.overlapped = 0 \/ ~TellsTickets(shown.question) =>
            Moment(shown.figures, shown.question)

LEMMA MomentShown ==
  ASSUME DashboardInv, MomentsInv, Answer
  PROVE  MomentsInv'
<1>1. PICK at \in [Apart -> DOMAIN answers], rest \in DOMAIN answers :
        shown' = [question |-> asked, overlapped |-> Len(answers) - 1,
                  figures |-> Mixed(at, answers[rest])]
  BY DEF Answer
<1> DEFINE f == answers[rest]
<1>2. /\ asked # Nothing /\ asked' = Nothing /\ asked \in Questions /\ Allowed(asked)
      /\ Moment(f, asked)
  BY DEF Answer, MomentsInv
<1>3. shown'.question = asked /\ shown'.overlapped = Len(answers) - 1
  BY <1>1
<1>4. shown'.figures = Mixed(at, f)
  BY <1>1
<1>5. ASSUME shown'.overlapped = 0 \/ ~TellsTickets(asked)
      PROVE  Mixed(at, f) = f
  <2>1. CASE "tickets" \notin DOMAIN f
    BY <2>1 DEF Mixed, Has
  <2>2. CASE "tickets" \in DOMAIN f
    <3>1. TellsTickets(asked)
      BY <1>2, <2>2, NoCountsTold, QuestionsAsked DEF Moment
    <3>2. IsRecord(f) /\ IsRecord(f.tickets)
      BY <1>2, <3>1, AnswersAreRecords DEF Moment
    <3>3. DOMAIN answers = {1}
      <4>1. answers \in Seq(Held(answers)) /\ Len(answers) - 1 = 0
        BY <1>3, <1>5, <3>1 DEF DashboardInv, AnswersInv
      <4> QED
        BY <4>1
    <3>4. \A k \in Apart : answers[at[k]] = f
      BY <3>3
    <3> HIDE DEF f
    <3>5. [k \in DOMAIN f.tickets |-> IF k \in Apart THEN answers[at[k]].tickets[k]
                                                     ELSE f.tickets[k]]
            = f.tickets
      BY <3>2, <3>4 DEF IsRecord
    <3>6. Mixed(at, f) = [f EXCEPT !.tickets = f.tickets]
      BY <2>2, <3>5 DEF Mixed, Has
    <3> QED
      BY <3>2, <3>6 DEF IsRecord
  <2> QED
    BY <2>1, <2>2
<1> HIDE DEF f
<1> QED
  BY <1>2, <1>3, <1>4, <1>5 DEF MomentsInv

LEMMA MomentsAlways == DashboardSpec => []MomentsInv
<1>1. DashboardInit => MomentsInv
  BY DEF DashboardInit, MomentsInv
<1>2. DashboardInv /\ DashboardInv' /\ MomentsInv /\ [DashboardNext]_dashboardVars
      => MomentsInv'
  <2> SUFFICES ASSUME DashboardInv, DashboardInv', MomentsInv,
                      [DashboardNext]_dashboardVars
               PROVE  MomentsInv'
    OBVIOUS
  <2>1. RowsStand(db) /\ RowsStand(db')
    BY DEF DashboardInv
  <2>2. ASSUME NEW rows, Changes(rows)
        PROVE  MomentsInv'
    <3>1. /\ asked' = asked /\ asked # Nothing /\ db' = rows /\ shown' = shown
          /\ answers' = Append(answers, DashboardReads(rows, asked))
      BY <2>2 DEF Changes
    <3>2. Moment(DashboardReads(rows, asked), asked)
      BY <2>1, <3>1 DEF Moment
    <3>3. answers \in Seq(Held(answers))
      BY DEF DashboardInv, AnswersInv
    <3>4. \A i \in DOMAIN answers' : \/ i \in DOMAIN answers /\ answers'[i] = answers[i]
                                     \/ answers'[i] = DashboardReads(rows, asked)
      BY <3>1, <3>3
    <3>5. \A i \in DOMAIN answers' : Moment(answers'[i], asked')
      BY <3>1, <3>2, <3>4 DEF MomentsInv
    <3> QED
      BY <3>1, <3>5 DEF MomentsInv
  <2>3. ASSUME NEW q \in Questions, Ask(q)
        PROVE  MomentsInv'
    <3>1. /\ asked' = q /\ answers' = <<DashboardReads(db, q)>> /\ Allowed(q)
          /\ shown' = shown /\ shown = Nothing
      BY <2>3 DEF Ask
    <3>2. Moment(DashboardReads(db, q), q)
      BY <2>1 DEF Moment
    <3>3. \A i \in DOMAIN answers' : Moment(answers'[i], q)
      BY <3>1, <3>2
    <3> QED
      BY <3>1, <3>3 DEF MomentsInv
  <2>4. CASE UNCHANGED dashboardVars
    BY <2>4 DEF MomentsInv, dashboardVars
  <2>5. \/ \E rows : Changes(rows)
        \/ \E q \in Questions : Ask(q)
        \/ Answer \/ UNCHANGED dashboardVars
    BY DEF DashboardNext, SetTicketStatus, AssignTicket, MoveTicket, SettlePayment
  <2> QED
    BY <2>2, <2>3, <2>4, <2>5, MomentShown
<1> QED
  BY <1>1, <1>2, DashboardAlways, PTL DEF DashboardSpec

\* The dashboard counts as used whatever the gate counts, and by the same limits.
LEMMA RoomIsGranted ==
  ASSUME NEW d, RowsStand(d), NEW q \in Questions, q.kind = "usage", Allowed(q)
  PROVE  LeftIsGranted(DashboardReads(d, q), CountedResources \cup {"storage"})
<1> DEFINE f == DashboardReads(d, q)
           rows == Mine(d.subscriptions, q)
           used == PlanUsage(d, q)
           counted == CurrentUsage(d, q)
           limits == d.plans[(CHOOSE s \in rows : TRUE).plan].limits
<1>1. f = UsageReads(d, q) /\ q.access.org # None
  BY DEF DashboardReads, ListingKinds, Allowed, MayList
<1>2. /\ f.entitled = (Entitled(d, q) # {}) /\ f.context = SubscriptionContext(d, q)
      /\ f.granted = {k \in DOMAIN PlanUsage(d, q) : Grants(d, q, k)}
  BY <1>1 DEF UsageReads
<1> SUFFICES ASSUME Entitled(d, q) # {}, NEW k \in CountedResources \cup {"storage"},
                    f.context.remaining[k] > 0
             PROVE  k \in f.granted
  BY <1>2 DEF LeftIsGranted
<1>3. PICK s \in Entitled(d, q) : TRUE
  OBVIOUS
<1>4. rows = {s} /\ Entitled(d, q) = {s} /\ s.plan \in DOMAIN d.plans
  BY DEF Entitled, OfOrg, Mine, RowsStand, PlansBelong
<1>5. EntitledLimits(d, q) = limits
  BY <1>4 DEF EntitledLimits
<1>6. k \in Resources /\ DOMAIN used = Resources
  BY DEF CountedResources, Resources, PlanUsage
<1>7. limits[k] \in Int
  BY <1>4, <1>6 DEF RowsStand, PlansBelong
<1>8. f.context.remaining[k] = Larger(0, limits[k] - used[k])
  BY <1>1, <1>2, <1>4, <1>6 DEF SubscriptionContext, RemainingLimits
<1>9. used[k] \in Int /\ counted[k] \in Int /\ counted[k] <= used[k]
  <2>1. /\ IsFiniteSet(d["users"]) /\ IsFiniteSet(d["tickets"])
        /\ IsFiniteSet(d["articles"]) /\ IsFiniteSet(d["invitations"])
        /\ IsFiniteSet(d["files"])
    BY DEF RowsStand, Tables
  <2>2. CASE k = "customers"
    <3> DEFINE R == {u \in OfOrg(d.users, q.access.org) : u.role = "CUSTOMER"}
    <3>1. used[k] = Cardinality(R) /\ counted[k] = Cardinality(R)
      BY <2>2 DEF PlanUsage, CurrentUsage, Mine, OfOrg
    <3>2. IsFiniteSet(R)
      BY <2>1, FS_Subset DEF OfOrg
    <3> HIDE DEF R
    <3> QED
      BY <3>1, <3>2, FS_CardinalityType
  <2>3. CASE k = "invitations"
    <3> DEFINE R == {i \in OfOrg(d.invitations, q.access.org) : i.status \in {"PENDING"}}
    <3>1. used[k] = Cardinality(R) /\ counted[k] = Cardinality(R)
      BY <2>3 DEF PlanUsage, CurrentUsage, Mine, OfOrg, InStatus
    <3>2. IsFiniteSet(R)
      BY <2>1, FS_Subset DEF OfOrg
    <3> HIDE DEF R
    <3> QED
      BY <3>1, <3>2, FS_CardinalityType
  <2>4. CASE k = "articles"
    <3> DEFINE R == OfOrg(d.articles, q.access.org)
               G == {a \in R : a.status # "ARCHIVED"}
    <3>1. used[k] = Cardinality(R) /\ counted[k] = Cardinality(G)
      BY <2>4 DEF PlanUsage, CurrentUsage, Mine, OfOrg
    <3>2. IsFiniteSet(R) /\ G \subseteq R
      BY <2>1, FS_Subset DEF OfOrg
    <3> HIDE DEF R, G
    <3> QED
      BY <3>1, <3>2, FS_Subset, FS_CardinalityType
  <2>5. CASE k = "tickets"
    <3> DEFINE R == {t \in Mine(d.tickets, q) : t.created >= q.month}
               G == {t \in {u \in OfOrg(d.tickets, q.access.org) : ~u.deleted} :
                       t.created >= q.month + q.clock}
    <3>1. used[k] = Cardinality(R) /\ counted[k] = Cardinality(G)
      BY <2>5 DEF PlanUsage, CurrentUsage
    <3>2. q.month \in Int /\ q.clock \in Nat
      BY QuestionsAsked
    <3>3. IsFiniteSet(R)
      BY <2>1, FS_Subset DEF Mine
    <3>4. G \subseteq R
      BY <3>2 DEF Mine, OfOrg, RowsStand, TicketsStand
    <3> HIDE DEF R, G
    <3> QED
      BY <3>1, <3>3, <3>4, FS_Subset, FS_CardinalityType
  <2>6. CASE k = "storage"
    <3> DEFINE files == OfOrg(d.files, q.access.org)
               size == [r \in files |-> r.size]
               Bytes(R) == Total(LAMBDA r : r.size, R)
    <3>1. Mine(d.files, q) = files
      BY DEF Mine, OfOrg
    <3>2. /\ PlanUsage(d, q).storage = Bytes(Mine(d.files, q))
          /\ CurrentUsage(d, q).storage = Bytes(files)
      BY ZenonT(60) DEF PlanUsage, CurrentUsage
    <3>3. Bytes(files) = Sum(size, files)
      BY DEF Total, Sum
    <3>4. IsFiniteSet(files) /\ \A r \in files : size[r] \in Nat
      BY <2>1, FS_Subset DEF OfOrg, RowsStand, ValuesStand
    <3> HIDE DEF files, size, Bytes
    <3>5. Bytes(files) \in Nat
      BY <3>3, <3>4, SumOfNaturals
    <3> QED
      BY <2>6, <3>1, <3>2, <3>5
  <2> QED
    BY <2>2, <2>3, <2>4, <2>5, <2>6 DEF CountedResources
<1> HIDE DEF f, used, counted, limits, rows
<1>10. counted[k] + 1 <= limits[k]
  BY <1>7, <1>8, <1>9 DEF Larger
<1>11. Grants(d, q, k)
  BY <1>5, <1>10 DEF Grants, counted
<1> QED
  BY <1>2, <1>6, <1>11 DEF used

LEMMA ServicesCountAlike ==
  ASSUME NEW d, RowsStand(d), NEW q \in Questions
  PROVE  ServicesAgree(DashboardReads(d, q), q)
<1> DEFINE f == DashboardReads(d, q)
           kpis == ComputeKpis(d, q)
<1>1. q.kind \in QuestionKinds /\ q.access.role \in AccessRoles
  BY QuestionsAsked
<1>2. "tickets" \in DOMAIN f => TellsTickets(q)
  BY <1>1, NoCountsTold
<1>3. TicketsSound(d)
  BY RowsTickets
<1>4. kpis.resolutionRate = ResolutionRate(TicketReads(d, q))
  <2> DEFINE rows == CreatedIn(TicketScope(d, q), q)
             done(statuses) == {r \in rows : r.status \in statuses}
  <2>1. IsFiniteSet(rows)
    BY <1>3, FS_Subset DEF CreatedIn, TicketScope, BaseScope, TicketsSound
  <2>2. IsFiniteSet(done({"RESOLVED"})) /\ IsFiniteSet(done({"CLOSED"}))
    BY <2>1, FS_Subset
  <2>3. /\ done(DoneStatuses) = done({"RESOLVED"}) \cup done({"CLOSED"})
        /\ done({"RESOLVED"}) \cap done({"CLOSED"}) = {}
    BY DEF DoneStatuses
  <2>4. \A statuses : InStatus(rows, statuses) = Cardinality(done(statuses))
    BY DEF InStatus
  <2>5. /\ TicketReads(d, q).resolved = Cardinality(done({"RESOLVED"}))
        /\ TicketReads(d, q).closed = Cardinality(done({"CLOSED"}))
        /\ TicketReads(d, q).total = Cardinality(rows)
    BY <2>4 DEF TicketReads
  <2>6. kpis.resolutionRate = Percent(Cardinality(done(DoneStatuses)), Cardinality(rows))
    BY <2>4 DEF ComputeKpis, TicketResolutionRate
  <2> HIDE DEF rows, done, kpis
  <2>7. Cardinality(done(DoneStatuses))
          = Cardinality(done({"RESOLVED"})) + Cardinality(done({"CLOSED"}))
    BY <2>2, <2>3, DisjointUnion
  <2> QED
    BY <2>5, <2>6, <2>7 DEF ResolutionRate
<1>5. q.filter.customer = None /\ q.filter.rating = None =>
        GetFeedback(d, q).nps = kpis.nps
  <2> DEFINE given == {r \in FeedbackRows(d, q) :
                         /\ q.filter.customer = None \/ r.by = q.filter.customer
                         /\ q.filter.rating = None \/ r.rating = q.filter.rating}
  <2>1. q.filter.customer = None /\ q.filter.rating = None =>
          given = FeedbackRows(d, q)
    OBVIOUS
  <2>2. GetFeedback(d, q).nps = NetPromoters(given)
    BY DEF GetFeedback
  <2>3. kpis.nps = NetPromoters(FeedbackRows(d, q))
    BY DEF ComputeKpis, Nps
  <2> HIDE DEF given, kpis
  <2> QED
    BY <2>1, <2>2, <2>3
<1>6. CASE q.kind = "report"
  <2>1. f = ReportReads(d, q)
    BY <1>6 DEF DashboardReads, ListingKinds
  <2>2. /\ f.tickets = TicketReads(d, q) /\ f.feedback = GetFeedback(d, q)
        /\ f.payments = PaymentReads(d, q) /\ f.customers = GetCustomers(d, q)
        /\ f.kpis = kpis
        /\ f.rows = [c \in {k \in ReportCategories : Listable(k, q)} |->
                       DatasetRows(d, c, q)]
    BY <2>1 DEF ReportReads
  <2>3. /\ f.rows["TICKETS"] = TicketDataset(d, q)
        /\ f.rows["FEEDBACK"] = FeedbackDataset(d, q)
        /\ f.rows["PAYMENTS"] = PaymentDataset(d, q)
        /\ f.rows["CUSTOMERS"] = CustomerDataset(d, q)
    BY <2>2 DEF ReportCategories, Listable, DatasetRows
  <2>4. RowsAgree(f.rows, f, q)
    <3>1. q.filter.status = None /\ q.filter.priority = None =>
            Cardinality(f.rows["TICKETS"]) = f.tickets.total
      <4>1. q.filter.status = None /\ q.filter.priority = None =>
              TicketDataset(d, q) = CreatedIn(TicketScope(d, q), q)
        BY DEF TicketDataset
      <4>2. TicketReads(d, q).total = Cardinality(CreatedIn(TicketScope(d, q), q))
        BY DEF TicketReads
      <4> HIDE DEF f
      <4> QED
        BY <2>2, <2>3, <4>1, <4>2
    <3>2. q.filter.customer = None =>
            Cardinality(f.rows["FEEDBACK"]) = f.feedback.responses
      <4> DEFINE given == {r \in FeedbackRows(d, q) :
                             /\ q.filter.customer = None \/ r.by = q.filter.customer
                             /\ q.filter.rating = None \/ r.rating = q.filter.rating}
      <4>1. q.filter.customer = None => FeedbackDataset(d, q) = given
        BY DEF FeedbackDataset
      <4>2. GetFeedback(d, q).responses = Cardinality(given)
        BY DEF GetFeedback
      <4> HIDE DEF f, given
      <4> QED
        BY <2>2, <2>3, <4>1, <4>2
    <3>3. Cardinality(f.rows["PAYMENTS"]) = f.payments.total
      BY <2>2, <2>3 DEF PaymentDataset, PaymentReads
    <3>4. Cardinality(f.rows["CUSTOMERS"]) = f.customers.total
      BY <2>2, <2>3 DEF CustomerDataset, GetCustomers
    <3> QED
      BY <3>1, <3>2, <3>3, <3>4 DEF RowsAgree
  <2> QED
    BY <1>4, <1>5, <2>2, <2>4 DEF ServicesAgree, Has
<1>7. CASE q.kind # "report"
  <2> DEFINE Beside(g) ==
        /\ "tickets" \in DOMAIN g /\ "kpis" \in DOMAIN g =>
             g.tickets = TicketReads(d, q) /\ g.kpis = kpis
        /\ "feedback" \in DOMAIN g => g.feedback = GetFeedback(d, q) /\ g.kpis = kpis
  <2>3. Beside(PlatformReads(d, q))
    BY Zenon DEF PlatformReads
  <2>4. Beside(TenantReads(d, q))
    BY Zenon DEF TenantReads
  <2>5. Beside(AggregateReads(d, q))
    BY DEF AggregateReads
  <2>6. Beside(AgentReads(d, q)) /\ Beside(CustomerReads(d, q))
    BY DEF AgentReads, CustomerReads
  <2>7. /\ Beside(GetCharts(d, q, ChartTypes)) /\ Beside(SearchReads(d, q))
        /\ Beside(UsageReads(d, q))
    BY DEF GetCharts, SearchReads, UsageReads
  <2>8. q.kind \in ListingKinds \ {"usage"} => Beside(ListingReads(d, q))
    <3>1. Beside(PortalReads(d, q))
      BY DEF PortalReads
    <3>2. \A x : Beside([found |-> x]) /\ Beside([survey |-> x])
      OBVIOUS
    <3> QED
      BY <3>1, <3>2 DEF ListingReads, ListingKinds
  <2>9. Beside(f)
    <3> HIDE DEF Beside
    <3>1. CASE q.kind = "dashboard"
      <4>1. f = RoleReads(d, q)
        BY <3>1 DEF DashboardReads, ListingKinds
      <4> QED
        BY <1>1, <2>3, <2>4, <2>6, <4>1 DEF RoleReads, AccessRoles, Staff
    <3>2. CASE q.kind # "dashboard"
      BY <1>1, <1>7, <2>5, <2>7, <2>8, <3>2
         DEF DashboardReads, QuestionKinds, ListingKinds
    <3> QED
      BY <3>1, <3>2
  <2>1. "tickets" \in DOMAIN f /\ "kpis" \in DOMAIN f =>
          f.tickets = TicketReads(d, q) /\ f.kpis = kpis
    BY <2>9
  <2>2. "feedback" \in DOMAIN f => f.feedback = GetFeedback(d, q) /\ f.kpis = kpis
    BY <2>9
  <2> HIDE DEF kpis
  <2>10. "tickets" \in DOMAIN f /\ "kpis" \in DOMAIN f =>
           f.kpis.resolutionRate = ResolutionRate(f.tickets)
    BY <1>4, <2>1
  <2>11. /\ "feedback" \in DOMAIN f
         /\ q.filter.customer = None /\ q.filter.rating = None
         => f.feedback.nps = f.kpis.nps
    BY <1>5, <2>2
  <2> QED
    BY Zenon, <1>7, <2>10, <2>11 DEF ServicesAgree, Has
<1> QED
  BY <1>6, <1>7

\* What the dashboard of a paying tenant shows as left of its customers,
\* tickets, articles, invitations and storage, the gate grants: the two count a month,
\* deleted tickets and archived articles in ways of their own, but the
\* dashboard never counts less than the gate (getSubscriptionContext and
\* canConsume).
THEOREM RoomShownIsGranted ==
  DashboardSpec => [](shown # Nothing /\ shown.question.kind = "usage" =>
                        LeftIsGranted(shown.figures, CountedResources \cup {"storage"}))
<1>1. MomentsInv => (shown # Nothing /\ shown.question.kind = "usage" =>
                       LeftIsGranted(shown.figures, CountedResources \cup {"storage"}))
  <2> SUFFICES ASSUME MomentsInv, shown # Nothing, shown.question.kind = "usage"
               PROVE  LeftIsGranted(shown.figures, CountedResources \cup {"storage"})
    OBVIOUS
  <2>1. ~TellsTickets(shown.question)
    BY DEF TellsTickets
  <2>2. /\ shown.question \in Questions /\ Allowed(shown.question)
        /\ Moment(shown.figures, shown.question)
    BY <2>1 DEF MomentsInv
  <2> QED
    BY <2>2, RoomIsGranted DEF Moment
<1> QED
  BY <1>1, MomentsAlways, PTL

\* What two services count each on its own comes out the same in an answer
\* that no change overlapped: the resolution rate of the indicators is that of
\* the ticket counts beside it, the promoter score that of the feedback beside
\* it, and a report lists as many rows as its summary counts (getTickets and
\* getFeedback, kpi.compute, the datasets of a report).
THEOREM ServicesAlike ==
  DashboardSpec => [](shown # Nothing /\ shown.overlapped = 0 =>
                        ServicesAgree(shown.figures, shown.question))
<1>1. MomentsInv => (shown # Nothing /\ shown.overlapped = 0 =>
                       ServicesAgree(shown.figures, shown.question))
  BY ServicesCountAlike DEF MomentsInv, Moment
<1> QED
  BY <1>1, MomentsAlways, PTL
-----------------------------------------------------------------------------
(* Rounding. *)

LEMMA Quotient ==
  ASSUME NEW a \in Int, NEW b \in Nat \ {0}
  PROVE  a \div b \in Int /\ b * (a \div b) <= a /\ a < b * (a \div b) + b
OBVIOUS

LEMMA LeastQuotient ==
  ASSUME NEW a \in Int, NEW b \in Nat \ {0}, NEW k \in Int
  PROVE  /\ a < b * (k + 1) => a \div b <= k
         /\ b * k <= a => k <= a \div b
OBVIOUS

LEMMA Rounded ==
  ASSUME NEW n \in Int, NEW m \in Nat \ {0}
  PROVE  /\ Round(n, m) \in Int
         /\ 2 * (m * Round(n, m)) <= 2 * n + m
         /\ 2 * n + m < 2 * (m * Round(n, m)) + 2 * m
<1> DEFINE r == (2 * n + m) \div (2 * m)
<1>1. 2 * n + m \in Int /\ 2 * m \in Nat \ {0}
  OBVIOUS
<1>2. r \in Int /\ (2 * m) * r <= 2 * n + m /\ 2 * n + m < (2 * m) * r + 2 * m
  BY <1>1, Quotient
<1>3. Round(n, m) = r
  BY DEF Round
<1> HIDE DEF r
<1>4. (2 * m) * r = 2 * (m * r)
  BY <1>2
<1> QED
  BY <1>2, <1>3, <1>4

\* What is between two multiples is rounded to something between them.
LEMMA RoundedBetween ==
  ASSUME NEW n \in Int, NEW m \in Nat \ {0}, NEW low \in Int, NEW high \in Int,
         low * m <= n, n <= high * m
  PROVE  Round(n, m) \in low..high
<1> DEFINE r == Round(n, m)
<1>1. r \in Int /\ 2 * (m * r) <= 2 * n + m /\ 2 * n + m < 2 * (m * r) + 2 * m
  BY Rounded
<1> HIDE DEF r
<1>2. r <= high
  <2> SUFFICES ASSUME high + 1 <= r
               PROVE  FALSE
    BY <1>1
  <2>1. m * (high + 1) <= m * r
    BY <1>1
  <2>2. m * (high + 1) = high * m + m
    OBVIOUS
  <2> QED
    BY <1>1, <2>1, <2>2
<1>3. low <= r
  <2> SUFFICES ASSUME r <= low - 1
               PROVE  FALSE
    BY <1>1
  <2>1. m * r <= m * (low - 1)
    BY <1>1
  <2>2. m * (low - 1) = low * m - m
    OBVIOUS
  <2> QED
    BY <1>1, <2>1, <2>2
<1> QED
  BY <1>1, <1>2, <1>3 DEF r

LEMMA RateOf ==
  ASSUME NEW n \in Nat, NEW m \in Nat, n <= m
  PROVE  Percent(n, m) \in Rate
<1>1. CASE m = 0
  BY <1>1 DEF Percent, Rate
<1>2. CASE m # 0
  <2> DEFINE x == 1000 * n
             low == 0
             high == 1000
  <2>1. /\ low * m <= x /\ x <= high * m /\ x \in Int /\ m \in Nat \ {0}
        /\ low \in Int /\ high \in Int
    BY <1>2
  <2> HIDE DEF x, low, high
  <2>2. Round(x, m) \in low..high
    BY <2>1, RoundedBetween
  <2> QED
    BY <1>2, <2>2 DEF Percent, Rate, x, low, high
<1> QED
  BY <1>1, <1>2

\* A share of five in tenths of a percent, and the average in hundredths.
LEMMA ShareIsTwiceTheAverage ==
  ASSUME NEW n \in Int, NEW m \in Nat \ {0}
  PROVE  /\ Round(100 * n, m) \in Int /\ Round(1000 * n, 5 * m) \in Int
         /\ Difference(2 * Round(100 * n, m), Round(1000 * n, 5 * m)) <= 1
<1> DEFINE a == Round(100 * n, m)
           c == Round(1000 * n, 5 * m)
<1>1. /\ a \in Int /\ 2 * (m * a) <= 2 * (100 * n) + m
      /\ 2 * (100 * n) + m < 2 * (m * a) + 2 * m
  BY Rounded
<1>2. /\ c \in Int /\ 2 * ((5 * m) * c) <= 2 * (1000 * n) + 5 * m
      /\ 2 * (1000 * n) + 5 * m < 2 * ((5 * m) * c) + 2 * (5 * m)
  BY Rounded
<1> HIDE DEF a, c
<1>3. m * a \in Int /\ m * c \in Int /\ (5 * m) * c = 5 * (m * c)
  BY <1>1, <1>2
<1>4. 2 * a - c <= 1
  <2> SUFFICES ASSUME 2 <= 2 * a - c
               PROVE  FALSE
    BY <1>1, <1>2
  <2>1. m * 2 <= m * (2 * a - c)
    BY <1>1, <1>2
  <2>2. m * (2 * a - c) = 2 * (m * a) - m * c
    BY <1>1, <1>2
  <2> QED
    BY <1>1, <1>2, <1>3, <2>1, <2>2
<1>5. c - 2 * a <= 1
  <2> SUFFICES ASSUME 2 <= c - 2 * a
               PROVE  FALSE
    BY <1>1, <1>2
  <2>1. m * 2 <= m * (c - 2 * a)
    BY <1>1, <1>2
  <2>2. m * (c - 2 * a) = m * c - 2 * (m * a)
    BY <1>1, <1>2
  <2> QED
    BY <1>1, <1>2, <1>3, <2>1, <2>2
<1>6. Difference(2 * a, c) <= 1
  BY <1>1, <1>2, <1>4, <1>5 DEF Difference
<1> QED
  BY <1>1, <1>2, <1>6 DEF a, c

\* There is a next page when the pages so far are not enough.
LEMMA MorePages ==
  ASSUME NEW total \in Nat, NEW page \in Nat \ {0}, NEW limit \in Nat \ {0}
  PROVE  page < (total + limit - 1) \div limit <=> total > page * limit
<1> DEFINE pages == (total + limit - 1) \div limit
<1>1. /\ pages \in Int /\ limit * pages <= total + limit - 1
      /\ total + limit - 1 < limit * pages + limit
  BY Quotient
<1> HIDE DEF pages
<1>2. ASSUME page < pages
      PROVE  total > page * limit
  <2>1. limit * (page + 1) <= limit * pages
    BY <1>1, <1>2
  <2>2. limit * (page + 1) = page * limit + limit
    OBVIOUS
  <2> QED
    BY <1>1, <2>1, <2>2
<1>3. ASSUME pages <= page
      PROVE  total <= page * limit
  <2>1. limit * pages <= limit * page
    BY <1>1, <1>3
  <2>2. limit * page = page * limit
    OBVIOUS
  <2> QED
    BY <1>1, <2>1, <2>2
<1>4. page * limit \in Int
  OBVIOUS
<1> QED
  BY <1>1, <1>2, <1>3, <1>4 DEF pages
-----------------------------------------------------------------------------
(* Questions and trends.                                                   *)

LEMMA RangeStands ==
  ASSUME NEW q, QuestionStands(q)
  PROVE  /\ ResolveRange(q).from \in Int /\ ResolveRange(q).to \in Int
         /\ ResolveRange(q).from <= ResolveRange(q).to
<1>1. /\ q.now \in Int /\ q.filter.from \in Int \cup {None}
      /\ q.filter.to \in Int \cup {None} /\ Span \in Nat
  BY AnalyticsAssumption DEF QuestionStands
<1> QED
  BY <1>1 DEF ResolveRange

\* What an agent's question is about but the agent stays as it is.
LEMMA OwnStands ==
  ASSUME NEW q, QuestionStands(q)
  PROVE  /\ QuestionStands(Own(q)) /\ ResolveRange(Own(q)) = ResolveRange(q)
         /\ Own(q).filter.width = q.filter.width
         /\ Own(q).filter.priority = q.filter.priority
         /\ Buckets(Own(q)) = Buckets(q)
         /\ Charted(Own(q)) <=> Charted(q)
<1>1. /\ Own(q).access = q.access /\ Own(q).kind = q.kind /\ Own(q).now = q.now
      /\ Own(q).month = q.month /\ Own(q).clock = q.clock /\ Own(q).year = q.year
      /\ DOMAIN Own(q) = DOMAIN q
  BY DEF Own, QuestionStands
<1>2. /\ Own(q).filter.from = q.filter.from /\ Own(q).filter.to = q.filter.to
      /\ Own(q).filter.width = q.filter.width
      /\ Own(q).filter.priority = q.filter.priority
      /\ Own(q).filter.page = q.filter.page /\ Own(q).filter.limit = q.filter.limit
      /\ DOMAIN Own(q).filter = DOMAIN q.filter
  BY DEF Own, QuestionStands
<1>3. QuestionStands(Own(q))
  BY <1>1, <1>2 DEF QuestionStands
<1>4. ResolveRange(Own(q)) = ResolveRange(q)
  BY <1>1, <1>2 DEF ResolveRange
<1>5. Buckets(Own(q)) = Buckets(q)
  BY <1>2, <1>4 DEF Buckets
<1>6. Charted(Own(q)) <=> Charted(q)
  BY <1>2, <1>4 DEF Charted
<1> QED
  BY <1>2, <1>3, <1>4, <1>5, <1>6

LEMMA BucketsFinite ==
  ASSUME NEW q, QuestionStands(q)
  PROVE  /\ IsFiniteSet(Buckets(q))
         /\ Charted(q) =>
              \A at \in Int : Within(at, ResolveRange(q)) =>
                at \div q.filter.width \in Buckets(q)
<1> DEFINE range == ResolveRange(q)
           w == q.filter.width
           first == range.from \div w
           last == range.to \div w
<1>1. range.from \in Int /\ range.to \in Int /\ w \in Nat \ {0}
  BY RangeStands DEF QuestionStands
<1>2. first \in Int /\ last \in Int
  BY <1>1, Quotient
<1>3. Buckets(q) = {b \in first..last : b < first + MaxBuckets}
  BY DEF Buckets
<1>4. IsFiniteSet(Buckets(q))
  <2> HIDE DEF first, last
  <2>1. IsFiniteSet(first..last)
    BY <1>2, FS_Interval
  <2> QED
    BY <1>3, <2>1, FS_Subset
<1>5. ASSUME Charted(q), NEW at \in Int, Within(at, range)
      PROVE  at \div w \in Buckets(q)
  <2>1. last - first < MaxBuckets
    BY <1>5 DEF Charted
  <2>2. range.from <= at /\ at <= range.to
    BY <1>5 DEF Within
  <2>3. at \div w \in Int /\ first <= at \div w /\ at \div w <= last
    <3>1. /\ at \div w \in Int /\ w * (at \div w) <= at /\ at < w * (at \div w) + w
          /\ w * first <= range.from /\ range.to < w * last + w
      BY <1>1, Quotient
    <3>2. w * (last + 1) = w * last + w
      BY <1>1, <1>2
    <3>3. at < w * (last + 1) /\ w * first <= at
      BY ONLY <1>1, <1>2, <2>2, <3>1, <3>2
    <3> HIDE DEF first, last, range, w
    <3> QED
      BY <1>1, <1>2, <3>1, <3>3, LeastQuotient
  <2> HIDE DEF first, last, w
  <2> QED
    BY <1>2, <1>3, <2>1, <2>3, AnalyticsAssumption
<1> QED
  BY <1>4, <1>5

\* A trend adds up to what its rows are worth, as far as the buckets reach.
LEMMA TrendAddsUp ==
  ASSUME NEW q, QuestionStands(q), NEW rows, IsFiniteSet(rows), NEW at,
         \A r \in rows : at[r] \in Int /\ Within(at[r], ResolveRange(q)),
         NEW worth, \A r \in rows : worth[r] \in Nat,
         NEW g, DOMAIN g = Buckets(q),
         \A b \in Buckets(q) :
           g[b] = Sum(worth, {r \in rows : at[r] \div q.filter.width = b})
  PROVE  /\ SumFunction(g) \in Nat /\ Sum(worth, rows) \in Nat
         /\ SumFunction(g) <= Sum(worth, rows)
         /\ Charted(q) => SumFunction(g) = Sum(worth, rows)
<1> DEFINE key == [r \in rows |-> at[r] \div q.filter.width]
           reached == {r \in rows : key[r] \in Buckets(q)}
<1>1. IsFiniteSet(Buckets(q))
  BY BucketsFinite
<1>2. \A b \in Buckets(q) : g[b] = Sum(worth, {r \in rows : key[r] = b})
  <2>1. \A b : {r \in rows : key[r] = b} = {r \in rows : at[r] \div q.filter.width = b}
    OBVIOUS
  <2> QED
    BY <2>1
<1>3. Charted(q) => reached = rows
  BY BucketsFinite
<1>4. \A r \in rows : worth[r] \in Int
  OBVIOUS
<1> HIDE DEF key
<1>5. Sum(g, Buckets(q)) = Sum(worth, reached)
  BY <1>1, <1>2, <1>4, SumByKey
<1>6. SumFunction(g) = Sum(worth, reached)
  BY <1>5 DEF SumFunction, Sum
<1>7. /\ Sum(worth, reached) \in Nat /\ Sum(worth, rows) \in Nat
      /\ Sum(worth, reached) <= Sum(worth, rows)
  BY SumOfPart
<1> HIDE DEF reached
<1> QED
  BY <1>3, <1>6, <1>7

LEMMA TrendCounts ==
  ASSUME NEW q, QuestionStands(q), NEW rows, IsFiniteSet(rows), NEW at,
         \A r \in rows : at[r] \in Int /\ Within(at[r], ResolveRange(q)),
         NEW g, g = [b \in Buckets(q) |->
                       Sum([r \in {s \in rows : at[s] \div q.filter.width = b} |-> 1],
                           {r \in rows : at[r] \div q.filter.width = b})]
  PROVE  /\ SumFunction(g) \in Nat /\ SumFunction(g) <= Cardinality(rows)
         /\ Charted(q) => SumFunction(g) = Cardinality(rows)
<1> DEFINE one == [r \in rows |-> 1]
<1>1. \A S \in SUBSET rows : Sum([r \in S |-> 1], S) = Sum(one, S)
  <2> SUFFICES ASSUME NEW S \in SUBSET rows
               PROVE  Sum([r \in S |-> 1], S) = Sum(one, S)
    OBVIOUS
  <2> DEFINE f == [r \in S |-> 1]
  <2>1. \A r \in S : f[r] \in Int /\ f[r] = one[r]
    OBVIOUS
  <2>2. IsFiniteSet(S)
    BY FS_Subset
  <2> HIDE DEF f, one
  <2>3. Sum(f, S) = Sum(one, S)
    BY <2>1, <2>2, SumOfSame
  <2> QED
    BY <2>3 DEF f
<1>2. Sum(one, rows) = Cardinality(rows)
  BY SumOfOnes
<1>3. \A r \in rows : one[r] \in Nat
  OBVIOUS
<1> HIDE DEF one
<1>4. \A b \in Buckets(q) :
        g[b] = Sum(one, {r \in rows : at[r] \div q.filter.width = b})
  BY <1>1
<1>5. DOMAIN g = Buckets(q)
  OBVIOUS
<1>6. /\ SumFunction(g) \in Nat /\ SumFunction(g) <= Sum(one, rows)
      /\ Charted(q) => SumFunction(g) = Sum(one, rows)
  BY ONLY QuestionStands(q), IsFiniteSet(rows), <1>3, <1>4, <1>5, TrendAddsUp,
          \A r \in rows : at[r] \in Int /\ Within(at[r], ResolveRange(q))
<1> QED
  BY <1>2, <1>6
-----------------------------------------------------------------------------
(* Tickets.                                                                *)

LEMMA TablesFinite ==
  ASSUME NEW d, RowsStand(d)
  PROVE  /\ IsFiniteSet(d.tickets) /\ IsFiniteSet(d.feedback) /\ IsFiniteSet(d.payments)
         /\ IsFiniteSet(d.responses)
         /\ IsFiniteSet(d.users) /\ IsFiniteSet(d.subscriptions)
         /\ IsFiniteSet(d.files) /\ IsFiniteSet(d.usage) /\ IsFiniteSet(d.requests)
         /\ IsFiniteSet(d.articles) /\ IsFiniteSet(d.invitations)
<1>1. /\ IsFiniteSet(d["tickets"]) /\ IsFiniteSet(d["feedback"])
      /\ IsFiniteSet(d["responses"])
      /\ IsFiniteSet(d["payments"]) /\ IsFiniteSet(d["users"])
      /\ IsFiniteSet(d["subscriptions"]) /\ IsFiniteSet(d["files"])
      /\ IsFiniteSet(d["usage"]) /\ IsFiniteSet(d["requests"])
      /\ IsFiniteSet(d["articles"]) /\ IsFiniteSet(d["invitations"])
  BY DEF RowsStand, Tables
<1> QED
  BY <1>1

\* The tickets of a scope and a range.
Ranged(d, q) == CreatedIn(TicketScope(d, q), q)

LEMMA RangedTickets ==
  ASSUME NEW d, RowsStand(d), NEW q
  PROVE  /\ IsFiniteSet(Ranged(d, q)) /\ Ranged(d, q) \subseteq d.tickets
         /\ \A t \in Ranged(d, q) : /\ t.created \in Int
                                    /\ Within(t.created, ResolveRange(q))
                                    /\ t.status \in TicketStatuses
<1>1. Ranged(d, q) \subseteq d.tickets
  BY DEF Ranged, CreatedIn, TicketScope, BaseScope
<1>2. IsFiniteSet(Ranged(d, q))
  BY <1>1, TablesFinite, FS_Subset
<1>3. \A t \in Ranged(d, q) : Within(t.created, ResolveRange(q))
  BY DEF Ranged, CreatedIn
<1>4. \A t \in Ranged(d, q) : t.created \in Int /\ t.status \in TicketStatuses
  BY <1>1 DEF RowsStand, TicketsStand
<1> QED
  BY <1>1, <1>2, <1>3, <1>4

\* The tickets of a trend are the ones of the priority asked for.
LEMMA TicketTrendAddsUp ==
  ASSUME NEW d, RowsStand(d), NEW q, QuestionStands(q)
  PROVE  /\ SumFunction(TicketTrend(d, q)) \in Nat
         /\ SumFunction(TicketTrend(d, q)) <= Cardinality(Ranged(d, q))
         /\ Charted(q) => SumFunction(TicketTrend(d, q)) = Cardinality(Ranged(d, q))
<1> DEFINE rows == {t \in Ranged(d, q) :
                      q.filter.priority = None \/ t.priority = q.filter.priority}
           at == [t \in rows |-> t.created]
           g == TicketTrend(d, q)
<1>1. /\ IsFiniteSet(rows) /\ rows \subseteq Ranged(d, q)
      /\ \A t \in rows : at[t] \in Int /\ Within(at[t], ResolveRange(q))
  BY RangedTickets, FS_Subset
<1>2. Charted(q) => rows = Ranged(d, q)
  BY DEF Charted
<1>3. g = [b \in Buckets(q) |->
             Sum([r \in {s \in rows : at[s] \div q.filter.width = b} |-> 1],
                 {r \in rows : at[r] \div q.filter.width = b})]
  <2>1. g = [b \in Buckets(q) |->
               Sum([r \in {s \in rows : s.created \div q.filter.width = b} |-> 1],
                   {r \in rows : r.created \div q.filter.width = b})]
    BY DEF TicketTrend, Trend, Total, Sum, One, Created, Ranged
  <2>2. \A b : {r \in rows : r.created \div q.filter.width = b}
                 = {r \in rows : at[r] \div q.filter.width = b}
    OBVIOUS
  <2> QED
    BY <2>1, <2>2
<1> HIDE DEF g, at, rows
<1>4. /\ SumFunction(g) \in Nat /\ SumFunction(g) <= Cardinality(rows)
      /\ Charted(q) => SumFunction(g) = Cardinality(rows)
  BY <1>1, <1>3, TrendCounts
<1>5. /\ Cardinality(rows) \in Nat /\ Cardinality(Ranged(d, q)) \in Nat
      /\ Cardinality(rows) <= Cardinality(Ranged(d, q))
  BY <1>1, RangedTickets, FS_Subset, FS_CardinalityType
<1> QED
  BY <1>2, <1>4, <1>5 DEF g

\* Counts of rows of some of the statuses.
LEMMA StatusCounts ==
  ASSUME NEW rows, IsFiniteSet(rows)
  PROVE  /\ Cardinality(rows) \in Nat
         /\ \A P : InStatus(rows, P) \in Nat /\ InStatus(rows, P) <= Cardinality(rows)
         /\ \A P, R : P \subseteq R => InStatus(rows, P) <= InStatus(rows, R)
         /\ SumFunction(CountBy(rows, Status)) = Cardinality(rows)
<1> DEFINE In(P) == {r \in rows : r.status \in P}
<1>1. \A P : IsFiniteSet(In(P)) /\ In(P) \subseteq rows
  BY FS_Subset
<1>2. \A P, R : P \subseteq R => In(P) \subseteq In(R)
  OBVIOUS
<1>3. \A P : InStatus(rows, P) = Cardinality(In(P))
  BY DEF InStatus
<1> DEFINE key == [r \in rows |-> r.status]
           g == CountBy(rows, Status)
<1>4. g = [v \in {key[r] : r \in rows} |-> Cardinality({r \in rows : key[r] = v})]
  <2>1. /\ {key[r] : r \in rows} = {r.status : r \in rows}
        /\ \A v : {r \in rows : key[r] = v} = {r \in rows : r.status = v}
    OBVIOUS
  <2>2. g = [v \in {r.status : r \in rows} |-> Cardinality({r \in rows : r.status = v})]
    BY DEF CountBy, Status
  <2> QED
    BY <2>1, <2>2
<1> HIDE DEF In, key, g
<1>5. SumFunction(g) = Cardinality(rows)
  BY <1>4, TableOfCounts
<1> QED
  BY <1>1, <1>2, <1>3, <1>5, FS_Subset, FS_CardinalityType DEF g

LEMMA PriorityCounts ==
  ASSUME NEW rows, IsFiniteSet(rows)
  PROVE  SumFunction(CountBy(rows, LAMBDA t : t.priority)) = Cardinality(rows)
<1> DEFINE key == [r \in rows |-> r.priority]
           g == CountBy(rows, LAMBDA t : t.priority)
<1>1. g = [v \in {key[r] : r \in rows} |-> Cardinality({r \in rows : key[r] = v})]
  <2>1. /\ {key[r] : r \in rows} = {r.priority : r \in rows}
        /\ \A v : {r \in rows : key[r] = v} = {r \in rows : r.priority = v}
    OBVIOUS
  <2>2. g = [v \in {r.priority : r \in rows} |->
               Cardinality({r \in rows : r.priority = v})]
    BY DEF CountBy
  <2> QED
    BY <2>1, <2>2
<1> HIDE DEF key, g
<1>2. SumFunction(g) = Cardinality(rows)
  BY <1>1, TableOfCounts
<1> QED
  BY <1>2 DEF g

\* An overdue ticket is open.
LEMMA TicketsAddUp ==
  ASSUME NEW d, RowsStand(d), NEW q, QuestionStands(q)
  PROVE  /\ TicketsAgree(TicketReads(d, q), q)
         /\ TicketReads(d, q).total = Cardinality(Ranged(d, q))
<1> DEFINE rows == Ranged(d, q)
           late == {t \in rows : /\ t.due # None /\ t.due < q.now
                                 /\ t.status \notin DoneStatuses}
           t == TicketReads(d, q)
<1>1. /\ t.total = Cardinality(rows) /\ t.open = InStatus(rows, OpenStatuses)
      /\ t.pending = InStatus(rows, PendingStatuses)
      /\ t.escalated = InStatus(rows, {"ESCALATED"})
      /\ t.overdue = Cardinality(late)
      /\ t.byStatus = CountBy(rows, Status)
      /\ t.trend = TicketTrend(d, q)
  BY DEF TicketReads, Ranged
<1>2. t.byPriority = CountBy(rows, LAMBDA r : r.priority)
  BY Zenon DEF TicketReads, Ranged
<1>3. t.resolved = InStatus(rows, {"RESOLVED"}) /\ t.closed = InStatus(rows, {"CLOSED"})
  BY DEF TicketReads, Ranged
<1>4. IsFiniteSet(rows) /\ \A r \in rows : r.status \in TicketStatuses
  BY RangedTickets
<1>5. t.overdue <= t.open
  <2> DEFINE open == {r \in rows : r.status \in OpenStatuses}
  <2>1. late \subseteq open
    BY <1>4 DEF TicketStatuses, OpenStatuses, DoneStatuses
  <2>2. IsFiniteSet(open) /\ t.open = Cardinality(open)
    BY <1>1, <1>4, FS_Subset DEF InStatus
  <2> HIDE DEF open, late, t
  <2> QED
    BY <1>1, <2>1, <2>2, FS_Subset
<1>6. ResolutionRate(t) \in Rate
  <2> DEFINE done(k) == {r \in rows : r.status \in {k}}
  <2>1. /\ IsFiniteSet(done("RESOLVED")) /\ IsFiniteSet(done("CLOSED"))
        /\ done("RESOLVED") \cap done("CLOSED") = {}
        /\ done("RESOLVED") \cup done("CLOSED") \subseteq rows
    BY <1>4, FS_Subset
  <2>2. \A k : InStatus(rows, {k}) = Cardinality(done(k))
    BY DEF InStatus
  <2> HIDE DEF done, rows
  <2>3. Cardinality(done("RESOLVED") \cup done("CLOSED"))
          = Cardinality(done("RESOLVED")) + Cardinality(done("CLOSED"))
    BY <2>1, DisjointUnion
  <2>4. Cardinality(done("RESOLVED") \cup done("CLOSED")) <= Cardinality(rows)
    BY <1>4, <2>1, FS_Subset
  <2>5. /\ Cardinality(done("RESOLVED")) \in Nat /\ Cardinality(done("CLOSED")) \in Nat
        /\ Cardinality(rows) \in Nat
    BY <1>4, <2>1, FS_CardinalityType
  <2>6. /\ t.resolved + t.closed \in Nat /\ t.total \in Nat
        /\ t.resolved + t.closed <= t.total
    BY <1>1, <1>3, <2>2, <2>3, <2>4, <2>5
  <2> HIDE DEF t
  <2> QED
    BY <2>6, RateOf DEF ResolutionRate
<1>7. t.pending <= t.open /\ t.escalated <= t.open
  <2>1. PendingStatuses \subseteq OpenStatuses /\ {"ESCALATED"} \subseteq OpenStatuses
    BY DEF PendingStatuses, OpenStatuses
  <2> HIDE DEF t, rows
  <2> QED
    BY <1>1, <1>4, <2>1, StatusCounts
<1> HIDE DEF t, rows, late
<1>8. t.total = SumFunction(t.byStatus) /\ t.total = SumFunction(t.byPriority)
  BY <1>1, <1>2, <1>4, StatusCounts, PriorityCounts
<1>9. Charted(q) => t.total = SumFunction(t.trend)
  BY <1>1, TicketTrendAddsUp DEF rows
<1> QED
  BY <1>1, <1>5, <1>6, <1>7, <1>8, <1>9 DEF TicketsAgree, t, rows
-----------------------------------------------------------------------------
(* Feedback.                                                               *)

LEMMA MarksFinite == IsFiniteSet(1..5)
<1>1. \A low, high \in Int : IsFiniteSet(low..high)
  BY FS_Interval
<1>2. 1 \in Int /\ 5 \in Int
  OBVIOUS
<1> QED
  BY <1>1, <1>2, Zenon

\* Ratings are between one and five, and so is their average.
LEMMA RatingsAverage ==
  ASSUME NEW rows, IsFiniteSet(rows), \A r \in rows : r.rating \in 1..5
  PROVE  /\ Total(Rating, rows) \in Int /\ AverageOf(Rating, rows) \in 0..500
         /\ rows = {} => AverageOf(Rating, rows) = 0
         /\ rows # {} => /\ Cardinality(rows) \in Nat \ {0}
                         /\ AverageOf(Rating, rows)
                              = Round(100 * Total(Rating, rows), Cardinality(rows))
<1> DEFINE f == [r \in rows |-> r.rating]
           n == Cardinality(rows)
           total == Total(Rating, rows)
           average == AverageOf(Rating, rows)
           low == 1
           high == 5
<1>1. total = Sum(f, rows)
  BY DEF Total, Rating, Sum
<1>2. average = IF n = 0 THEN 0 ELSE Round(100 * total, n)
  BY DEF AverageOf, Average
<1>3. n \in Nat /\ (n = 0 <=> rows = {})
  BY FS_CardinalityType, FS_EmptySet
<1>4. /\ low \in Int /\ high \in Int
      /\ \A r \in rows : f[r] \in Int /\ low <= f[r] /\ f[r] <= high
  OBVIOUS
<1> HIDE DEF f, n, low, high, total, average
<1>5. total \in Int /\ low * n <= total /\ total <= high * n
  BY <1>1, <1>4, SumBetween DEF n
<1>6. CASE n = 0
  BY <1>2, <1>3, <1>5, <1>6 DEF n, total, average
<1>7. CASE n # 0
  <2> DEFINE x == 100 * total
             top == 500
             none == 0
  <2>1. /\ x \in Int /\ none * n <= x /\ x <= top * n /\ n \in Nat \ {0}
        /\ none \in Int /\ top \in Int
    BY <1>3, <1>5, <1>7 DEF low, high
  <2> HIDE DEF x, top, none
  <2>2. Round(x, n) \in none..top
    BY <2>1, RoundedBetween
  <2>3. average \in 0..500 /\ average = Round(100 * total, n)
    BY <1>2, <1>7, <2>2 DEF x, top, none
  <2> QED
    BY <1>3, <1>5, <1>7, <2>3 DEF n, total, average
<1> QED
  BY <1>6, <1>7

\* Two ways to round the same average.
LEMMA SatisfactionTwice ==
  ASSUME NEW rows, IsFiniteSet(rows), \A r \in rows : r.rating \in 1..5,
         NEW csat, csat = IF rows = {} THEN 0
                          ELSE Round(1000 * Total(Rating, rows), 5 * Cardinality(rows))
  PROVE  Difference(2 * AverageOf(Rating, rows), csat) <= 1
<1>1. CASE rows = {}
  <2>1. AverageOf(Rating, rows) = 0 /\ csat = 0
    BY <1>1, RatingsAverage
  <2> QED
    BY <2>1 DEF Difference
<1>2. CASE rows # {}
  <2> DEFINE n == Cardinality(rows)
             total == Total(Rating, rows)
             average == AverageOf(Rating, rows)
  <2>1. /\ total \in Int /\ n \in Nat \ {0} /\ average = Round(100 * total, n)
        /\ csat = Round(1000 * total, 5 * n)
    BY <1>2, RatingsAverage
  <2> HIDE DEF n, total, average
  <2>2. Difference(2 * average, csat) <= 1
    BY <2>1, ShareIsTwiceTheAverage
  <2> QED
    BY <2>2 DEF average
<1> QED
  BY <1>1, <1>2

LEMMA RoundedShare ==
  ASSUME NEW a \in Int
  PROVE  Round(10 * a, 5) = 2 * a
<1>1. (2 * (10 * a) + 5) \div (2 * 5) = 2 * a
  OBVIOUS
<1> QED
  BY <1>1 DEF Round

LEMMA FeedbackRowsStand ==
  ASSUME NEW d, RowsStand(d), NEW q
  PROVE  /\ IsFiniteSet(FeedbackRows(d, q))
         /\ \A r \in FeedbackRows(d, q) : /\ r.rating \in 1..5 /\ r.at \in Int
                                          /\ Within(r.at, ResolveRange(q))
<1>1. FeedbackRows(d, q) \subseteq d.feedback
  BY DEF FeedbackRows, BaseScope
<1>2. IsFiniteSet(FeedbackRows(d, q))
  BY <1>1, TablesFinite, FS_Subset
<1>3. \A r \in FeedbackRows(d, q) : Within(r.at, ResolveRange(q))
  BY DEF FeedbackRows
<1> QED
  BY <1>1, <1>2, <1>3 DEF RowsStand, ValuesStand

LEMMA AverageIsShown ==
  ASSUME NEW d, RowsStand(d), NEW q
  PROVE  Difference(2 * AverageFeedbackRating(d, q), Csat(d, q)) <= 1
BY FeedbackRowsStand, SatisfactionTwice DEF AverageFeedbackRating, Csat

LEMMA FeedbackAddsUp ==
  ASSUME NEW d, RowsStand(d), NEW q, QuestionStands(q), NEW f,
         f.kpis.csat = Csat(d, q)
  PROVE  FeedbackAgrees(GetFeedback(d, q), f, q)
<1> DEFINE rows == {r \in FeedbackRows(d, q) :
                      /\ q.filter.customer = None \/ r.by = q.filter.customer
                      /\ q.filter.rating = None \/ r.rating = q.filter.rating}
           g == GetFeedback(d, q)
           ticket == [r \in rows |-> r.ticket]
           at == [r \in rows |-> r.at]
<1>1. /\ g.responses = Cardinality(rows)
      /\ g.csat = Round(10 * AverageOf(Rating, rows), 5)
      /\ g.distribution = [s \in 1..5 |-> Cardinality({r \in rows : r.rating = s})]
  BY DEF GetFeedback
<1>2. /\ g.byTicket = CountBy(rows, LAMBDA r : r.ticket)
      /\ g.trend = Trend(rows, LAMBDA r : r.at, One, q)
  BY Zenon DEF GetFeedback
<1>3. /\ IsFiniteSet(rows) /\ rows \subseteq FeedbackRows(d, q)
      /\ \A r \in rows : /\ r.rating \in 1..5 /\ r.at \in Int
                         /\ Within(r.at, ResolveRange(q))
  BY FeedbackRowsStand, FS_Subset
<1>4. q.filter.customer = None /\ q.filter.rating = None => rows = FeedbackRows(d, q)
  OBVIOUS
<1> HIDE DEF rows, g
<1>5. g.responses = SumFunction(g.distribution)
  <2> DEFINE parts == [s \in 1..5 |-> {r \in rows : r.rating = s}]
             marks == 1..5
  <2>1. /\ \A s \in marks : g.distribution[s] = Cardinality(parts[s])
        /\ DOMAIN g.distribution = marks
    BY <1>1
  <2>2. /\ \A s \in marks : parts[s] \in SUBSET rows
        /\ \A s, u \in marks : s # u => parts[s] \cap parts[u] = {}
    OBVIOUS
  <2>3. InParts(rows, parts, marks) = rows
    BY <1>3 DEF InParts
  <2>4. IsFiniteSet(marks)
    BY MarksFinite
  <2> HIDE DEF parts, marks
  <2>5. Sum(g.distribution, marks) = Cardinality(InParts(rows, parts, marks))
    BY <1>3, <2>1, <2>2, <2>4, CountOfParts
  <2> QED
    BY <1>1, <2>1, <2>3, <2>5 DEF SumFunction, Sum
<1>6. g.responses = SumFunction(g.byTicket)
  <2>1. g.byTicket = [v \in {ticket[r] : r \in rows} |->
                        Cardinality({r \in rows : ticket[r] = v})]
    <3>1. /\ {ticket[r] : r \in rows} = {r.ticket : r \in rows}
          /\ \A v : {r \in rows : ticket[r] = v} = {r \in rows : r.ticket = v}
      OBVIOUS
    <3>2. g.byTicket = [v \in {r.ticket : r \in rows} |->
                          Cardinality({r \in rows : r.ticket = v})]
      BY <1>2 DEF CountBy
    <3> QED
      BY <3>1, <3>2
  <2> HIDE DEF ticket
  <2> QED
    BY <1>1, <1>3, <2>1, TableOfCounts
<1>7. Charted(q) => g.responses = SumFunction(g.trend)
  <2>1. g.trend = [b \in Buckets(q) |->
                     Sum([r \in {s \in rows : at[s] \div q.filter.width = b} |-> 1],
                         {r \in rows : at[r] \div q.filter.width = b})]
    <3>1. \A b : {r \in rows : at[r] \div q.filter.width = b}
                   = {r \in rows : r.at \div q.filter.width = b}
      OBVIOUS
    <3>2. g.trend = [b \in Buckets(q) |->
                       Sum([r \in {s \in rows : s.at \div q.filter.width = b} |-> 1],
                           {r \in rows : r.at \div q.filter.width = b})]
      BY <1>2 DEF Trend, Total, Sum, One
    <3> QED
      BY <3>1, <3>2
  <2>2. \A r \in rows : at[r] \in Int /\ Within(at[r], ResolveRange(q))
    BY <1>3
  <2> HIDE DEF at
  <2>3. Charted(q) => SumFunction(g.trend) = Cardinality(rows)
    BY <1>3, <2>1, <2>2, TrendCounts
  <2> QED
    BY <1>1, <2>3
<1>8. q.filter.customer = None /\ q.filter.rating = None =>
        Difference(g.csat, f.kpis.csat) <= 1
  <2> SUFFICES ASSUME rows = FeedbackRows(d, q)
               PROVE  Difference(g.csat, f.kpis.csat) <= 1
    BY <1>4
  <2>1. g.csat = 2 * AverageFeedbackRating(d, q)
    <3>1. AverageOf(Rating, rows) \in 0..500
      BY <1>3, RatingsAverage
    <3>2. AverageFeedbackRating(d, q) = AverageOf(Rating, rows)
      BY DEF AverageFeedbackRating
    <3>3. AverageOf(Rating, rows) \in Int
      BY <3>1
    <3> QED
      BY <1>1, <3>2, <3>3, RoundedShare
  <2> QED
    BY <2>1, AverageIsShown
<1> QED
  BY <1>5, <1>6, <1>7, <1>8 DEF FeedbackAgrees, g

\* Each response is in one group of every grouping.
LEMMA GroupsAddUp ==
  ASSUME NEW rows, IsFiniteSet(rows), NEW key,
         NEW groups, groups = [v \in {key[r] : r \in rows} |->
                                 Group({r \in rows : key[r] = v})]
  PROVE  CountOfGroups(groups) = Cardinality(rows)
<1> DEFINE g == [v \in DOMAIN groups |-> groups[v].count]
<1>1. \A S : Group(S).count = Cardinality(S)
  BY DEF Group
<1>2. g = [v \in {key[r] : r \in rows} |-> Cardinality({r \in rows : key[r] = v})]
  BY <1>1
<1> HIDE DEF g
<1>3. SumFunction(g) = Cardinality(rows)
  BY <1>2, TableOfCounts
<1> QED
  BY <1>3 DEF g, CountOfGroups

\* Scores are at most top, and so is their average.
LEMMA ScoresAverage ==
  ASSUME NEW rows, IsFiniteSet(rows), NEW top \in Nat,
         \A r \in rows : r.overall \in 1..top /\ r.overall # None
  PROVE  AverageOf(Score, rows) \in 0..100 * top
<1> DEFINE f == [r \in rows |-> Score(r)]
           n == Cardinality(rows)
           total == Total(Score, rows)
           average == AverageOf(Score, rows)
           low == 0
<1>1. total = Sum(f, rows)
  BY DEF Total, Sum
<1>2. average = IF n = 0 THEN 0 ELSE Round(100 * total, n)
  BY DEF AverageOf, Average
<1>3. n \in Nat
  BY FS_CardinalityType
<1>4. /\ low \in Int /\ top \in Int
      /\ \A r \in rows : f[r] \in Int /\ low <= f[r] /\ f[r] <= top
  BY DEF Score
<1> HIDE DEF f, n, low, total, average
<1>5. total \in Int /\ low * n <= total /\ total <= top * n
  BY <1>1, <1>4, SumBetween DEF n
<1>6. CASE n = 0
  <2>1. average = 0 /\ 100 * top \in Nat
    BY <1>2, <1>6
  <2> QED
    BY <2>1 DEF average
<1>7. CASE n # 0
  <2> DEFINE x == 100 * total
             high == 100 * top
  <2>1. high * n = 100 * (top * n) /\ low * n = 0
    BY <1>3 DEF low
  <2>2. /\ x \in Int /\ low * n <= x /\ x <= high * n /\ n \in Nat \ {0}
        /\ high \in Int /\ low \in Int
    BY <1>3, <1>4, <1>5, <1>7, <2>1
  <2> HIDE DEF x, high
  <2>3. Round(x, n) \in low..high
    BY <2>2, RoundedBetween
  <2> QED
    BY <1>2, <1>7, <2>3 DEF x, high, low, average
<1> QED
  BY <1>6, <1>7

LEMMA SurveyAddsUp ==
  ASSUME NEW d, RowsStand(d), NEW q, QuestionStands(q)
  PROVE  SurveyAgrees(SurveyAnalytics(d, q), q)
<1> DEFINE rows == {r \in FeedbackScope(d.responses, q) :
                      Passes(q.filter.form, r.form) /\ Between(r.at, q.filter)}
           scored == Scored(rows)
           requests == {r \in FeedbackScope(d.requests, q) :
                          Passes(q.filter.form, r.form) /\ Between(r.created, q.filter)}
           s == SurveyAnalytics(d, q)
<1>1. /\ s.responses = Cardinality(rows)
      /\ s.completionRate = Percent(InStatus(requests, {"COMPLETED"}),
                                    Cardinality(requests))
      /\ s.csat = Round(AverageOf(Score, scored), 5)
      /\ s.average = IF scored = {} THEN None ELSE AverageOf(Score, scored)
      /\ s.distribution = RatingDistribution(rows)
  BY ZenonT(60) DEF SurveyAnalytics
<1>2. /\ s.trends = GroupBy(rows, LAMBDA r : r.at \div q.filter.width)
      /\ s.surveys = GroupBy(rows, LAMBDA r : r.form)
      /\ ForPlatform(q) => s.organizations = GroupBy(rows, LAMBDA r : r.org)
  BY ZenonT(60) DEF SurveyAnalytics
<1>3. /\ IsFiniteSet(rows) /\ IsFiniteSet(requests)
      /\ scored \subseteq rows /\ IsFiniteSet(scored)
      /\ \A r \in scored : r.overall \in 1..10 /\ r.overall # None
  <2>1. rows \subseteq d.responses /\ requests \subseteq d.requests
    BY DEF FeedbackScope, OfOrg
  <2>2. scored \subseteq rows /\ \A r \in scored : r.overall # None
    BY DEF Scored
  <2> HIDE DEF rows, scored, requests
  <2>3. /\ IsFiniteSet(rows) /\ IsFiniteSet(requests)
        /\ \A r \in rows : r.overall \in (1..10) \cup {None}
    BY <2>1, TablesFinite, FS_Subset DEF RowsStand, ValuesStand
  <2> QED
    BY <2>2, <2>3, FS_Subset
<1> HIDE DEF rows, scored, requests, s
<1>4. SumFunction(s.distribution) = Cardinality(scored)
  <2> DEFINE parts == [v \in 1..5 |-> {r \in scored : Mark(r) = v}]
             marks == 1..5
  <2>1. /\ \A v \in marks : s.distribution[v] = Cardinality(parts[v])
        /\ DOMAIN s.distribution = marks
    BY <1>1 DEF RatingDistribution, scored
  <2>2. /\ \A v \in marks : parts[v] \in SUBSET scored
        /\ \A v, u \in marks : v # u => parts[v] \cap parts[u] = {}
    OBVIOUS
  <2>3. InParts(scored, parts, marks) = scored
    BY <1>3 DEF InParts, Mark
  <2>4. IsFiniteSet(marks)
    BY MarksFinite
  <2> HIDE DEF parts, marks
  <2>5. Sum(s.distribution, marks) = Cardinality(InParts(scored, parts, marks))
    BY <1>3, <2>1, <2>2, <2>4, CountOfParts
  <2> QED
    BY <1>1, <2>1, <2>3, <2>5 DEF SumFunction, Sum
<1>5. CountOfGroups(s.trends) = Cardinality(rows)
  <2> DEFINE key == [r \in rows |-> r.at \div q.filter.width]
             groups == s.trends
  <2>1. groups = [v \in {key[r] : r \in rows} |-> Group({r \in rows : key[r] = v})]
    <3>1. /\ {key[r] : r \in rows} = {r.at \div q.filter.width : r \in rows}
          /\ \A v : {r \in rows : key[r] = v}
                       = {r \in rows : r.at \div q.filter.width = v}
      OBVIOUS
    <3>2. groups = [v \in {r.at \div q.filter.width : r \in rows} |->
                      Group({r \in rows : r.at \div q.filter.width = v})]
      BY <1>2 DEF GroupBy
    <3> QED
      BY <3>1, <3>2
  <2> HIDE DEF key, groups
  <2>2. CountOfGroups(groups) = Cardinality(rows)
    BY <1>3, <2>1, GroupsAddUp
  <2> QED
    BY <2>2 DEF groups
<1>6. CountOfGroups(s.surveys) = Cardinality(rows)
  <2> DEFINE key == [r \in rows |-> r.form]
             groups == s.surveys
  <2>1. groups = [v \in {key[r] : r \in rows} |-> Group({r \in rows : key[r] = v})]
    <3>1. /\ {key[r] : r \in rows} = {r.form : r \in rows}
          /\ \A v : {r \in rows : key[r] = v} = {r \in rows : r.form = v}
      OBVIOUS
    <3>2. groups = [v \in {r.form : r \in rows} |-> Group({r \in rows : r.form = v})]
      BY <1>2 DEF GroupBy
    <3> QED
      BY <3>1, <3>2
  <2> HIDE DEF key, groups
  <2>2. CountOfGroups(groups) = Cardinality(rows)
    BY <1>3, <2>1, GroupsAddUp
  <2> QED
    BY <2>2 DEF groups
<1>7. ForPlatform(q) => CountOfGroups(s.organizations) = Cardinality(rows)
  <2> SUFFICES ASSUME ForPlatform(q)
               PROVE  CountOfGroups(s.organizations) = Cardinality(rows)
    OBVIOUS
  <2> DEFINE key == [r \in rows |-> r.org]
             groups == s.organizations
  <2>1. groups = [v \in {key[r] : r \in rows} |-> Group({r \in rows : key[r] = v})]
    <3>1. /\ {key[r] : r \in rows} = {r.org : r \in rows}
          /\ \A v : {r \in rows : key[r] = v} = {r \in rows : r.org = v}
      OBVIOUS
    <3>2. groups = [v \in {r.org : r \in rows} |-> Group({r \in rows : r.org = v})]
      BY <1>2 DEF GroupBy
    <3> QED
      BY <3>1, <3>2
  <2> HIDE DEF key, groups
  <2>2. CountOfGroups(groups) = Cardinality(rows)
    BY <1>3, <2>1, GroupsAddUp
  <2> QED
    BY <2>2 DEF groups
<1>8. s.completionRate \in Rate
  <2>1. /\ InStatus(requests, {"COMPLETED"}) \in Nat /\ Cardinality(requests) \in Nat
        /\ InStatus(requests, {"COMPLETED"}) <= Cardinality(requests)
    BY <1>3, StatusCounts
  <2> QED
    BY <1>1, <2>1, RateOf
<1>9. ASSUME NEW top \in {4, 10}, \A r \in scored : r.overall \in 1..top
      PROVE  s.csat \in 0..20 * top
  <2> DEFINE average == AverageOf(Score, scored)
             low == 0
             high == 20 * top
             five == 5
  <2>1. average \in 0..100 * top
    BY <1>3, <1>9, ScoresAverage
  <2> HIDE DEF average
  <2>2. /\ average \in Int /\ low \in Int /\ high \in Int /\ five \in Nat \ {0}
        /\ low * five <= average /\ average <= high * five
    BY <2>1, <1>9
  <2> HIDE DEF low, high, five
  <2>3. Round(average, five) \in low..high
    BY <2>2, RoundedBetween
  <2> QED
    BY <1>1, <2>3 DEF average, low, high, five
<1>10. s.csat \in 0..(IF s.distribution[5] > 0 THEN 200 ELSE 80)
  <2>1. s.csat \in 0..200
    BY <1>3, <1>9
  <2>2. ASSUME ~(s.distribution[5] > 0)
        PROVE  s.csat \in 0..80
    <3> DEFINE best == {r \in scored : Mark(r) = 5}
    <3>1. s.distribution[5] = Cardinality(best)
      BY <1>1 DEF RatingDistribution, scored
    <3>2. IsFiniteSet(best)
      BY <1>3, FS_Subset
    <3> HIDE DEF best
    <3>3. best = {}
      BY <2>2, <3>1, <3>2, FS_CardinalityType, FS_EmptySet
    <3>4. \A r \in scored : r.overall \in 1..4
      BY <1>3, <3>3 DEF best, Mark
    <3> QED
      BY <1>9, <3>4
  <2> QED
    BY <2>1, <2>2
<1>11. /\ Cardinality(scored) <= Cardinality(rows)
       /\ s.average = None <=> Cardinality(scored) = 0
  <2>1. Cardinality(scored) <= Cardinality(rows)
    BY <1>3, FS_Subset
  <2>2. AverageOf(Score, scored) \in Int
    <3> DEFINE top == 10
    <3>1. top \in Nat /\ \A r \in scored : r.overall \in 1..top /\ r.overall # None
      BY <1>3
    <3>2. AverageOf(Score, scored) \in 0..100 * top
      BY <1>3, <3>1, ScoresAverage
    <3> QED
      BY <3>2
  <2>3. s.average = None <=> scored = {}
    BY <1>1, <2>2, AnalyticsAssumption
  <2>4. Cardinality(scored) = 0 <=> scored = {}
    BY <1>3, FS_EmptySet
  <2> QED
    BY <2>1, <2>3, <2>4
<1> QED
  BY <1>1, <1>4, <1>5, <1>6, <1>7, <1>8, <1>10, <1>11 DEF SurveyAgrees, s

\* Agents have tickets of their own, and resolve some of those.
LEMMA PerformanceAddsUp ==
  ASSUME NEW d, RowsStand(d), NEW q, NEW t, t.total = Cardinality(Ranged(d, q))
  PROVE  PerformanceAgrees(GetAgentPerformance(d, d, q), t)
<1> DEFINE found == {v \in ActiveAgents(d, q) :
                       q.filter.agent = None \/ v.id = q.filter.agent}
           agents == {u.id : u \in found}
           rows == Ranged(d, q)
           own == [a \in agents |-> {r \in rows : r.agent = a}]
           p == GetAgentPerformance(d, d, q)
           assigned == [a \in DOMAIN p.rows |-> p.rows[a].assigned]
<1>1. p.rows = [a \in agents |-> AgentRow(rows, a)]
  BY Zenon DEF GetAgentPerformance, Ranged
<1>2. IsFiniteSet(rows)
  BY RangedTickets
<1>3. IsFiniteSet(agents)
  <2> DEFINE id == [u \in found |-> u.id]
  <2>1. found \subseteq d.users
    BY DEF ActiveAgents, BaseScope
  <2>2. IsFiniteSet(found)
    BY <2>1, TablesFinite, FS_Subset
  <2>3. agents = {id[u] : u \in found}
    OBVIOUS
  <2> HIDE DEF id, found, agents
  <2>4. IsFiniteSet({id[u] : u \in found})
    BY <2>2, KeysFinite
  <2> QED
    BY <2>3, <2>4
<1> HIDE DEF rows, agents, p
<1>4. \A a \in agents : /\ p.rows[a].assigned = Cardinality(own[a])
                        /\ p.rows[a].resolved
                             = Cardinality({r \in own[a] : r.resolved # None})
  BY <1>1 DEF AgentRow
<1>5. /\ \A a \in agents : own[a] \in SUBSET rows
      /\ \A a, b \in agents : a # b => own[a] \cap own[b] = {}
  OBVIOUS
<1>6. \A a \in agents : p.rows[a].resolved <= p.rows[a].assigned
  <2> SUFFICES ASSUME NEW a \in agents
               PROVE  p.rows[a].resolved <= p.rows[a].assigned
    OBVIOUS
  <2> DEFINE R == own[a]
             G == {r \in R : r.resolved # None}
  <2>1. /\ IsFiniteSet(R) /\ G \subseteq R
        /\ p.rows[a].assigned = Cardinality(R) /\ p.rows[a].resolved = Cardinality(G)
    BY <1>2, <1>4, <1>5, FS_Subset
  <2> HIDE DEF R, G
  <2> QED
    BY <2>1, FS_Subset
<1>7. /\ DOMAIN assigned = agents /\ DOMAIN p.rows = agents
      /\ \A a \in agents : assigned[a] = Cardinality(own[a])
  BY <1>1, <1>4
<1> HIDE DEF own, assigned
<1>8. Sum(assigned, agents) = Cardinality(InParts(rows, own, agents))
  BY <1>2, <1>3, <1>5, <1>7, CountOfParts
<1>9. Cardinality(InParts(rows, own, agents)) <= Cardinality(rows)
  BY <1>2, FS_Subset DEF InParts
<1>10. SumFunction(assigned) <= t.total
  BY <1>7, <1>8, <1>9 DEF SumFunction, Sum, rows
<1> QED
  BY <1>6, <1>7, <1>10 DEF PerformanceAgrees, assigned, p

\* What a plan has left and what is used make what it allows.
LEMMA LimitsAddUp ==
  ASSUME NEW d, RowsStand(d), NEW q, NEW s, s = SubscriptionContext(d, q), s # None
  PROVE  \A k \in DOMAIN s.used : s.used[k] <= s.limits[k] =>
           s.used[k] + s.remaining[k] = s.limits[k]
<1> DEFINE rows == Mine(d.subscriptions, q)
           limits == d.plans[(CHOOSE r \in rows : TRUE).plan].limits
           used == PlanUsage(d, q)
<1>1. /\ rows # {} /\ s = [used |-> used, limits |-> limits,
                           remaining |-> RemainingLimits(used, limits)]
  BY Zenon DEF SubscriptionContext
<1>2. DOMAIN used = Resources
  BY DEF PlanUsage, Resources
<1>3. \A k \in Resources : limits[k] \in Int
  BY <1>1 DEF RowsStand, PlansBelong, Mine
<1>4. \A k \in Resources : used[k] \in Int
  <2> DEFINE users == Mine(d.users, q)
  <2>1. /\ IsFiniteSet(users) /\ IsFiniteSet(Mine(d.tickets, q))
        /\ IsFiniteSet(Mine(d.articles, q)) /\ IsFiniteSet(Mine(d.invitations, q))
        /\ IsFiniteSet(Mine(d.files, q)) /\ IsFiniteSet(Mine(d.usage, q))
    BY TablesFinite, FS_Subset DEF Mine
  <2> DEFINE calls == {u \in Mine(d.usage, q) : u.metric = "API_CALL"}
             size == [f \in Mine(d.files, q) |-> f.size]
             value == [u \in calls |-> u.value]
  <2>2. /\ used.users = Cardinality(users)
        /\ used.customers = Cardinality({u \in users : u.role = "CUSTOMER"})
        /\ used.agents = Cardinality({u \in users : u.role = "SUPPORT_AGENT"})
        /\ used.tickets = Cardinality({t \in Mine(d.tickets, q) : t.created >= q.month})
        /\ used.articles = Cardinality(Mine(d.articles, q))
        /\ used.invitations = InStatus(Mine(d.invitations, q), {"PENDING"})
    BY DEF PlanUsage
  <2>3. /\ used.storage = Total(LAMBDA f : f.size, Mine(d.files, q))
        /\ used.apiCalls = Total(LAMBDA u : u.value, calls)
    BY Zenon DEF PlanUsage
  <2>4. used.storage = Sum(size, Mine(d.files, q)) /\ used.apiCalls = Sum(value, calls)
    BY <2>3 DEF Total, Sum
  <2>5. /\ \A f \in Mine(d.files, q) : size[f] \in Nat
        /\ \A u \in calls : value[u] \in Nat
    BY DEF RowsStand, ValuesStand, Mine
  <2>6. IsFiniteSet(calls)
    BY <2>1, FS_Subset
  <2>7. /\ IsFiniteSet({u \in users : u.role = "CUSTOMER"})
        /\ IsFiniteSet({u \in users : u.role = "SUPPORT_AGENT"})
        /\ IsFiniteSet({t \in Mine(d.tickets, q) : t.created >= q.month})
    BY <2>1, FS_Subset
  <2> HIDE DEF users, calls, size, value, used
  <2>8. used.storage \in Nat /\ used.apiCalls \in Nat
    BY <2>1, <2>4, <2>5, <2>6, SumOfNaturals
  <2>9. used.invitations \in Nat
    BY <2>1, <2>2, StatusCounts
  <2>10. /\ used.users \in Nat /\ used.customers \in Nat /\ used.agents \in Nat
         /\ used.tickets \in Nat /\ used.articles \in Nat
    BY <2>1, <2>2, <2>7, FS_CardinalityType
  <2> QED
    BY <2>8, <2>9, <2>10 DEF Resources
<1> HIDE DEF rows, limits, used
<1>5. \A k \in Resources : s.remaining[k] = Larger(0, limits[k] - used[k])
  BY <1>1, <1>2 DEF RemainingLimits
<1>6. s.used = used /\ s.limits = limits
  BY <1>1
<1> QED
  BY <1>2, <1>3, <1>4, <1>5, <1>6 DEF Larger

\* What is found of tickets and of feedback is paged.
LEMMA FoundIsPaged ==
  ASSUME NEW d, RowsStand(d), NEW q, QuestionStands(q),
         NEW found, found = Listed(TicketsFound(d, q), Created, q)
                      \/ found = ResponsesListed(d, q)
  PROVE  found.more <=> found.total > q.filter.page * q.filter.limit
<1>1. \E rows : /\ IsFiniteSet(rows) /\ found.total = Cardinality(rows)
                /\ found.more = (q.filter.page < (Cardinality(rows) + q.filter.limit - 1)
                                                   \div q.filter.limit)
  <2>1. CASE found = Listed(TicketsFound(d, q), Created, q)
    <3>1. TicketsFound(d, q) \subseteq d.tickets
      BY DEF TicketsFound, OfOrg
    <3>2. IsFiniteSet(TicketsFound(d, q))
      BY <3>1, TablesFinite, FS_Subset
    <3>3. /\ found.total = Cardinality(TicketsFound(d, q))
          /\ found.more = (q.filter.page
                             < (Cardinality(TicketsFound(d, q)) + q.filter.limit - 1)
                                 \div q.filter.limit)
      BY <2>1, Zenon DEF Listed
    <3> QED
      BY <3>2, <3>3, Zenon
  <2>2. CASE found = ResponsesListed(d, q)
    <3>1. ResponsesFound(d, q) \subseteq d.responses
      BY DEF ResponsesFound, FeedbackScope, OfOrg
    <3>2. IsFiniteSet(ResponsesFound(d, q))
      BY <3>1, TablesFinite, FS_Subset
    <3>3. /\ found.total = Cardinality(ResponsesFound(d, q))
          /\ found.more = (q.filter.page
                             < (Cardinality(ResponsesFound(d, q)) + q.filter.limit - 1)
                                 \div q.filter.limit)
      BY <2>2, Zenon DEF Listed, ResponsesListed
    <3> QED
      BY <3>2, <3>3, Zenon
  <2> QED
    BY <2>1, <2>2
<1>2. PICK rows : /\ IsFiniteSet(rows) /\ found.total = Cardinality(rows)
                  /\ found.more = (q.filter.page
                                     < (Cardinality(rows) + q.filter.limit - 1)
                                         \div q.filter.limit)
  BY <1>1
<1> DEFINE total == Cardinality(rows)
           page == q.filter.page
           limit == q.filter.limit
<1>3. total \in Nat /\ page \in Nat \ {0} /\ limit \in Nat \ {0}
  BY <1>2, FS_CardinalityType DEF QuestionStands
<1>4. found.total = total /\ found.more = (page < (total + limit - 1) \div limit)
  BY <1>2, Zenon
<1> HIDE DEF total, page, limit
<1>5. page < (total + limit - 1) \div limit <=> total > page * limit
  BY <1>3, MorePages
<1>6. found.more <=> total > page * limit
  BY <1>4, <1>5, Zenon
<1> QED
  BY <1>4, <1>6, Zenon DEF page, limit

-----------------------------------------------------------------------------
(* Money. *)

\* The amounts of payments that succeeded.
Worth(d, q) == [p \in Paid(d, q) |-> p.amount]

LEMMA PaidStands ==
  ASSUME NEW d, RowsStand(d), NEW q
  PROVE  /\ IsFiniteSet(Paid(d, q)) /\ Paid(d, q) \subseteq d.payments
         /\ \A p \in Paid(d, q) : p.amount \in Nat /\ p.paid \in Int
         /\ \A p \in Paid(d, q) : Worth(d, q)[p] \in Nat
<1>1. Paid(d, q) \subseteq d.payments /\ \A p \in Paid(d, q) : p.status = "SUCCESSFUL"
  BY DEF Paid, BaseScope
<1>2. IsFiniteSet(Paid(d, q))
  BY <1>1, TablesFinite, FS_Subset
<1>3. \A p \in Paid(d, q) : p.amount \in Nat /\ p.paid \in Int
  BY <1>1 DEF RowsStand, PaymentsStand
<1> QED
  BY <1>1, <1>2, <1>3 DEF Worth

\* What some of those payments come to.
LEMMA AmountsOfSome ==
  ASSUME NEW d, RowsStand(d), NEW q, NEW rows \in SUBSET Paid(d, q)
  PROVE  Total(Amount, rows) = Sum(Worth(d, q), rows)
<1> DEFINE f == [p \in rows |-> p.amount]
<1>1. Total(Amount, rows) = Sum(f, rows)
  BY DEF Total, Amount, Sum
<1>2. \A p \in rows : f[p] \in Int /\ f[p] = Worth(d, q)[p]
  BY PaidStands DEF Worth
<1>3. IsFiniteSet(rows)
  BY PaidStands, FS_Subset
<1> HIDE DEF f
<1>4. Sum(f, rows) = Sum(Worth(d, q), rows)
  BY <1>2, <1>3, SumOfSame
<1> QED
  BY <1>1, <1>4

LEMMA AmountsCompare ==
  ASSUME NEW d, RowsStand(d), NEW q, NEW rows \in SUBSET Paid(d, q),
         NEW some \in SUBSET rows
  PROVE  /\ Total(Amount, some) \in Nat /\ Total(Amount, rows) \in Nat
         /\ Total(Amount, some) <= Total(Amount, rows)
<1> DEFINE f == Worth(d, q)
<1>1. \A p \in rows : f[p] \in Nat
  BY PaidStands
<1>2. IsFiniteSet(rows)
  BY PaidStands, FS_Subset
<1> HIDE DEF f
<1>3. Sum(f, some) \in Nat /\ Sum(f, rows) \in Nat /\ Sum(f, some) <= Sum(f, rows)
  BY <1>1, <1>2, SumOfPart
<1>4. Total(Amount, some) = Sum(f, some) /\ Total(Amount, rows) = Sum(f, rows)
  BY AmountsOfSome DEF f
<1> QED
  BY <1>3, <1>4

LEMMA PlansAddUp ==
  ASSUME NEW d, RowsStand(d), NEW q
  PROVE  TotalRevenue(d, q) = SumFunction(RevenueByPlan(d, q))
<1> DEFINE rows == Paid(d, q)
           plan == [p \in rows |-> p.plan]
           f == Worth(d, q)
           g == RevenueByPlan(d, q)
<1>1. g = [v \in {p.plan : p \in rows} |-> Total(Amount, {p \in rows : p.plan = v})]
  BY DEF RevenueByPlan, SumBy
<1>2. \A v : Total(Amount, {p \in rows : p.plan = v}) = Sum(f, {p \in rows : p.plan = v})
  BY AmountsOfSome
<1>3. /\ {p.plan : p \in rows} = {plan[p] : p \in rows}
      /\ \A v : {p \in rows : p.plan = v} = {p \in rows : plan[p] = v}
  OBVIOUS
<1>4. g = [v \in {plan[p] : p \in rows} |-> Sum(f, {p \in rows : plan[p] = v})]
  <2> HIDE DEF f, g, plan, rows
  <2>1. g = [v \in {p.plan : p \in rows} |-> Sum(f, {p \in rows : p.plan = v})]
    BY <1>1, <1>2
  <2> QED
    BY <1>3, <2>1
<1>5. IsFiniteSet(rows) /\ \A p \in rows : f[p] \in Int
  BY PaidStands
<1>6. TotalRevenue(d, q) = Sum(f, rows)
  BY AmountsOfSome DEF TotalRevenue
<1> HIDE DEF rows, plan, f, g
<1>7. SumFunction(g) = Sum(f, rows)
  BY <1>4, <1>5, TableOfSums
<1> QED
  BY <1>6, <1>7 DEF g

LEMMA RevenueTrendAddsUp ==
  ASSUME NEW d, RowsStand(d), NEW q, QuestionStands(q)
  PROVE  SumFunction(RevenueTrend(d, q)) <= TotalRevenue(d, q)
<1> DEFINE rows == {p \in Paid(d, q) : Within(p.paid, ResolveRange(q))}
           at == [p \in rows |-> p.paid]
           f == Worth(d, q)
           g == RevenueTrend(d, q)
<1>1. IsFiniteSet(rows) /\ rows \subseteq Paid(d, q)
  BY PaidStands, FS_Subset
<1>2. /\ \A p \in rows : at[p] \in Int /\ Within(at[p], ResolveRange(q))
      /\ \A p \in rows : f[p] \in Nat
  BY PaidStands
<1>3. g = [b \in Buckets(q) |-> Total(Amount, {p \in rows : p.paid \div q.filter.width = b})]
  BY DEF RevenueTrend, Trend
<1>4. \A b : {p \in rows : p.paid \div q.filter.width = b}
               = {p \in rows : at[p] \div q.filter.width = b}
  OBVIOUS
<1>5. DOMAIN g = Buckets(q)
  BY <1>3
<1> HIDE DEF rows, f, g
<1>6. \A b \in Buckets(q) : g[b] = Sum(f, {p \in rows : at[p] \div q.filter.width = b})
  <2>1. \A b : Total(Amount, {p \in rows : p.paid \div q.filter.width = b})
                 = Sum(f, {p \in rows : p.paid \div q.filter.width = b})
    BY <1>1, AmountsOfSome DEF f
  <2> HIDE DEF at
  <2> QED
    BY <1>3, <1>4, <2>1
<1> HIDE DEF at
<1>7. SumFunction(g) \in Nat /\ Sum(f, rows) \in Nat /\ SumFunction(g) <= Sum(f, rows)
  BY <1>1, <1>2, <1>5, <1>6, TrendAddsUp
<1>8. Total(Amount, rows) = Sum(f, rows)
  BY <1>1, AmountsOfSome DEF f
<1>9. Total(Amount, rows) <= TotalRevenue(d, q) /\ TotalRevenue(d, q) \in Nat
  BY <1>1, AmountsCompare DEF TotalRevenue
<1> QED
  BY <1>7, <1>8, <1>9 DEF g

\* Every subscription is in one status, and of one of the plans.
LEMMA DistributionsAddUp ==
  ASSUME NEW d, RowsStand(d), NEW q
  PROVE  SumFunction(SubscriptionDistribution(d, q).byPlan)
           = SumFunction(SubscriptionDistribution(d, q).byStatus)
<1> DEFINE rows == BaseScope(d.subscriptions, q)
           plans == DOMAIN d.plans
           plan == [s \in rows |-> s.plan]
           g == SubscriptionDistribution(d, q).byPlan
<1>1. g = [p \in plans |-> Cardinality({s \in rows : s.plan = p})]
  BY DEF SubscriptionDistribution
<1>2. SubscriptionDistribution(d, q).byStatus = CountBy(rows, Status)
  BY DEF SubscriptionDistribution
<1>3. rows \subseteq d.subscriptions
  BY DEF BaseScope
<1>4. IsFiniteSet(rows) /\ IsFiniteSet(plans)
  BY <1>3, TablesFinite, FS_Subset DEF RowsStand
<1>5. \A s \in rows : plan[s] \in plans
  BY <1>3 DEF RowsStand, PlansBelong
<1>6. /\ DOMAIN g = plans
      /\ \A p \in plans : g[p] = Cardinality({s \in rows : plan[s] = p})
  <2>1. \A p : {s \in rows : s.plan = p} = {s \in rows : plan[s] = p}
    OBVIOUS
  <2> QED
    BY <1>1, <2>1
<1> HIDE DEF rows, plans, plan, g
<1>7. Sum(g, plans) = Cardinality({s \in rows : plan[s] \in plans})
  BY <1>4, <1>6, CountByKey
<1>8. {s \in rows : plan[s] \in plans} = rows
  BY <1>5
<1>9. SumFunction(g) = Cardinality(rows)
  BY <1>6, <1>7, <1>8 DEF SumFunction, Sum
<1> QED
  BY <1>2, <1>4, <1>9, StatusCounts DEF g

LEMMA MoneyAddsUp ==
  ASSUME NEW d, RowsStand(d), NEW q, QuestionStands(q)
  PROVE  MoneyAgrees(GetRevenue(d, q), ComputeKpis(d, q))
<1> DEFINE m == GetRevenue(d, q)
           kpis == ComputeKpis(d, q)
<1>1. /\ m.total = TotalRevenue(d, q) /\ m.byPlan = RevenueByPlan(d, q)
      /\ m.monthly = MonthlyRevenue(d, q) /\ m.annual = AnnualRevenue(d, q)
      /\ m.trend = RevenueTrend(d, q)
      /\ m.distribution = SubscriptionDistribution(d, q)
  BY DEF GetRevenue
<1>2. kpis.monthly = MonthlyRevenue(d, q) /\ kpis.annual = AnnualRevenue(d, q)
  BY DEF ComputeKpis
<1> HIDE DEF m, kpis
<1>3. m.monthly <= m.annual /\ m.annual <= m.total
  <2> DEFINE From(start) == {p \in Paid(d, q) : p.paid >= start}
  <2>1. From(q.month) \subseteq From(q.year)
    BY PaidStands DEF QuestionStands
  <2>2. /\ MonthlyRevenue(d, q) = Total(Amount, From(q.month))
        /\ AnnualRevenue(d, q) = Total(Amount, From(q.year))
        /\ TotalRevenue(d, q) = Total(Amount, Paid(d, q))
    BY DEF MonthlyRevenue, AnnualRevenue, TotalRevenue, PaidFrom
  <2>3. From(q.year) \subseteq Paid(d, q)
    OBVIOUS
  <2> HIDE DEF From
  <2>4. /\ Total(Amount, From(q.month)) <= Total(Amount, From(q.year))
        /\ Total(Amount, From(q.year)) <= Total(Amount, Paid(d, q))
    BY <2>1, <2>3, AmountsCompare
  <2> QED
    BY <1>1, <2>2, <2>4
<1> QED
  BY <1>1, <1>2, <1>3, PlansAddUp, RevenueTrendAddsUp, DistributionsAddUp
     DEF MoneyAgrees, m, kpis

\* The payments of a range are some of all.
LEMMA PaymentsAddUp ==
  ASSUME NEW d, RowsStand(d), NEW q
  PROVE  /\ SuccessRate(PaymentReads(d, q)) \in Rate
         /\ PaymentReads(d, q).revenue <= GetRevenue(d, q).total
<1> DEFINE rows == CreatedIn(BaseScope(d.payments, q), q)
           paid == {p \in rows : p.status = "SUCCESSFUL"}
           p == PaymentReads(d, q)
<1>1. /\ p.total = Cardinality(rows) /\ p.successful = Cardinality(paid)
      /\ p.revenue = Total(Amount, paid)
  BY DEF PaymentReads
<1>2. rows \subseteq d.payments /\ paid \subseteq rows /\ paid \subseteq Paid(d, q)
  BY DEF CreatedIn, BaseScope, Paid
<1>3. GetRevenue(d, q).total = Total(Amount, Paid(d, q))
  BY DEF GetRevenue, TotalRevenue
<1> HIDE DEF rows, paid, p
<1>4. IsFiniteSet(rows)
  BY <1>2, TablesFinite, FS_Subset
<1>5. /\ Cardinality(paid) \in Nat /\ Cardinality(rows) \in Nat
      /\ Cardinality(paid) <= Cardinality(rows)
  BY <1>2, <1>4, FS_Subset, FS_CardinalityType
<1>6. SuccessRate(p) \in Rate
  BY <1>1, <1>5, RateOf DEF SuccessRate
<1>7. p.revenue <= GetRevenue(d, q).total
  BY <1>1, <1>2, <1>3, AmountsCompare
<1> QED
  BY <1>6, <1>7 DEF p

LEMMA CustomersAddUp ==
  ASSUME NEW d, RowsStand(d), NEW q, QuestionStands(q), Charted(q)
  PROVE  GetCustomers(d, q).total = SumFunction(GetCustomers(d, q).trend)
<1> DEFINE rows == CreatedIn(Customers(d, q), q)
           at == [u \in rows |-> u.created]
           g == CustomerGrowth(d, q)
<1>1. GetCustomers(d, q).total = Cardinality(rows) /\ GetCustomers(d, q).trend = g
  BY DEF GetCustomers
<1>2. rows \subseteq d.users /\ \A u \in rows : Within(u.created, ResolveRange(q))
  BY DEF CreatedIn, Customers, BaseScope
<1>3. IsFiniteSet(rows)
  BY <1>2, TablesFinite, FS_Subset
<1>4. \A u \in rows : at[u] \in Int /\ Within(at[u], ResolveRange(q))
  BY <1>2 DEF RowsStand, ValuesStand
<1>5. g = [b \in Buckets(q) |->
             Sum([r \in {s \in rows : at[s] \div q.filter.width = b} |-> 1],
                 {r \in rows : at[r] \div q.filter.width = b})]
  <2>1. g = [b \in Buckets(q) |->
               Sum([r \in {s \in rows : s.created \div q.filter.width = b} |-> 1],
                   {r \in rows : r.created \div q.filter.width = b})]
    BY DEF CustomerGrowth, Trend, Total, Sum, One, Created
  <2>2. \A b : {r \in rows : r.created \div q.filter.width = b}
                 = {r \in rows : at[r] \div q.filter.width = b}
    OBVIOUS
  <2> QED
    BY <2>1, <2>2
<1> HIDE DEF rows, at, g
<1>6. SumFunction(g) = Cardinality(rows)
  BY <1>3, <1>4, <1>5, TrendCounts
<1> QED
  BY <1>1, <1>6

-----------------------------------------------------------------------------
(* Charts. *)

\* c is a, of length m, and then b, of length n.
Joins(c, a, b, m, n, S) ==
  /\ m \in Nat /\ n \in Nat /\ c \in Seq(S) /\ Len(c) = m + n
  /\ \A i \in 1..m : c[i] = a[i]
  /\ \A i \in 1..n : c[m + i] = b[i]

LEMMA Joined ==
  ASSUME NEW S, NEW a \in Seq(S), NEW b \in Seq(S)
  PROVE  Joins(a \o b, a, b, Len(a), Len(b), S)
<1> DEFINE c == a \o b
           m == Len(a)
           n == Len(b)
<1>1. /\ c \in Seq(S) /\ Len(c) = m + n
      /\ \A i \in 1..m + n : c[i] = IF i <= m THEN a[i] ELSE b[i - m]
  BY ConcatProperties
<1>2. m \in Nat /\ n \in Nat
  BY LenProperties
<1> HIDE DEF c, m, n
<1>3. \A i \in 1..m : c[i] = a[i]
  BY <1>1, <1>2
<1>4. \A i \in 1..n : c[m + i] = b[i]
  <2> SUFFICES ASSUME NEW i \in 1..n
               PROVE  c[m + i] = b[i]
    OBVIOUS
  <2>1. m + i \in 1..m + n /\ ~(m + i <= m) /\ (m + i) - m = i
    BY <1>2
  <2> QED
    BY <1>1, <2>1
<1>5. Joins(c, a, b, m, n, S)
  BY <1>1, <1>2, <1>3, <1>4 DEF Joins
<1> QED
  BY <1>5 DEF c, m, n

\* A list of three charts: two of the series, and one of the categories.
Three(c, series, categories, S) ==
  /\ c \in Seq(S) /\ Len(c) = 3
  /\ c[1] = [type |-> "line", data |-> series]
  /\ c[2] = [type |-> "bar", data |-> series]
  /\ c[3] = [type |-> "pie", data |-> categories]

LEMMA ThreeDrawn ==
  ASSUME NEW series, NEW categories, NEW S,
         [type |-> "line", data |-> series] \in S,
         [type |-> "bar", data |-> series] \in S,
         [type |-> "pie", data |-> categories] \in S
  PROVE  Three(ComposeCharts(series, categories, ChartTypes), series, categories, S)
<1> DEFINE line == [type |-> "line", data |-> series]
           bar == [type |-> "bar", data |-> series]
           pie == [type |-> "pie", data |-> categories]
<1>1. /\ DOMAIN ChartTypes = {1, 2, 3} /\ ChartTypes[1] = "line"
      /\ ChartTypes[2] = "bar" /\ ChartTypes[3] = "pie"
  BY DEF ChartTypes
<1>2. /\ Drawn("line", series, ChartTypes) = <<line>>
      /\ Drawn("bar", series, ChartTypes) = <<bar>>
      /\ Drawn("area", series, ChartTypes) = <<>>
      /\ Drawn("trend", series, ChartTypes) = <<>>
      /\ Drawn("pie", categories, ChartTypes) = <<pie>>
      /\ Drawn("donut", categories, ChartTypes) = <<>>
  BY <1>1 DEF Drawn
<1>3. ComposeCharts(series, categories, ChartTypes)
        = <<line>> \o <<bar>> \o <<>> \o <<>> \o <<pie>> \o <<>>
  BY <1>2 DEF ComposeCharts
<1>4. line \in S /\ bar \in S /\ pie \in S
  OBVIOUS
<1> HIDE DEF line, bar, pie
<1>5. <<line>> \in Seq(S) /\ <<bar>> \in Seq(S) /\ <<pie>> \in Seq(S)
  BY <1>4
<1> DEFINE two == <<line>> \o <<bar>>
           three == two \o <<pie>>
<1>6. two \in Seq(S) /\ Len(two) = 2 /\ two[1] = line /\ two[2] = bar
  BY <1>5, ConcatProperties
<1> HIDE DEF two
<1>7. /\ three \in Seq(S) /\ Len(three) = 3
      /\ three[1] = line /\ three[2] = bar /\ three[3] = pie
  <2> DEFINE last == <<pie>>
             m == Len(two)
             n == Len(last)
  <2>1. last \in Seq(S) /\ n = 1 /\ m = 2 /\ last[1] = pie
    BY <1>5, <1>6
  <2> HIDE DEF last, m, n
  <2>2. /\ three \in Seq(S) /\ Len(three) = m + n
        /\ \A i \in 1..m : three[i] = two[i]
        /\ \A i \in 1..n : three[m + i] = last[i]
    <3>1. Joins(three, two, last, m, n, S)
      BY <1>6, <2>1, Joined DEF last, m, n
    <3> QED
      BY <3>1 DEF Joins
  <2> HIDE DEF three
  <2>3. 1 \in 1..m /\ 2 \in 1..m /\ 1 \in 1..n /\ m + 1 = 3 /\ m + n = 3
    BY <2>1
  <2> QED
    BY <1>6, <2>1, <2>2, <2>3
<1>8. two \o <<>> = two /\ three \o <<>> = three
  BY <1>6, <1>7, ConcatEmptySeq
<1>9. ComposeCharts(series, categories, ChartTypes) = three
  BY <1>3, <1>8 DEF two
<1> QED
  BY <1>7, <1>9 DEF Three, line, bar, pie

\* After the first m of s comes a, of length n.
Holds(s, m, a, n, S) ==
  a \in Seq(S) /\ n = Len(a) /\ m \in Nat /\ \A i \in 1..n : s[m + i] = a[i]

LEMMA CutOut ==
  ASSUME NEW S, NEW s, NEW a, NEW n, NEW m, Holds(s, m, a, n, S)
  PROVE  SubSeq(s, m + 1, m + n) = a
<1> DEFINE first == m + 1
           last == m + n
           t == SubSeq(s, first, last)
<1>0. /\ a \in Seq(S) /\ n = Len(a) /\ m \in Nat /\ first = m + 1 /\ last = m + n
      /\ \A i \in 1..n : s[m + i] = a[i]
  BY DEF Holds
<1> HIDE DEF first, last
<1>1. n \in Nat /\ \A i \in 1..n : a[i] \in S
  BY <1>0, LenProperties, ElementOfSeq
<1>2. \A j \in first..last : s[j] \in S
  <2> SUFFICES ASSUME NEW j \in first..last
               PROVE  s[j] \in S
    OBVIOUS
  <2>1. j - m \in 1..n /\ m + (j - m) = j
    BY <1>0, <1>1
  <2> QED
    BY <1>0, <1>1, <2>1
<1>3. first \in Int /\ last \in Int
  BY <1>0, <1>1
<1>4. /\ last - first + 1 = n /\ (first <= last \/ n = 0)
      /\ \A i \in Int : first + i - 1 = m + i
  BY <1>0, <1>1
<1>5. /\ t \in Seq(S) /\ Len(t) = IF first <= last THEN last - first + 1 ELSE 0
      /\ \A i \in 1..last - first + 1 : t[i] = s[first + i - 1]
  BY <1>2, <1>3, SubSeqProperties
<1> HIDE DEF t
<1>6. Len(t) = n
  BY <1>1, <1>3, <1>4, <1>5
<1>7. \A i \in 1..n : t[i] = a[i]
  <2> SUFFICES ASSUME NEW i \in 1..n
               PROVE  t[i] = a[i]
    OBVIOUS
  <2>1. t[i] = s[first + i - 1] /\ first + i - 1 = m + i
    BY <1>4, <1>5
  <2> QED
    BY <1>0, <2>1
<1>8. Len(t) = Len(a) /\ \A i \in 1..Len(t) : t[i] = a[i]
  BY <1>0, <1>6, <1>7
<1>9. t = a
  BY <1>0, <1>5, <1>8, SeqEqual
<1> QED
  BY <1>9 DEF t, first, last

\* Three lists of a length, one after the other, are cut where they were joined.
LEMMA CutInThree ==
  ASSUME NEW S, NEW a \in Seq(S), NEW b \in Seq(S), NEW c \in Seq(S),
         NEW n, Len(a) = n, Len(b) = n, Len(c) = n,
         NEW all, all = a \o b \o c
  PROVE  /\ SubSeq(all, 1, n) = a /\ SubSeq(all, n + 1, 2 * n) = b
         /\ SubSeq(all, 2 * n + 1, Len(all)) = c
<1> DEFINE two == a \o b
           none == 0
           both == n + n
<1>0. both = n + n /\ none = 0 /\ all = two \o c
  OBVIOUS
<1>1. Joins(two, a, b, n, n, S)
  <2>1. Joins(a \o b, a, b, Len(a), Len(b), S) /\ Len(a) = n /\ Len(b) = n
    BY Joined
  <2> QED
    BY <2>1, Zenon
<1> HIDE DEF two, none, both
<1>2. both \in Nat /\ none \in Nat /\ n \in Nat /\ \A i \in Int : none + i = i
  BY <1>0, <1>1 DEF Joins
<1>3. two \in Seq(S) /\ Len(two) = both
  BY <1>0, <1>1 DEF Joins
<1>4. Joins(all, two, c, both, n, S)
  <2>1. Joins(two \o c, two, c, Len(two), Len(c), S) /\ Len(two) = both /\ Len(c) = n
    BY <1>3, Joined
  <2> QED
    BY <1>0, <2>1, Zenon
<1>5. /\ \A i \in 1..n : all[none + i] = a[i]
      /\ \A i \in 1..n : all[n + i] = b[i]
  <2> SUFFICES ASSUME NEW i \in 1..n
               PROVE  all[none + i] = a[i] /\ all[n + i] = b[i]
    OBVIOUS
  <2>1. i \in 1..both /\ n + i \in 1..both /\ none + i = i
    BY <1>0, <1>2
  <2> QED
    BY <1>1, <1>4, <2>1 DEF Joins
<1>6. /\ Holds(all, none, a, n, S) /\ Holds(all, n, b, n, S)
      /\ Holds(all, both, c, n, S)
  BY <1>2, <1>4, <1>5 DEF Joins, Holds
<1>7. /\ SubSeq(all, none + 1, none + n) = a /\ SubSeq(all, n + 1, n + n) = b
      /\ SubSeq(all, both + 1, both + n) = c
  BY <1>6, CutOut
<1>8. /\ none + 1 = 1 /\ none + n = n /\ n + n = 2 * n
      /\ both + 1 = 2 * n + 1 /\ both + n = Len(all)
  BY <1>0, <1>2, <1>4 DEF Joins
<1> QED
  BY <1>7, <1>8

\* The charts of tickets and of revenue show the same tickets as categories.
LEMMA ChartsAddUp ==
  ASSUME NEW d, RowsStand(d), NEW q, QuestionStands(q)
  PROVE  ChartsAgree(GetCharts(d, q, ChartTypes))
<1> DEFINE rows == TicketScope(d, q)
           trend == TicketTrend(d, q)
           revenue == RevenueTrend(d, q)
           growth == CustomerGrowth(d, q)
           statuses == CountBy(rows, Status)
           priorities == CountBy(rows, LAMBDA t : t.priority)
           none == <<>>
           S == [type : {"line", "bar", "pie"},
                 data : {trend, revenue, growth, statuses, priorities, none}]
           a == ComposeCharts(trend, statuses, ChartTypes)
           b == ComposeCharts(revenue, priorities, ChartTypes)
           c == ComposeCharts(growth, none, ChartTypes)
           all == a \o b \o c
           f == GetCharts(d, q, ChartTypes)
<1>1. Len(ChartTypes) = 3
  BY DEF ChartTypes
<1>2. /\ f.ticketCharts = SubSeq(all, 1, Len(ChartTypes))
      /\ f.revenueCharts = SubSeq(all, Len(ChartTypes) + 1, 2 * Len(ChartTypes))
      /\ f.customerCharts = SubSeq(all, 2 * Len(ChartTypes) + 1, Len(all))
  BY ZenonT(60) DEF GetCharts
<1>3. /\ SumFunction(trend) <= Cardinality(rows)
      /\ SumFunction(statuses) = Cardinality(rows)
      /\ SumFunction(priorities) = Cardinality(rows)
  <2>1. rows \subseteq d.tickets /\ Ranged(d, q) \subseteq rows
    BY DEF TicketScope, BaseScope, Ranged, CreatedIn
  <2>2. IsFiniteSet(rows)
    BY <2>1, TablesFinite, FS_Subset
  <2>3. /\ Cardinality(Ranged(d, q)) <= Cardinality(rows)
        /\ Cardinality(Ranged(d, q)) \in Nat /\ Cardinality(rows) \in Nat
    BY <2>1, <2>2, FS_Subset, FS_CardinalityType
  <2>4. /\ SumFunction(trend) \in Nat
        /\ SumFunction(trend) <= Cardinality(Ranged(d, q))
    BY TicketTrendAddsUp
  <2>5. SumFunction(statuses) = Cardinality(rows)
    BY <2>2, StatusCounts
  <2>6. SumFunction(priorities) = Cardinality(rows)
    BY <2>2, PriorityCounts
  <2> HIDE DEF rows, trend, statuses, priorities
  <2> QED
    BY <2>3, <2>4, <2>5, <2>6
<1> HIDE DEF rows, trend, revenue, growth, statuses, priorities, none, f
<1>4. /\ Three(a, trend, statuses, S) /\ Three(b, revenue, priorities, S)
      /\ Three(c, growth, none, S)
  BY ThreeDrawn
<1> HIDE DEF a, b, c, S, all
<1>5. /\ a \in Seq(S) /\ b \in Seq(S) /\ c \in Seq(S)
      /\ Len(a) = 3 /\ Len(b) = 3 /\ Len(c) = 3
  BY <1>4 DEF Three
<1> DEFINE n == Len(ChartTypes)
<1>6. n \in Nat /\ Len(a) = n /\ Len(b) = n /\ Len(c) = n
  BY <1>1, <1>5
<1> HIDE DEF n
<1>7. f.ticketCharts = a /\ f.revenueCharts = b /\ f.customerCharts = c
  <2>1. /\ SubSeq(all, 1, n) = a /\ SubSeq(all, n + 1, 2 * n) = b
        /\ SubSeq(all, 2 * n + 1, Len(all)) = c
    BY <1>5, <1>6, CutInThree DEF all
  <2> QED
    BY <1>2, <2>1 DEF n
<1>8. \A charts \in {a, b, c} : [i \in DOMAIN charts |-> charts[i].type] = ChartTypes
  <2> SUFFICES ASSUME NEW charts \in {a, b, c}
               PROVE  [i \in DOMAIN charts |-> charts[i].type] = ChartTypes
    OBVIOUS
  <2>1. /\ DOMAIN charts = 1..3 /\ charts[1].type = "line"
        /\ charts[2].type = "bar" /\ charts[3].type = "pie"
    BY <1>4 DEF Three
  <2>2. ChartTypes = [i \in 1..3 |-> ChartTypes[i]]
    BY DEF ChartTypes
  <2>3. \A i \in 1..3 : charts[i].type = ChartTypes[i]
    BY <2>1 DEF ChartTypes
  <2> QED
    BY <2>1, <2>2, <2>3
<1>9. a[1].data = trend /\ a[3].data = statuses /\ b[3].data = priorities
  BY <1>4 DEF Three
<1> QED
  BY <1>1, <1>3, <1>7, <1>8, <1>9 DEF ChartsAgree, f

-----------------------------------------------------------------------------
(* Answers. *)

\* What an answer may have, of what its figures are compared by.
Compared == {"found", "tickets", "feedback", "averageRating", "performance",
             "subscription"}

Shows(f, S) == DOMAIN f \cap Compared = S

LEMMA DashboardsTell ==
  ASSUME NEW d, NEW q
  PROVE  /\ Shows(PlatformReads(d, q), {"tickets", "averageRating"})
         /\ Shows(TenantReads(d, q), {"tickets", "feedback", "performance", "subscription"})
         /\ Shows(AgentReads(d, q), {"tickets", "performance"})
         /\ Shows(CustomerReads(d, q), {"tickets"})
<1>1. DOMAIN PlatformReads(d, q) =
        {"counts", "recent", "tickets", "mrr", "arr", "distribution", "storage",
         "apiCalls", "kpis", "averageRating", "revenue", "trend", "monthly", "annual",
         "growth", "health"}
  BY SMTT(30) DEF PlatformReads
<1>2. DOMAIN TenantReads(d, q) =
        {"tickets", "feedback", "customers", "agents", "storage", "subscription",
         "payments", "kpis", "performance"}
  BY SMTT(30) DEF TenantReads
<1>3. DOMAIN AgentReads(d, q) = {"tickets", "performance", "ratings"}
  BY DEF AgentReads
<1>4. DOMAIN CustomerReads(d, q) = {"tickets", "pending", "submitted"}
  BY DEF CustomerReads
<1> QED
  BY <1>1, <1>2, <1>3, <1>4 DEF Shows, Compared

LEMMA OthersTell ==
  ASSUME NEW d, NEW q
  PROVE  /\ Shows(AggregateReads(d, q), {"tickets", "feedback"})
         /\ Shows(ReportReads(d, q), {"tickets", "feedback"})
         /\ Shows(GetCharts(d, q, ChartTypes), {}) /\ Shows(SearchReads(d, q), {})
         /\ Shows(UsageReads(d, q), {}) /\ Shows(PortalReads(d, q), {})
         /\ \A found : Shows([found |-> found], {"found"})
         /\ \A survey : Shows([survey |-> survey], {})
<1>1. DOMAIN AggregateReads(d, q) = {"tickets", "feedback", "payments", "customers",
                                     "usage", "articles", "revenue", "kpis"}
  BY DEF AggregateReads
<1>2. DOMAIN ReportReads(d, q) = {"tickets", "feedback", "payments", "customers",
                                  "kpis", "rows"}
  BY DEF ReportReads
<1>3. DOMAIN GetCharts(d, q, ChartTypes)
        = {"ticketCharts", "revenueCharts", "customerCharts", "feedbackTrend"}
  BY DEF GetCharts
<1>4. DOMAIN SearchReads(d, q) = {"entities", "reports"}
  BY DEF SearchReads
<1>5. DOMAIN UsageReads(d, q) = {"overview", "context", "entitled", "granted"}
  BY DEF UsageReads
<1>6. DOMAIN PortalReads(d, q) = {"recent", "ticketStats", "notices", "unread",
                                  "surveys", "categories", "quickLinks"}
  BY DEF PortalReads
<1> QED
  BY <1>1, <1>2, <1>3, <1>4, <1>5, <1>6 DEF Shows, Compared

LEMMA OwnTicketsAddUp ==
  ASSUME NEW d, RowsStand(d), NEW q, QuestionStands(q)
  PROVE  /\ TicketsAgree(TicketReads(d, Own(q)), q)
         /\ TicketReads(d, Own(q)).total = Cardinality(Ranged(d, Own(q)))
<1> DEFINE own == Own(q)
           t == TicketReads(d, own)
<1>1. QuestionStands(own) /\ (Charted(own) <=> Charted(q))
  BY OwnStands
<1> HIDE DEF own
<1>2. TicketsAgree(t, own) /\ t.total = Cardinality(Ranged(d, own))
  BY <1>1, TicketsAddUp
<1> HIDE DEF t
<1>3. TicketsAgree(t, q)
  BY <1>1, <1>2 DEF TicketsAgree
<1> QED
  BY <1>2, <1>3 DEF t, own

LEMMA AggregatePiece ==
  ASSUME NEW d, RowsStand(d), NEW q \in Questions, q.kind = "aggregate"
  PROVE  OfOnePiece(DashboardReads(d, q), q)
<1> DEFINE f == DashboardReads(d, q)
<1>1. f = AggregateReads(d, q) /\ QuestionStands(q)
  BY DashboardsAssumption DEF DashboardReads, ListingKinds
<1>2. /\ f.tickets = TicketReads(d, q) /\ f.feedback = GetFeedback(d, q)
      /\ f.payments = PaymentReads(d, q) /\ f.customers = GetCustomers(d, q)
      /\ f.revenue = GetRevenue(d, q) /\ f.kpis = ComputeKpis(d, q)
  BY <1>1 DEF AggregateReads
<1>3. Shows(f, {"tickets", "feedback"})
  BY <1>1, OthersTell
<1>4. ServicesAgree(f, q)
  BY ServicesCountAlike
<1>5. ComputeKpis(d, q).csat = Csat(d, q)
  BY DEF ComputeKpis
<1> HIDE DEF f
<1>6. TicketsAgree(f.tickets, q)
  BY <1>1, <1>2, TicketsAddUp
<1>7. FeedbackAgrees(f.feedback, f, q)
  BY <1>1, <1>2, <1>5, FeedbackAddsUp
<1>8. MoneyAgrees(f.revenue, f.kpis)
  BY <1>1, <1>2, MoneyAddsUp
<1>9. SuccessRate(f.payments) \in Rate /\ f.payments.revenue <= f.revenue.total
  BY <1>2, PaymentsAddUp
<1>10. Charted(q) => f.customers.total = SumFunction(f.customers.trend)
  BY <1>1, <1>2, CustomersAddUp
<1>11. /\ ~Has(f, "found") /\ ~Has(f, "averageRating") /\ ~Has(f, "performance")
       /\ ~Has(f, "subscription")
  BY <1>3 DEF Has, Shows, Compared
<1> QED
  BY <1>4, <1>6, <1>7, <1>8, <1>9, <1>10, <1>11 DEF OfOnePiece, f

LEMMA ReportPiece ==
  ASSUME NEW d, RowsStand(d), NEW q \in Questions, q.kind = "report"
  PROVE  OfOnePiece(DashboardReads(d, q), q)
<1> DEFINE f == DashboardReads(d, q)
<1>1. f = ReportReads(d, q) /\ QuestionStands(q)
  BY DashboardsAssumption DEF DashboardReads, ListingKinds
<1>2. /\ f.tickets = TicketReads(d, q) /\ f.feedback = GetFeedback(d, q)
      /\ f.kpis = ComputeKpis(d, q)
  BY <1>1 DEF ReportReads
<1>3. Shows(f, {"tickets", "feedback"})
  BY <1>1, OthersTell
<1>4. ServicesAgree(f, q)
  BY ServicesCountAlike
<1>5. ComputeKpis(d, q).csat = Csat(d, q)
  BY DEF ComputeKpis
<1> HIDE DEF f
<1>6. TicketsAgree(f.tickets, q)
  BY <1>1, <1>2, TicketsAddUp
<1>7. FeedbackAgrees(f.feedback, f, q)
  BY <1>1, <1>2, <1>5, FeedbackAddsUp
<1>8. /\ ~Has(f, "found") /\ ~Has(f, "averageRating") /\ ~Has(f, "performance")
      /\ ~Has(f, "subscription")
  BY <1>3 DEF Has, Shows, Compared
<1> QED
  BY <1>4, <1>6, <1>7, <1>8 DEF OfOnePiece, f

LEMMA ChartsPiece ==
  ASSUME NEW d, RowsStand(d), NEW q \in Questions, q.kind \in {"charts", "search"}
  PROVE  OfOnePiece(DashboardReads(d, q), q)
<1> DEFINE f == DashboardReads(d, q)
<1>1. /\ q.kind = "charts" => f = GetCharts(d, q, ChartTypes)
      /\ q.kind = "search" => f = SearchReads(d, q)
      /\ QuestionStands(q)
  BY DashboardsAssumption DEF DashboardReads, ListingKinds
<1>2. Shows(f, {})
  BY <1>1, OthersTell
<1>3. ServicesAgree(f, q)
  BY ServicesCountAlike
<1>4. q.kind = "charts" => ChartsAgree(f)
  BY <1>1, ChartsAddUp
<1> HIDE DEF f
<1>5. \A k \in Compared : ~Has(f, k)
  BY <1>2 DEF Has, Shows
<1> QED
  BY <1>3, <1>4, <1>5 DEF OfOnePiece, Compared, f

LEMMA ListingPiece ==
  ASSUME NEW d, RowsStand(d), NEW q \in Questions, q.kind \in ListingKinds, Allowed(q)
  PROVE  OfOnePiece(DashboardReads(d, q), q)
<1> DEFINE f == DashboardReads(d, q)
<1>1. QuestionStands(q)
  BY DashboardsAssumption
<1>2. /\ q.kind = "usage" => f = UsageReads(d, q)
      /\ q.kind = "portal" => f = PortalReads(d, q)
      /\ q.kind = "survey" => f = [survey |-> SurveyAnalytics(d, q)]
      /\ q.kind = "tickets" => f = [found |-> Listed(TicketsFound(d, q), Created, q)]
      /\ q.kind = "responses" => f = [found |-> ResponsesListed(d, q)]
  BY ZenonT(60) DEF DashboardReads, ListingReads, ListingKinds
<1>3. ServicesAgree(f, q)
  BY ServicesCountAlike
<1>4. q.kind = "usage" => LeftIsGranted(f, CountedResources \cup {"storage"})
  BY RoomIsGranted
<1> HIDE DEF f
<1>5. q.kind \in {"tickets", "responses"} =>
        /\ Shows(f, {"found"})
        /\ f.found.more <=> f.found.total > q.filter.page * q.filter.limit
  <2> SUFFICES ASSUME q.kind \in {"tickets", "responses"}
               PROVE  /\ Shows(f, {"found"})
                      /\ f.found.more <=> f.found.total > q.filter.page * q.filter.limit
    OBVIOUS
  <2> DEFINE found == f.found
             tickets == Listed(TicketsFound(d, q), Created, q)
  <2>1. f = [found |-> found] /\ (found = tickets \/ found = ResponsesListed(d, q))
    <3> HIDE DEF tickets
    <3>1. f = [found |-> tickets] \/ f = [found |-> ResponsesListed(d, q)]
      BY <1>2 DEF tickets
    <3> QED
      BY <3>1
  <2> HIDE DEF found, tickets
  <2>2. Shows(f, {"found"})
    BY <2>1, OthersTell
  <2>3. found.more <=> found.total > q.filter.page * q.filter.limit
    BY <1>1, <2>1, FoundIsPaged DEF tickets
  <2> QED
    BY <2>2, <2>3 DEF found
<1>6. q.kind = "survey" => Shows(f, {}) /\ SurveyAgrees(f.survey, q)
  BY <1>1, <1>2, OthersTell, SurveyAddsUp
<1>7. q.kind \in {"usage", "portal"} => Shows(f, {})
  BY <1>2, OthersTell
<1>8. CASE q.kind \in {"tickets", "responses"}
  <2>1. \A k \in Compared : Has(f, k) => k = "found"
    BY <1>5, <1>8 DEF Has, Shows
  <2> QED
    BY <1>3, <1>5, <1>8, <2>1 DEF OfOnePiece, Compared, f
<1>9. CASE q.kind \in {"survey", "usage", "portal"}
  <2>1. \A k \in Compared : ~Has(f, k)
    BY <1>6, <1>7, <1>9 DEF Has, Shows
  <2> QED
    BY <1>3, <1>4, <1>6, <1>9, <2>1 DEF OfOnePiece, Compared, f
<1> QED
  BY <1>8, <1>9 DEF ListingKinds

LEMMA RolePiece ==
  ASSUME NEW d, RowsStand(d), NEW q \in Questions, q.kind = "dashboard"
  PROVE  OfOnePiece(DashboardReads(d, q), q)
<1> DEFINE f == DashboardReads(d, q)
<1>1. f = RoleReads(d, q) /\ QuestionStands(q)
  BY DashboardsAssumption DEF DashboardReads, ListingKinds
<1>2. /\ q.access.role \in AccessRoles
      /\ q.access.role = "PLATFORM_ADMIN" => f = PlatformReads(d, q)
      /\ q.access.role = "TENANT_OWNER" => f = TenantReads(d, q)
      /\ q.access.role = "SUPPORT_AGENT" => f = AgentReads(d, q)
      /\ q.access.role = "CUSTOMER" => f = CustomerReads(d, q)
  BY <1>1, QuestionsAsked DEF RoleReads
<1>3. ServicesAgree(f, q)
  BY ServicesCountAlike
<1>4. ComputeKpis(d, q).csat = Csat(d, q)
  BY DEF ComputeKpis
<1> HIDE DEF f
<1>5. CASE q.access.role = "PLATFORM_ADMIN"
  <2>1. Shows(f, {"tickets", "averageRating"})
    BY <1>2, <1>5, DashboardsTell
  <2>2. /\ f.tickets = TicketReads(d, q) /\ f.kpis = ComputeKpis(d, q)
        /\ f.averageRating = AverageFeedbackRating(d, q)
    BY <1>2, <1>5, SMTT(30) DEF PlatformReads
  <2>3. TicketsAgree(f.tickets, q)
    BY <1>1, <2>2, TicketsAddUp
  <2>4. Difference(2 * f.averageRating, f.kpis.csat) <= 1
    BY <1>4, <2>2, AverageIsShown
  <2>5. /\ ~Has(f, "found") /\ ~Has(f, "feedback") /\ ~Has(f, "performance")
        /\ ~Has(f, "subscription")
    BY <2>1 DEF Has, Shows, Compared
  <2> QED
    BY <1>3, <2>3, <2>4, <2>5 DEF OfOnePiece, f
<1>6. CASE q.access.role = "TENANT_OWNER"
  <2>1. Shows(f, {"tickets", "feedback", "performance", "subscription"})
    BY <1>2, <1>6, DashboardsTell
  <2>2. /\ f.tickets = TicketReads(d, q) /\ f.kpis = ComputeKpis(d, q)
        /\ f.feedback = GetFeedback(d, q)
        /\ f.performance = GetAgentPerformance(d, d, q)
        /\ f.subscription = SubscriptionContext(d, q)
    BY <1>2, <1>6, SMTT(30) DEF TenantReads
  <2>3. TicketsAgree(f.tickets, q) /\ PerformanceAgrees(f.performance, f.tickets)
    BY <1>1, <2>2, TicketsAddUp, PerformanceAddsUp
  <2>4. FeedbackAgrees(f.feedback, f, q)
    BY <1>1, <1>4, <2>2, FeedbackAddsUp
  <2>5. f.subscription # None =>
          \A k \in DOMAIN f.subscription.used :
            f.subscription.used[k] <= f.subscription.limits[k] =>
              f.subscription.used[k] + f.subscription.remaining[k]
                = f.subscription.limits[k]
    BY <2>2, LimitsAddUp
  <2>6. ~Has(f, "found") /\ ~Has(f, "averageRating")
    BY <2>1 DEF Has, Shows, Compared
  <2> QED
    BY <1>3, <2>3, <2>4, <2>5, <2>6 DEF OfOnePiece, f
<1>7. CASE q.access.role = "SUPPORT_AGENT"
  <2>1. Shows(f, {"tickets", "performance"})
    BY <1>2, <1>7, DashboardsTell
  <2>2. /\ f.tickets = TicketReads(d, Own(q))
        /\ f.performance = GetAgentPerformance(d, d, Own(q))
    BY <1>2, <1>7 DEF AgentReads
  <2>3. TicketsAgree(f.tickets, q) /\ PerformanceAgrees(f.performance, f.tickets)
    BY <1>1, <2>2, OwnTicketsAddUp, PerformanceAddsUp
  <2>4. /\ ~Has(f, "found") /\ ~Has(f, "averageRating") /\ ~Has(f, "feedback")
        /\ ~Has(f, "subscription")
    BY <2>1 DEF Has, Shows, Compared
  <2> QED
    BY <1>3, <2>3, <2>4 DEF OfOnePiece, f
<1>8. CASE q.access.role = "CUSTOMER"
  <2>1. Shows(f, {"tickets"})
    BY <1>2, <1>8, DashboardsTell
  <2>2. /\ ~Has(f, "found") /\ ~Has(f, "averageRating") /\ ~Has(f, "feedback")
        /\ ~Has(f, "performance") /\ ~Has(f, "subscription")
    BY <2>1 DEF Has, Shows, Compared
  <2> QED
    BY <1>3, <1>8, <2>2 DEF OfOnePiece, f
<1> QED
  BY <1>2, <1>5, <1>6, <1>7, <1>8 DEF AccessRoles, Staff

\* An answer that no change overlapped is of one piece, whatever the rows and
\* the question: tickets counted by getTickets, by kpi.compute and in the
\* charts, ratings by getFeedback and by csat, money by getRevenue and by the
\* payments, and what getSubscriptionContext shows as used and left, all agree
\* or differ to the safe side; every distribution and trend adds up to its
\* total and no rate is above a hundred percent.
THEOREM AnswersAreOfOnePiece == DashboardSpec => []FiguresAgree
<1>1. ASSUME NEW d, RowsStand(d), NEW q \in Questions, Allowed(q)
      PROVE  OfOnePiece(DashboardReads(d, q), q)
  BY <1>1, QuestionsAsked, AggregatePiece, ReportPiece, ChartsPiece, ListingPiece,
     RolePiece DEF QuestionKinds
<1>2. MomentsInv => FiguresAgree
  BY <1>1 DEF MomentsInv, Moment, FiguresAgree
<1> QED
  BY <1>2, MomentsAlways, PTL
=============================================================================
