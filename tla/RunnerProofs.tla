---------------------------- MODULE RunnerProofs ----------------------------
(***************************************************************************)
(* Theorems about Runner for every set of tasks, sleeves and markets, every*)
(* interleaving of the tasks, every write that fails and every crash.      *)
(*                                                                         *)
(* Runner adds up fills (SumFunction), so the module starts with what sums *)
(* over finite sets obey.  A set of naturals that is not empty has a least *)
(* member; that makes induction a first-order fact about sets              *)
(* (InductiveSet), which is all that the recursive definition of a sum     *)
(* needs.                                                                  *)
(***************************************************************************)
EXTENDS Runner, PositionTrackerProofs, FiniteSetTheorems, WellFoundedInduction

-----------------------------------------------------------------------------
(* Sums over finite sets *)

\* Induction as a fact about sets of naturals.
LEMMA LeastMember ==
    ASSUME NEW T \in SUBSET Nat, T # {}
    PROVE  \E n \in T : \A m \in T : n <= m
<1>1. \E n \in T : \A m \in T : ~(<<m, n>> \in OpToRel(<, Nat))
  BY NatLessThanWellFounded, WFMin, Zenon
<1>2. PICK n \in T : \A m \in T : ~(<<m, n>> \in OpToRel(<, Nat))
  BY <1>1
<1>3. \A m \in T : ~(m < n)
  BY <1>2 DEF OpToRel
<1>4. QED
  BY <1>3

LEMMA InductiveSet ==
    ASSUME NEW T \in SUBSET Nat, 0 \in T, \A n \in T : n + 1 \in T
    PROVE  T = Nat
<1> SUFFICES ASSUME T # Nat PROVE FALSE
  OBVIOUS
<1>1. PICK n \in Nat \ T : \A m \in Nat \ T : n <= m
  BY LeastMember
<1>2. n # 0 /\ n - 1 \in Nat /\ n - 1 \in T
  BY <1>1
<1>3. (n - 1) + 1 = n
  OBVIOUS
<1>4. QED
  BY <1>1, <1>2, <1>3

Sum(f, S) == SumFunctionOnSet(f, S)

First(s) == CHOOSE x \in s : TRUE
IsIter(g, f, D) == g = [s \in D |-> IF s = {} THEN 0 ELSE f[First(s)] + g[s \ {First(s)}]]
IterOf(f, S) == CHOOSE g : IsIter(g, f, SUBSET S)

LEMMA SumIsIter == ASSUME NEW f, NEW S PROVE Sum(f, S) = IterOf(f, S)[S]
BY DEF Sum, SumFunctionOnSet, FoldFunctionOnSet, MapThenFoldSet, IterOf, IsIter, First

Upto(S, n) == {s \in SUBSET S : Cardinality(s) <= n}

LEMMA SubsetFacts ==
    ASSUME NEW S, IsFiniteSet(S), NEW s \in SUBSET S
    PROVE  /\ IsFiniteSet(s) /\ Cardinality(s) \in Nat /\ Cardinality(s) <= Cardinality(S)
           /\ Cardinality(s) = 0 => s = {}
           /\ s # {} => /\ First(s) \in s
                        /\ Cardinality(s \ {First(s)}) = Cardinality(s) - 1
<1>1. IsFiniteSet(s) /\ Cardinality(s) <= Cardinality(S)
  BY FS_Subset
<1>2. Cardinality(s) \in Nat /\ (Cardinality(s) = 0 => s = {})
  BY <1>1, FS_CardinalityType, FS_EmptySet
<1>3. s # {} => First(s) \in s
  BY DEF First
<1>4. s # {} => Cardinality(s \ {First(s)}) = Cardinality(s) - 1
  BY <1>1, <1>3, FS_RemoveElement
<1>5. QED
  BY <1>1, <1>2, <1>3, <1>4

LEMMA UptoFacts ==
    ASSUME NEW S, IsFiniteSet(S)
    PROVE  /\ Upto(S, 0) = {{}} /\ Upto(S, Cardinality(S)) = SUBSET S
           /\ \A n \in Nat : Upto(S, n) \subseteq Upto(S, n + 1)
           /\ \A n \in Nat : \A s \in Upto(S, n + 1) : s # {} =>
                 First(s) \in s /\ s \ {First(s)} \in Upto(S, n)
<1>1. ASSUME NEW s \in SUBSET S
      PROVE  /\ IsFiniteSet(s) /\ Cardinality(s) \in Nat /\ Cardinality(s) <= Cardinality(S)
             /\ Cardinality(s) = 0 => s = {}
             /\ s # {} => First(s) \in s /\ Cardinality(s \ {First(s)}) = Cardinality(s) - 1
  BY SubsetFacts
<1>2. Upto(S, 0) = {{}}
  <2>1. ASSUME NEW s \in Upto(S, 0) PROVE s = {}
    <3>1. s \in SUBSET S /\ Cardinality(s) <= 0
      BY DEF Upto
    <3>2. Cardinality(s) \in Nat /\ (Cardinality(s) = 0 => s = {})
      BY <3>1, <1>1
    <3>3. QED
      BY <3>1, <3>2
  <2>2. {} \in Upto(S, 0)
    BY FS_EmptySet DEF Upto
  <2>3. QED
    BY <2>1, <2>2
<1>3. Upto(S, Cardinality(S)) = SUBSET S
  BY <1>1 DEF Upto
<1>4. ASSUME NEW n \in Nat, NEW s \in Upto(S, n) PROVE s \in Upto(S, n + 1)
  <2>1. s \in SUBSET S /\ Cardinality(s) <= n
    BY DEF Upto
  <2>2. Cardinality(s) \in Nat
    BY <1>1, <2>1
  <2>3. QED
    BY <2>1, <2>2 DEF Upto
<1>5. ASSUME NEW n \in Nat, NEW s \in Upto(S, n + 1), s # {}
      PROVE  First(s) \in s /\ s \ {First(s)} \in Upto(S, n)
  <2>1. s \in SUBSET S /\ Cardinality(s) <= n + 1
    BY DEF Upto
  <2>2. Cardinality(s) \in Nat /\ First(s) \in s /\ Cardinality(s \ {First(s)}) = Cardinality(s) - 1
    BY <1>1, <1>5, <2>1
  <2>3. QED
    BY <2>1, <2>2 DEF Upto
<1>6. QED
  BY <1>2, <1>3, <1>4, <1>5

LEMMA IterExists ==
    ASSUME NEW f, NEW S, IsFiniteSet(S)
    PROVE  \E g : IsIter(g, f, SUBSET S)
<1> DEFINE N == {n \in Nat : \E g : IsIter(g, f, Upto(S, n))}
<1>1. 0 \in N
  <2>1. Upto(S, 0) = {{}}
    BY UptoFacts
  <2>2. IsIter([s \in Upto(S, 0) |-> 0], f, Upto(S, 0))
    BY <2>1 DEF IsIter
  <2>3. QED
    BY <2>2
<1>2. ASSUME NEW n \in N PROVE n + 1 \in N
  <2>1. PICK g : IsIter(g, f, Upto(S, n))
    OBVIOUS
  <2> DEFINE h == [s \in Upto(S, n + 1) |-> IF s = {} THEN 0 ELSE f[First(s)] + g[s \ {First(s)}]]
  <2>2. ASSUME NEW s \in Upto(S, n) PROVE s \in Upto(S, n + 1) /\ h[s] = g[s]
    <3>1. s \in Upto(S, n + 1)
      BY UptoFacts, n \in Nat
    <3>2. QED
      BY <2>1, <3>1 DEF IsIter
  <2>3. ASSUME NEW s \in Upto(S, n + 1), s # {} PROVE s \ {First(s)} \in Upto(S, n)
    BY UptoFacts, <2>3
  <2>4. h = [s \in Upto(S, n + 1) |-> IF s = {} THEN 0 ELSE f[First(s)] + h[s \ {First(s)}]]
    BY <2>2, <2>3
  <2>5. IsIter(h, f, Upto(S, n + 1))
    BY <2>4 DEF IsIter
  <2>6. QED
    BY <2>5
<1>3. N = Nat
  <2> HIDE DEF N
  <2> QED
    BY <1>1, <1>2, InductiveSet, N \subseteq Nat DEF N
<1>4. S \in SUBSET S
  OBVIOUS
<1>5. Cardinality(S) \in N
  BY <1>3, <1>4, SubsetFacts
<1>6. Upto(S, Cardinality(S)) = SUBSET S
  BY UptoFacts
<1>7. QED
  BY <1>5, <1>6

\* Two sums that are taken of the same values agree.
LEMMA IterAgree ==
    ASSUME NEW S, NEW R, IsFiniteSet(R), R \subseteq S, NEW f, NEW g, NEW h,
           IsIter(g, f, SUBSET S), IsIter(h, f, SUBSET R)
    PROVE  g[R] = h[R]
<1> DEFINE N == {n \in Nat : \A s \in Upto(R, n) : g[s] = h[s]}
<1>1. \A s \in SUBSET R : s # {} =>
         /\ g[s] = f[First(s)] + g[s \ {First(s)}]
         /\ h[s] = f[First(s)] + h[s \ {First(s)}]
  BY DEF IsIter
<1>2. g[{}] = 0 /\ h[{}] = 0
  BY DEF IsIter
<1>3. 0 \in N
  BY <1>2, UptoFacts
<1>4. ASSUME NEW n \in N PROVE n + 1 \in N
  <2>1. ASSUME NEW s \in Upto(R, n + 1) PROVE g[s] = h[s]
    <3>1. CASE s = {}
      BY <3>1, <1>2
    <3>2. CASE s # {}
      <4>1. s \ {First(s)} \in Upto(R, n)
        BY <3>2, UptoFacts, n \in Nat
      <4>2. g[s \ {First(s)}] = h[s \ {First(s)}]
        BY <4>1
      <4>3. s \in SUBSET R
        BY DEF Upto
      <4>4. QED
        BY <1>1, <3>2, <4>2, <4>3
    <3>3. QED
      BY <3>1, <3>2
  <2>2. QED
    BY <2>1
<1>5. N = Nat
  <2> HIDE DEF N
  <2> QED
    BY <1>3, <1>4, InductiveSet, N \subseteq Nat DEF N
<1>6. Cardinality(R) \in N
  BY <1>5, FS_CardinalityType
<1>7. R \in Upto(R, Cardinality(R))
  BY UptoFacts
<1>8. QED
  BY <1>6, <1>7

LEMMA SumIter ==
    ASSUME NEW f, NEW S, IsFiniteSet(S)
    PROVE  \E g : IsIter(g, f, SUBSET S) /\ Sum(f, S) = g[S]
<1>1. IsIter(IterOf(f, S), f, SUBSET S)
  BY IterExists DEF IterOf
<1>2. QED
  BY <1>1, SumIsIter

LEMMA SumOfPart ==
    ASSUME NEW f, NEW S, NEW R, R \subseteq S, IsFiniteSet(R), NEW g, IsIter(g, f, SUBSET S)
    PROVE  g[R] = Sum(f, R)
<1>1. PICK h : IsIter(h, f, SUBSET R) /\ Sum(f, R) = h[R]
  BY SumIter
<1>2. g[R] = h[R]
  BY <1>1, IterAgree
<1>3. QED
  BY <1>1, <1>2

LEMMA SumEqual ==
    ASSUME NEW f, NEW g, NEW S, IsFiniteSet(S), \A x \in S : f[x] = g[x]
    PROVE  Sum(f, S) = Sum(g, S)
<1>1. PICK u : IsIter(u, f, SUBSET S) /\ Sum(f, S) = u[S]
  BY SumIter
<1>2. \A s \in SUBSET S : s # {} => f[First(s)] = g[First(s)]
  BY DEF First
<1>3. IsIter(u, g, SUBSET S)
  BY <1>1, <1>2 DEF IsIter
<1>4. QED
  BY <1>1, <1>3, SumOfPart

LEMMA SumEmpty == ASSUME NEW f PROVE Sum(f, {}) = 0
<1>1. PICK u : IsIter(u, f, SUBSET {}) /\ Sum(f, {}) = u[{}]
  BY SumIter, FS_EmptySet
<1>2. QED
  BY <1>1 DEF IsIter

LEMMA SumStep ==
    ASSUME NEW f, NEW S, IsFiniteSet(S), S # {}
    PROVE  First(S) \in S /\ Sum(f, S) = f[First(S)] + Sum(f, S \ {First(S)})
<1>1. First(S) \in S /\ IsFiniteSet(S \ {First(S)})
  BY FS_RemoveElement DEF First
<1>2. PICK g : IsIter(g, f, SUBSET S) /\ Sum(f, S) = g[S]
  BY SumIter
<1>3. g[S \ {First(S)}] = Sum(f, S \ {First(S)})
  BY <1>1, <1>2, SumOfPart
<1>4. g[S] = f[First(S)] + g[S \ {First(S)}]
  BY <1>2 DEF IsIter
<1>5. QED
  BY <1>1, <1>2, <1>3, <1>4

\* A sum stays in every set of integers that is closed under addition.
LEMMA SumIn ==
    ASSUME NEW V, 0 \in V, \A x, y \in V : x + y \in V,
           NEW f, NEW S, IsFiniteSet(S), \A x \in S : f[x] \in V
    PROVE  Sum(f, S) \in V
<1> DEFINE N == {n \in Nat : \A s \in Upto(S, n) : Sum(f, s) \in V}
<1>1. 0 \in N
  <2>1. \A s \in Upto(S, 0) : s = {}
    BY UptoFacts
  <2>2. QED
    BY <2>1, SumEmpty
<1>2. ASSUME NEW n \in N PROVE n + 1 \in N
  <2>1. ASSUME NEW s \in Upto(S, n + 1) PROVE Sum(f, s) \in V
    <3>1. CASE s = {}
      BY <3>1, SumEmpty
    <3>2. CASE s # {}
      <4>1. s \ {First(s)} \in Upto(S, n) /\ First(s) \in s
        BY <3>2, UptoFacts, n \in Nat
      <4>2. s \in SUBSET S /\ IsFiniteSet(s)
        BY FS_Subset DEF Upto
      <4>3. Sum(f, s) = f[First(s)] + Sum(f, s \ {First(s)})
        BY <3>2, <4>2, SumStep
      <4>4. Sum(f, s \ {First(s)}) \in V /\ f[First(s)] \in V
        BY <4>1, <4>2
      <4>5. QED
        BY <4>3, <4>4
    <3>3. QED
      BY <3>1, <3>2
  <2>2. QED
    BY <2>1
<1>3. N = Nat
  <2> HIDE DEF N
  <2> QED
    BY <1>1, <1>2, InductiveSet, N \subseteq Nat DEF N
<1>4. Cardinality(S) \in N /\ S \in Upto(S, Cardinality(S))
  BY <1>3, FS_CardinalityType, UptoFacts
<1>5. QED
  BY <1>4

LEMMA SumIsInt ==
    ASSUME NEW f, NEW S, IsFiniteSet(S), \A x \in S : f[x] \in Int
    PROVE  Sum(f, S) \in Int
<1>1. 0 \in Int /\ \A x, y \in Int : x + y \in Int
  OBVIOUS
<1>2. QED
  BY <1>1, SumIn, Zenon

LEMMA SumIsNat ==
    ASSUME NEW f, NEW S, IsFiniteSet(S), \A x \in S : f[x] \in Nat
    PROVE  Sum(f, S) \in Nat
<1>1. 0 \in Nat /\ \A x, y \in Nat : x + y \in Nat
  OBVIOUS
<1>2. QED
  BY <1>1, SumIn, Zenon

LEMMA SumIsZero ==
    ASSUME NEW f, NEW S, IsFiniteSet(S), \A x \in S : f[x] = 0
    PROVE  Sum(f, S) = 0
<1>1. 0 \in {0} /\ \A x, y \in {0} : x + y \in {0}
  OBVIOUS
<1>2. \A x \in S : f[x] \in {0}
  OBVIOUS
<1>3. Sum(f, S) \in {0}
  BY <1>1, <1>2, SumIn, Zenon
<1>4. QED
  BY <1>3

\* A sum can be taken in any order: any member may come first.
LEMMA SumRemove ==
    ASSUME NEW f, NEW S, IsFiniteSet(S), \A x \in S : f[x] \in Int, NEW x \in S
    PROVE  Sum(f, S) = f[x] + Sum(f, S \ {x})
<1> DEFINE N == {n \in Nat : \A s \in Upto(S, n) : \A y \in s : Sum(f, s) = f[y] + Sum(f, s \ {y})}
<1>1. 0 \in N
  BY UptoFacts
<1>2. ASSUME NEW n \in N PROVE n + 1 \in N
  <2>1. ASSUME NEW s \in Upto(S, n + 1), NEW y \in s PROVE Sum(f, s) = f[y] + Sum(f, s \ {y})
    <3> DEFINE c == First(s)
    <3>1. c \in s /\ s \ {c} \in Upto(S, n)
      BY UptoFacts, n \in Nat
    <3>2. s \in SUBSET S /\ IsFiniteSet(s) /\ IsFiniteSet(s \ {y})
      BY FS_Subset DEF Upto
    <3>3. Sum(f, s) = f[c] + Sum(f, s \ {c})
      BY <3>2, SumStep
    <3>4. CASE y = c
      BY <3>3, <3>4
    <3>5. CASE y # c
      <4>1. Sum(f, s \ {c}) = f[y] + Sum(f, (s \ {c}) \ {y})
        BY <3>1, <3>5
      <4>2. s \ {y} \in Upto(S, n)
        <5>1. Cardinality(s) <= n + 1 /\ Cardinality(s \ {y}) = Cardinality(s) - 1
          BY <3>2, FS_RemoveElement DEF Upto
        <5>2. Cardinality(s) \in Nat
          BY <3>2, FS_CardinalityType
        <5>3. QED
          BY <5>1, <5>2, <3>2 DEF Upto
      <4>3. Sum(f, s \ {y}) = f[c] + Sum(f, (s \ {y}) \ {c})
        BY <4>2, <3>1, <3>5
      <4>4. (s \ {y}) \ {c} = (s \ {c}) \ {y}
        OBVIOUS
      <4>5. Sum(f, (s \ {c}) \ {y}) \in Int
        <5>1. IsFiniteSet((s \ {c}) \ {y}) /\ (s \ {c}) \ {y} \subseteq S
          BY <3>2, FS_Subset
        <5>2. QED
          BY <5>1, SumIsInt
      <4>6. f[y] \in Int /\ f[c] \in Int
        BY <3>1, <3>2
      <4>7. Sum(f, s) = f[c] + (f[y] + Sum(f, (s \ {c}) \ {y}))
        BY <3>3, <4>1
      <4>8. Sum(f, s \ {y}) = f[c] + Sum(f, (s \ {c}) \ {y})
        BY <4>3, <4>4
      <4> DEFINE r == Sum(f, (s \ {c}) \ {y})
      <4> HIDE DEF c, r
      <4>9. QED
        BY <4>5, <4>6, <4>7, <4>8 DEF r
    <3>6. QED
      BY <3>4, <3>5
  <2>2. QED
    BY <2>1
<1>3. N = Nat
  <2> HIDE DEF N
  <2> QED
    BY <1>1, <1>2, InductiveSet, N \subseteq Nat DEF N
<1>4. Cardinality(S) \in N /\ S \in Upto(S, Cardinality(S))
  BY <1>3, FS_CardinalityType, UptoFacts
<1>5. QED
  BY <1>4

\* What a change of one value does to the sum.
LEMMA SumChange ==
    ASSUME NEW f, NEW g, NEW S, IsFiniteSet(S), NEW x \in S,
           \A y \in S : f[y] \in Int /\ g[y] \in Int,
           \A y \in S : y # x => g[y] = f[y]
    PROVE  Sum(g, S) = Sum(f, S) + (g[x] - f[x])
<1>1. IsFiniteSet(S \ {x})
  BY FS_RemoveElement
<1>2. Sum(g, S \ {x}) = Sum(f, S \ {x})
  BY <1>1, SumEqual
<1>3. Sum(f, S \ {x}) \in Int
  BY <1>1, SumIsInt
<1>4. Sum(g, S) = g[x] + Sum(g, S \ {x}) /\ Sum(f, S) = f[x] + Sum(f, S \ {x})
  BY SumRemove
<1>5. QED
  BY <1>2, <1>3, <1>4

\* A sum of naturals is at least any one of them.
LEMMA SumAtLeast ==
    ASSUME NEW f, NEW S, IsFiniteSet(S), \A x \in S : f[x] \in Nat, NEW x \in S
    PROVE  f[x] <= Sum(f, S)
<1>1. IsFiniteSet(S \ {x})
  BY FS_RemoveElement
<1>2. Sum(f, S \ {x}) \in Nat
  BY <1>1, SumIsNat
<1>3. Sum(f, S) = f[x] + Sum(f, S \ {x})
  BY SumRemove
<1>4. QED
  BY <1>2, <1>3

\* A sum of which a single value is not 0.
LEMMA SumOfOne ==
    ASSUME NEW f, NEW S, IsFiniteSet(S), NEW x \in S, f[x] \in Int,
           \A y \in S : y # x => f[y] = 0
    PROVE  Sum(f, S) = f[x]
<1>1. IsFiniteSet(S \ {x})
  BY FS_RemoveElement
<1>2. Sum(f, S \ {x}) = 0
  BY <1>1, SumIsZero
<1>3. Sum(f, S) = f[x] + Sum(f, S \ {x})
  BY SumRemove
<1>4. QED
  BY <1>2, <1>3

\* The same values, counted from 1 instead of 2.
LEMMA SumShift ==
    ASSUME NEW f, NEW g, NEW k \in Nat,
           \A i \in 1 .. k : g[i] = f[i + 1] /\ g[i] \in Int
    PROVE  Sum(g, 1 .. k) = Sum(f, 2 .. k + 1)
<1> DEFINE N == {n \in Nat : n <= k => Sum(g, 1 .. n) = Sum(f, 2 .. n + 1)}
<1>1. 0 \in N
  <2>1. 1 .. 0 = {} /\ 2 .. 0 + 1 = {}
    OBVIOUS
  <2>2. QED
    BY <2>1, SumEmpty
<1>2. ASSUME NEW n \in N PROVE n + 1 \in N
  <2>1. SUFFICES ASSUME n + 1 <= k PROVE Sum(g, 1 .. n + 1) = Sum(f, 2 .. n + 2)
    OBVIOUS
  <2>2. n \in Nat /\ Sum(g, 1 .. n) = Sum(f, 2 .. n + 1)
    BY <2>1
  <2>3. IsFiniteSet(1 .. n + 1) /\ IsFiniteSet(2 .. n + 2)
    BY <2>2, FS_Interval
  <2>4. /\ n + 1 \in 1 .. n + 1 /\ (1 .. n + 1) \ {n + 1} = 1 .. n
        /\ n + 2 \in 2 .. n + 2 /\ (2 .. n + 2) \ {n + 2} = 2 .. n + 1
    BY <2>2
  <2>5. \A i \in 1 .. n + 1 : g[i] \in Int
    BY <2>1, <2>2
  <2>6. ASSUME NEW i \in 2 .. n + 2 PROVE f[i] \in Int
    <3>1. i - 1 \in 1 .. k /\ (i - 1) + 1 = i
      BY <2>1, <2>2
    <3>2. QED
      BY <3>1
  <2>7. Sum(g, 1 .. n + 1) = g[n + 1] + Sum(g, 1 .. n)
    BY <2>3, <2>4, <2>5, SumRemove
  <2>8. Sum(f, 2 .. n + 2) = f[n + 2] + Sum(f, 2 .. n + 1)
    BY <2>3, <2>4, <2>6, SumRemove
  <2>9. n + 1 \in 1 .. k /\ (n + 1) + 1 = n + 2
    BY <2>1, <2>2
  <2>10. g[n + 1] = f[n + 2]
    BY <2>9
  <2>11. QED
    BY <2>2, <2>7, <2>8, <2>10
<1>3. N = Nat
  <2> HIDE DEF N
  <2> QED
    BY <1>1, <1>2, InductiveSet, N \subseteq Nat DEF N
<1>4. QED
  BY <1>3

-----------------------------------------------------------------------------
(* The sizes of the fills a task holds *)

SizeOf(f, o) == IF f.order = o THEN f.size ELSE 0
Sizings(fills, o) == [i \in DOMAIN fills |-> SizeOf(fills[i], o)]

LEMMA SizeInIsSum ==
    ASSUME NEW fills, NEW o
    PROVE  SizeIn(fills, o) = Sum(Sizings(fills, o), DOMAIN fills)
BY DEF SizeIn, Sum, Sizings, SizeOf, SumFunction

LEMMA EmptyList == <<>> \in Seq(FillRecord) /\ DOMAIN <<>> = {} /\ Len(<<>>) = 0
OBVIOUS

LEMMA FillsAreFinite ==
    ASSUME NEW fills \in Seq(FillRecord)
    PROVE  /\ DOMAIN fills = 1 .. Len(fills) /\ Len(fills) \in Nat
           /\ IsFiniteSet(DOMAIN fills)
           /\ \A i \in DOMAIN fills : fills[i] \in FillRecord
<1>1. DOMAIN fills = 1 .. Len(fills) /\ Len(fills) \in Nat
  OBVIOUS
<1>2. \A i \in DOMAIN fills : fills[i] \in FillRecord
  BY <1>1
<1>3. IsFiniteSet(DOMAIN fills)
  BY <1>1, FS_Interval
<1>4. QED
  BY <1>1, <1>2, <1>3

LEMMA SizingIsNat ==
    ASSUME NEW fills \in Seq(FillRecord), NEW o, NEW i \in DOMAIN fills
    PROVE  /\ Sizings(fills, o)[i] = SizeOf(fills[i], o)
           /\ SizeOf(fills[i], o) \in Nat
<1>1. fills[i] \in FillRecord
  BY FillsAreFinite
<1>2. QED
  BY <1>1 DEF Sizings, SizeOf, FillRecord

LEMMA SizeInIsNat ==
    ASSUME NEW fills \in Seq(FillRecord), NEW o
    PROVE  SizeIn(fills, o) \in Nat
<1>1. IsFiniteSet(DOMAIN fills)
  BY FillsAreFinite
<1>2. \A i \in DOMAIN fills : Sizings(fills, o)[i] \in Nat
  BY SizingIsNat
<1>3. Sum(Sizings(fills, o), DOMAIN fills) \in Nat
  BY <1>1, <1>2, SumIsNat
<1>4. QED
  BY <1>3, SizeInIsSum

\* Fills without one of o add nothing to o; there are none in an empty list.
LEMMA SizeInNone ==
    ASSUME NEW fills \in Seq(FillRecord), NEW o,
           \A i \in DOMAIN fills : fills[i].order # o \/ fills[i].size = 0
    PROVE  SizeIn(fills, o) = 0
<1>1. IsFiniteSet(DOMAIN fills)
  BY FillsAreFinite
<1>2. \A i \in DOMAIN fills : Sizings(fills, o)[i] = 0
  BY DEF Sizings, SizeOf
<1>3. Sum(Sizings(fills, o), DOMAIN fills) = 0
  BY <1>1, <1>2, SumIsZero
<1>4. QED
  BY <1>3, SizeInIsSum

LEMMA SizeInEmpty == ASSUME NEW o PROVE SizeIn(<<>>, o) = 0
<1>1. <<>> \in Seq(FillRecord) /\ DOMAIN <<>> = {}
  OBVIOUS
<1>2. QED
  BY <1>1, SizeInNone

\* A list in which o has a single fill.
LEMMA SizeInOne ==
    ASSUME NEW fills \in Seq(FillRecord), NEW i \in DOMAIN fills,
           \A j \in DOMAIN fills : j # i => fills[j].order # fills[i].order
    PROVE  SizeIn(fills, fills[i].order) = fills[i].size
<1> DEFINE o == fills[i].order
<1>1. IsFiniteSet(DOMAIN fills)
  BY FillsAreFinite
<1>2. Sizings(fills, o)[i] = fills[i].size /\ Sizings(fills, o)[i] \in Int
  BY SizingIsNat DEF SizeOf
<1>3. \A j \in DOMAIN fills : j # i => Sizings(fills, o)[j] = 0
  BY DEF Sizings, SizeOf
<1>4. Sum(Sizings(fills, o), DOMAIN fills) = Sizings(fills, o)[i]
  BY <1>1, <1>2, <1>3, SumOfOne
<1>5. QED
  BY <1>2, <1>4, SizeInIsSum

\* Every fill of o counts.
LEMMA SizeInAtLeast ==
    ASSUME NEW fills \in Seq(FillRecord), NEW i \in DOMAIN fills
    PROVE  fills[i].size <= SizeIn(fills, fills[i].order)
<1> DEFINE o == fills[i].order
<1>1. IsFiniteSet(DOMAIN fills)
  BY FillsAreFinite
<1>2. \A j \in DOMAIN fills : Sizings(fills, o)[j] \in Nat
  BY SizingIsNat
<1>3. Sizings(fills, o)[i] = fills[i].size
  BY SizingIsNat DEF SizeOf
<1>4. Sizings(fills, o)[i] <= Sum(Sizings(fills, o), DOMAIN fills)
  BY <1>1, <1>2, SumAtLeast
<1>5. QED
  BY <1>3, <1>4, SizeInIsSum

LEMMA TailFacts ==
    ASSUME NEW fills \in Seq(FillRecord), fills # <<>>
    PROVE  /\ Head(fills) = fills[1] /\ 1 \in DOMAIN fills /\ Head(fills) \in FillRecord
           /\ Tail(fills) \in Seq(FillRecord) /\ Len(Tail(fills)) = Len(fills) - 1
           /\ \A i \in DOMAIN Tail(fills) :
                 Tail(fills)[i] = fills[i + 1] /\ i + 1 \in DOMAIN fills
<1>1. Len(fills) \in Nat \ {0} /\ DOMAIN fills = 1 .. Len(fills)
  OBVIOUS
<1>2. QED
  BY <1>1

\* Handling the first fill takes its size off.
LEMMA SizeInTail ==
    ASSUME NEW fills \in Seq(FillRecord), fills # <<>>, NEW o
    PROVE  SizeIn(fills, o) = SizeOf(Head(fills), o) + SizeIn(Tail(fills), o)
<1> DEFINE f == Sizings(fills, o)
           g == Sizings(Tail(fills), o)
           k == Len(fills) - 1
<1>1. k \in Nat /\ DOMAIN fills = 1 .. k + 1 /\ DOMAIN Tail(fills) = 1 .. k
  BY TailFacts, FillsAreFinite
<1>2. \A i \in 1 .. k : g[i] = f[i + 1] /\ g[i] \in Int
  <2> SUFFICES ASSUME NEW i \in 1 .. k PROVE g[i] = f[i + 1] /\ g[i] \in Int
    OBVIOUS
  <2>1. Tail(fills)[i] = fills[i + 1] /\ i + 1 \in DOMAIN fills /\ i \in DOMAIN Tail(fills)
    BY <1>1, TailFacts
  <2>2. f[i + 1] = SizeOf(fills[i + 1], o) /\ SizeOf(fills[i + 1], o) \in Nat
    BY <2>1, SizingIsNat
  <2>3. g[i] = SizeOf(fills[i + 1], o)
    BY <2>1 DEF Sizings
  <2>4. QED
    BY <2>2, <2>3
<1>3. Sum(g, 1 .. k) = Sum(f, 2 .. k + 1)
  <2> HIDE DEF f, g, k
  <2> QED
    BY <1>1, <1>2, SumShift
<1>4. Sum(f, 1 .. k + 1) = f[1] + Sum(f, (1 .. k + 1) \ {1})
  <2> DEFINE D == 1 .. k + 1
  <2>1. IsFiniteSet(D) /\ 1 \in D
    BY <1>1, FS_Interval
  <2>2. \A i \in D : f[i] \in Int
    BY <1>1, SizingIsNat
  <2> HIDE DEF f, g, k, D
  <2>3. Sum(f, D) = f[1] + Sum(f, D \ {1})
    BY <2>1, <2>2, SumRemove
  <2>4. QED
    BY <2>3 DEF D
<1>5. (1 .. k + 1) \ {1} = 2 .. k + 1
  <2> HIDE DEF k
  <2> QED
    BY <1>1
<1>6. f[1] = SizeOf(Head(fills), o)
  BY TailFacts, SizingIsNat
<1>7. SizeIn(fills, o) = Sum(f, 1 .. k + 1) /\ SizeIn(Tail(fills), o) = Sum(g, 1 .. k)
  BY <1>1, SizeInIsSum
<1> HIDE DEF f, g, k
<1>8. QED
  BY <1>3, <1>4, <1>5, <1>6, <1>7

-----------------------------------------------------------------------------
(* The inductive invariant: what the actions rely on. *)

Frame == [at : Steps, turn : Nat, cur : Orders \cup {0},
          fills : Seq(FillRecord), direct : BOOLEAN, write : Nat,
          sell : [size : Nat, live : BOOLEAN]]
RowRecord == [status : {"none", "open", "partially_filled", "filled", "cancelled"}, done : Nat]

InFlight(t) == task[t].at \in {"signal row", "order row", "refresh"}
Handling(t) == task[t].at \in {"fill row", "order status", "buy row", "sell row"}

\* Nothing has happened to the order yet.
Unsubmitted(o) == order[o] = Sim!NoOrder /\ filled[o] = 0 /\ took[o] = 0 /\ row[o].done = 0

\* The simulator: only registered orders fill, and its dict lists each once.
SimInv ==
    /\ Sim!MakerTypeOK
    /\ placed \in Seq(Orders) /\ resting \subseteq Range(placed)
    /\ took \in [Orders -> Nat]
    /\ \A o \in Orders : order[o] = Sim!NoOrder => filled[o] = 0
    /\ \A i \in DOMAIN placed : order[placed[i]] # Sim!NoOrder
    /\ \A i, j \in DOMAIN placed : placed[i] = placed[j] => i = j
    /\ Sim!RestingIsUnfilled

DataOK ==
    /\ sent \in [Orders -> Signal \cup {NoSignal}]
    /\ row \in [Orders -> RowRecord]
    /\ mirror \in [Keys -> Nat]
    /\ settled \in [Sleeves -> [Assets -> Int]] /\ forgot \in [Orders -> Nat]
    /\ task \in [Tasks -> Frame]
    /\ restarts \in 0 .. MaxRestarts

\* An order id without a signal is blank.
BlankInv ==
    \A o \in Orders : sent[o] = NoSignal => Unsubmitted(o) /\ row[o] = NoRow /\ forgot[o] = 0

\* A fill in a task's hands is one that the simulator has made.
Genuine(f) ==
    /\ sent[f.order] # NoSignal
    /\ f.kind = "missed" => f.size = 0 /\ f.order \in missed
    /\ f.kind # "missed" => f.size > 0
    /\ f.kind = "maker" => filled[f.order] > 0
    /\ f.kind = "taker" => took[f.order] > 0

\* The fills that submit returned are one taker fill, the others are makers'.
FillsOK(t) ==
    IF task[t].direct
    THEN Len(task[t].fills) = 1 /\ Head(task[t].fills).order = task[t].cur
    ELSE \A i \in DOMAIN task[t].fills : task[t].fills[i].kind # "taker"

\* The order of a signal is untouched until submit.
OrderOK(t) ==
    /\ task[t].cur \in Orders
    /\ sent[task[t].cur] # NoSignal
    /\ Unsubmitted(task[t].cur)
    /\ task[t].at # "refresh" => row[task[t].cur] = NoRow
    /\ row[task[t].cur].status \in {"none", "open"}

TaskOK(t) ==
    /\ Handling(t) <=> task[t].fills # <<>>
    /\ \A i \in DOMAIN task[t].fills : Genuine(task[t].fills[i])
    /\ Handling(t) => FillsOK(t)
    /\ InFlight(t) => OrderOK(t)
    /\ task[t].sell.live => At(t, "buy row")

TasksInv ==
    /\ \A t \in Tasks : TaskOK(t)
    /\ \A t, u \in Tasks : InFlight(t) /\ InFlight(u) /\ task[t].cur = task[u].cur => t = u

RunnerInv == IInv /\ SimInv /\ DataOK /\ BlankInv /\ TasksInv

LEMMA NoSignalIsNoSignal == ASSUME NEW sig \in Signal PROVE sig # NoSignal
<1>1. "asset" \in DOMAIN sig
  BY DEF Signal
<1>2. "asset" \notin DOMAIN NoSignal
  BY DEF NoSignal
<1> QED
  BY <1>1, <1>2

LEMMA OrderIsNotNoOrder == ASSUME NEW x \in Sim!Order PROVE x # Sim!NoOrder
<1>1. "size" \in DOMAIN x
  BY DEF Sim!Order
<1>2. "size" \notin DOMAIN Sim!NoOrder
  BY DEF Sim!NoOrder
<1> QED
  BY <1>1, <1>2

LEMMA SignalFacts ==
    ASSUME DataOK, NEW o \in Orders, sent[o] # NoSignal
    PROVE  /\ sent[o] \in Signal
           /\ sent[o].sleeve \in Sleeves /\ sent[o].asset \in Assets
           /\ sent[o].side \in Sides /\ sent[o].limit \in Prices \cup {NoPrice}
           /\ sent[o].size \in Nat \ {0} /\ sent[o].size \in Sizes
           /\ \A side \in Sides : KeyOf(o, side) \in Keys
<1>1. sent[o] \in Signal
  BY DEF DataOK
<1>2. /\ sent[o].sleeve \in Sleeves /\ sent[o].asset \in Assets
      /\ sent[o].side \in Sides /\ sent[o].limit \in Prices \cup {NoPrice}
      /\ sent[o].size \in Sizes
  BY <1>1 DEF Signal
<1> QED
  BY <1>1, <1>2, TrackerAssumption DEF KeyOf, Keys

LEMMA OrdersAreFinite == IsFiniteSet(Orders) /\ \A S \in SUBSET Orders : IsFiniteSet(S)
<1>1. IsFiniteSet(Orders)
  BY FS_Interval, RunnerAssumption DEF Orders
<1> QED
  BY <1>1, FS_Subset

LEMMA IdleIsFrame == Idle \in Frame /\ \A fills \in Seq(FillRecord), at \in Steps :
                        [Idle EXCEPT !.fills = fills, !.at = at] \in Frame
<1>1. <<>> \in Seq(FillRecord) /\ "idle" \in Steps
  BY DEF Steps
<1> QED
  BY <1>1 DEF Idle, Frame, NoObject

LEMMA GotoFacts ==
    ASSUME DataOK, NEW t \in Tasks, NEW new \in Frame, Goto(t, new)
    PROVE  /\ task' \in [Tasks -> Frame]
           /\ task'[t] = new
           /\ \A u \in Tasks : u # t => task'[u] = task[u]
BY DEF DataOK, Goto

-----------------------------------------------------------------------------
(* Initially *)

LEMMA RunnerInitInvariant == RunnerInit => RunnerInv
<1> SUFFICES ASSUME RunnerInit PROVE RunnerInv
  OBVIOUS
<1>1. IInv
  BY InitInvariant DEF RunnerInit
<1>2. SimInv
  <2>1. Sim!MakerTypeOK /\ Sim!RestingIsUnfilled
    BY DEF RunnerInit, Sim!MakerInit, Sim!MakerTypeOK, Sim!RestingIsUnfilled
  <2>2. placed \in Seq(Orders) /\ DOMAIN placed = {} /\ resting = {}
    BY DEF RunnerInit, Sim!MakerInit
  <2>3. /\ took \in [Orders -> Nat]
        /\ \A o \in Orders : order[o] = Sim!NoOrder => filled[o] = 0
    BY DEF RunnerInit, Sim!MakerInit
  <2> QED
    BY <2>1, <2>2, <2>3 DEF SimInv
<1>3. DataOK
  <2>1. /\ sent \in [Orders -> Signal \cup {NoSignal}]
        /\ mirror \in [Keys -> Nat] /\ forgot \in [Orders -> Nat]
    BY DEF RunnerInit
  <2>2. settled \in [Sleeves -> [Assets -> Int]]
    BY DEF RunnerInit
  <2>3. row \in [Orders -> RowRecord]
    BY DEF RunnerInit, NoRow, RowRecord
  <2>4. task \in [Tasks -> Frame]
    BY IdleIsFrame DEF RunnerInit
  <2>5. restarts \in 0 .. MaxRestarts
    BY RunnerAssumption DEF RunnerInit
  <2> QED
    BY <2>1, <2>2, <2>3, <2>4, <2>5 DEF DataOK
<1>4. BlankInv
  BY DEF RunnerInit, BlankInv, Unsubmitted, Sim!MakerInit, NoRow
<1>5. TasksInv
  <2>1. ASSUME NEW t \in Tasks
        PROVE  task[t].at = "idle" /\ task[t].fills = <<>> /\ ~task[t].sell.live
    BY DEF RunnerInit, Idle, NoObject
  <2>2. \A t \in Tasks : ~InFlight(t) /\ ~Handling(t)
    BY <2>1 DEF InFlight, Handling
  <2>3. DOMAIN <<>> = {}
    BY EmptyList
  <2> QED
    BY <2>1, <2>2, <2>3 DEF TasksInv, TaskOK
<1> QED
  BY <1>1, <1>2, <1>3, <1>4, <1>5 DEF RunnerInv

-----------------------------------------------------------------------------
(* The steps of the simulator *)

SimSteady == UNCHANGED simVars

LEMMA SimStutters == ASSUME SimInv, SimSteady PROVE SimInv'
<1> USE DEF SimSteady, simVars
<1>1. Sim!MakerTypeOK' /\ Sim!RestingIsUnfilled'
  BY DEF SimInv, Sim!MakerTypeOK, Sim!RestingIsUnfilled
<1> QED
  BY <1>1 DEF SimInv

\* What a print fills of an order that rests.
LEMMA FillSizeFacts ==
    ASSUME SimInv, NEW o \in resting, NEW size \in Nat
    PROVE  /\ Sim!FillSize(o, size) \in Nat
           /\ filled[o] + Sim!FillSize(o, size) <= order[o].size
           /\ Sim!Consumed(o, size) \in Nat
           /\ Sim!Consumed(o, size) <= q_ahead[o]
           /\ order[o] \in Sim!Order /\ order[o].size \in Nat
<1>1. o \in Orders /\ order[o] \in Sim!Order
  BY DEF SimInv, Sim!MakerTypeOK
<1>2. order[o].size \in Nat /\ order[o].price \in Prices
  BY <1>1, TrackerAssumption DEF Sim!Order
<1>3. q_ahead[o] \in Nat /\ filled[o] \in Nat /\ filled[o] < order[o].size
  BY <1>1 DEF SimInv, Sim!MakerTypeOK, Sim!RestingIsUnfilled
<1>4. Sim!Consumed(o, size) \in Nat /\ Sim!Consumed(o, size) <= q_ahead[o]
        /\ Sim!Consumed(o, size) <= size
  BY <1>3 DEF Sim!Consumed, Sim!Least
<1>5. Sim!FillSize(o, size) \in Nat /\ filled[o] + Sim!FillSize(o, size) <= order[o].size
  BY <1>2, <1>3, <1>4 DEF Sim!FillSize, Sim!Least, Sim!Remaining
<1> QED
  BY <1>1, <1>2, <1>4, <1>5

LEMMA SimTradePrint ==
    ASSUME SimInv, NEW a \in Assets, NEW price \in Prices, NEW size \in PrintSizes,
           Sim!TradePrint(a, price, size), UNCHANGED <<placed, took>>
    PROVE  /\ SimInv'
           /\ \A o \in Orders : /\ filled'[o] \in Nat /\ filled'[o] >= filled[o]
                                /\ filled'[o] > filled[o] =>
                                      /\ o \in resting
                                      /\ o \in Range(placed) /\ o \notin missed
                                      /\ order[o] \in Sim!Order
           /\ order' = order /\ missed' = missed /\ resting' \subseteq resting
<1> DEFINE hit == {o \in Orders : Sim!EatsQueue(o, a, price)}
<1>1. size \in Nat
  BY RunnerAssumption
<1>2. hit \subseteq resting /\ hit \subseteq Orders
  BY DEF Sim!EatsQueue
<1>3. order' = order /\ missed' = missed /\ queue0' = queue0
  BY DEF Sim!TradePrint
<1>4. ASSUME NEW o \in hit
      PROVE  /\ filled'[o] = filled[o] + Sim!FillSize(o, size)
             /\ q_ahead'[o] = q_ahead[o] - Sim!Consumed(o, size)
             /\ printed'[o] = printed[o] + size
  BY DEF Sim!TradePrint
<1>5. ASSUME NEW o \in Orders, o \notin hit
      PROVE  filled'[o] = filled[o] /\ q_ahead'[o] = q_ahead[o] /\ printed'[o] = printed[o]
  BY <1>5 DEF Sim!TradePrint
<1>6. ASSUME NEW o \in Orders
      PROVE  /\ filled[o] \in Nat /\ q_ahead[o] \in Nat /\ printed[o] \in Nat
             /\ filled'[o] \in Nat /\ filled'[o] >= filled[o]
             /\ q_ahead'[o] \in Nat /\ printed'[o] \in Nat
  <2>1. filled[o] \in Nat /\ q_ahead[o] \in Nat /\ printed[o] \in Nat
    BY DEF SimInv, Sim!MakerTypeOK
  <2>2. CASE o \in hit
    <3>1. /\ Sim!FillSize(o, size) \in Nat /\ Sim!Consumed(o, size) \in Nat
          /\ Sim!Consumed(o, size) <= q_ahead[o]
      BY <1>1, <1>2, <2>2, FillSizeFacts
    <3> HIDE DEF hit
    <3> QED
      BY <1>1, <1>4, <2>1, <2>2, <3>1
  <2>3. CASE o \notin hit
    BY <1>5, <2>1, <2>3
  <2> QED
    BY <2>2, <2>3
<1>7. /\ resting' = resting \ {o \in hit : Sim!IsDone(o, filled'[o])}
      /\ DOMAIN filled' = Orders /\ DOMAIN q_ahead' = Orders /\ DOMAIN printed' = Orders
      /\ filled' = [o \in Orders |-> filled'[o]]
      /\ q_ahead' = [o \in Orders |-> q_ahead'[o]]
      /\ printed' = [o \in Orders |-> printed'[o]]
  BY DEF Sim!TradePrint
<1> HIDE DEF hit
<1>8. Sim!MakerTypeOK'
  <2>1. filled' \in [Orders -> Nat] /\ q_ahead' \in [Orders -> Nat] /\ printed' \in [Orders -> Nat]
    BY <1>6, <1>7
  <2>2. /\ order' \in [Orders -> Sim!Order \cup {Sim!NoOrder}] /\ queue0' \in [Orders -> Nat]
        /\ resting' \subseteq {o \in Orders : order'[o] # Sim!NoOrder}
        /\ missed' \subseteq {o \in Orders : order'[o] # Sim!NoOrder} \ resting'
    BY <1>3, <1>7 DEF SimInv, Sim!MakerTypeOK
  <2> QED
    BY <2>1, <2>2 DEF Sim!MakerTypeOK
<1>9. Sim!RestingIsUnfilled'
  <2> SUFFICES ASSUME NEW o \in resting' PROVE filled'[o] < order'[o].size
    BY DEF Sim!RestingIsUnfilled
  <2>1. o \in resting /\ o \in Orders
    BY <1>7 DEF SimInv, Sim!MakerTypeOK
  <2>2. CASE o \in hit
    <3>1. ~Sim!IsDone(o, filled'[o])
      BY <1>7, <2>2
    <3>2. order[o].size \in Nat
      BY <2>1, <1>1, FillSizeFacts
    <3>3. filled'[o] \in Nat
      BY <1>6, <2>1
    <3> QED
      BY <1>3, <3>1, <3>2, <3>3 DEF Sim!IsDone
  <2>3. CASE o \notin hit
    BY <1>3, <1>5, <2>1, <2>3 DEF SimInv, Sim!RestingIsUnfilled
  <2> QED
    BY <2>2, <2>3
<1>10. ASSUME NEW o \in Orders, filled'[o] > filled[o]
       PROVE  /\ o \in resting /\ o \in Range(placed) /\ o \notin missed
              /\ order[o] \in Sim!Order /\ order[o] # Sim!NoOrder
  <2>1. o \in resting
    BY <1>2, <1>5, <1>6, <1>10
  <2> QED
    BY <2>1 DEF SimInv, Sim!MakerTypeOK
<1>11. ASSUME NEW o \in Orders, order'[o] = Sim!NoOrder
       PROVE  filled'[o] = 0
  <2>1. filled[o] = 0
    BY <1>3, <1>11 DEF SimInv
  <2> QED
    BY <1>3, <1>6, <1>10, <1>11, <2>1
<1>12. SimInv'
  BY <1>3, <1>7, <1>8, <1>9, <1>11 DEF SimInv
<1>13. resting' \subseteq resting
  BY <1>7
<1> QED
  BY <1>3, <1>6, <1>10, <1>12, <1>13

LEMMA SimBookMoved ==
    ASSUME SimInv, NEW away, Sim!BookMoved(away), UNCHANGED <<placed, took>>
    PROVE  /\ SimInv'
           /\ order' = order /\ filled' = filled
           /\ missed' = missed \cup away /\ resting' \subseteq resting
           /\ away \subseteq Range(placed) /\ away \subseteq Orders
           /\ \A o \in away : order[o] \in Sim!Order
<1>1. /\ away \subseteq resting /\ resting' = resting \ away /\ missed' = missed \cup away
      /\ UNCHANGED <<order, q_ahead, filled, queue0, printed>>
  BY DEF Sim!BookMoved
<1>2. Sim!MakerTypeOK' /\ Sim!RestingIsUnfilled'
  BY <1>1 DEF SimInv, Sim!MakerTypeOK, Sim!RestingIsUnfilled
<1>3. SimInv'
  BY <1>1, <1>2 DEF SimInv
<1> QED
  BY <1>1, <1>3 DEF SimInv, Sim!MakerTypeOK

LEMMA SimRestart ==
    ASSUME SimInv, resting' = {}, placed' = <<>>,
           UNCHANGED <<order, q_ahead, filled, missed, queue0, printed, took>>
    PROVE  SimInv'
<1>1. Sim!MakerTypeOK' /\ Sim!RestingIsUnfilled'
  BY DEF SimInv, Sim!MakerTypeOK, Sim!RestingIsUnfilled
<1>2. placed' \in Seq(Orders) /\ DOMAIN placed' = {}
  OBVIOUS
<1>3. /\ took' \in [Orders -> Nat]
      /\ \A o \in Orders : order'[o] = Sim!NoOrder => filled'[o] = 0
  BY DEF SimInv
<1> QED
  BY <1>1, <1>2, <1>3 DEF SimInv

LEMMA SimTake ==
    ASSUME SimInv, NEW o \in Orders, NEW size \in Nat, took' = [took EXCEPT ![o] = size],
           UNCHANGED <<order, resting, q_ahead, filled, missed, queue0, printed, placed>>
    PROVE  /\ SimInv' /\ took'[o] = size
           /\ \A p \in Orders : p # o => took'[p] = took[p]
<1>1. Sim!MakerTypeOK' /\ Sim!RestingIsUnfilled'
  BY DEF SimInv, Sim!MakerTypeOK, Sim!RestingIsUnfilled
<1>2. took' \in [Orders -> Nat] /\ took'[o] = size /\ \A p \in Orders : p # o => took'[p] = took[p]
  BY DEF SimInv
<1> QED
  BY <1>1, <1>2 DEF SimInv

LEMMA SimRest ==
    ASSUME SimInv, NEW o \in Orders, filled[o] = 0,
           NEW ord \in Sim!Order, NEW depth \in Nat,
           Sim!Register(o, ord, depth), placed' = Append(placed, o), UNCHANGED took
    PROVE  /\ SimInv' /\ filled' = filled /\ missed' = missed
           /\ \A p \in Orders : p # o => order'[p] = order[p]
<1>1. /\ order[o] = Sim!NoOrder /\ order' = [order EXCEPT ![o] = ord]
      /\ resting' = resting \cup {o} /\ q_ahead' = [q_ahead EXCEPT ![o] = depth]
      /\ queue0' = [queue0 EXCEPT ![o] = depth]
      /\ UNCHANGED <<filled, missed, printed>>
  BY DEF Sim!Register
<1>2. order'[o] = ord /\ \A p \in Orders : p # o => order'[p] = order[p]
  BY <1>1 DEF SimInv, Sim!MakerTypeOK
<1>3. ord # Sim!NoOrder /\ ord.size \in Nat \ {0}
  BY OrderIsNotNoOrder, TrackerAssumption DEF Sim!Order
<1>4. Sim!MakerTypeOK'
  BY <1>1, <1>2, <1>3 DEF SimInv, Sim!MakerTypeOK
<1>5. Sim!RestingIsUnfilled'
  BY <1>1, <1>2, <1>3 DEF SimInv, Sim!MakerTypeOK, Sim!RestingIsUnfilled
<1>6. /\ placed' \in Seq(Orders) /\ Len(placed') = Len(placed) + 1 /\ Len(placed) \in Nat
      /\ DOMAIN placed' = 1 .. Len(placed) + 1 /\ DOMAIN placed = 1 .. Len(placed)
      /\ placed'[Len(placed) + 1] = o
      /\ \A i \in 1 .. Len(placed) : placed'[i] = placed[i]
  BY DEF SimInv
<1>7. \A i \in DOMAIN placed : placed[i] \in Orders /\ order[placed[i]] # Sim!NoOrder
                               /\ placed[i] # o
  BY <1>1 DEF SimInv
<1>8. resting' \subseteq Range(placed')
  <2>1. Range(placed) \subseteq Range(placed') /\ o \in Range(placed')
    BY <1>6 DEF Range
  <2> QED
    BY <1>1, <2>1 DEF SimInv
<1>9. ASSUME NEW i \in DOMAIN placed' PROVE order'[placed'[i]] # Sim!NoOrder
  <2>1. CASE i \in DOMAIN placed
    BY <1>2, <1>6, <1>7, <2>1
  <2>2. CASE i = Len(placed) + 1
    BY <1>2, <1>3, <1>6, <2>2
  <2> QED
    BY <1>6, <2>1, <2>2
<1>10. ASSUME NEW i \in DOMAIN placed', NEW j \in DOMAIN placed', placed'[i] = placed'[j]
       PROVE  i = j
  <2>1. CASE i \in DOMAIN placed /\ j \in DOMAIN placed
    BY <1>6, <1>10, <2>1 DEF SimInv
  <2>2. CASE i = Len(placed) + 1
    BY <1>6, <1>7, <1>10, <2>2
  <2>3. CASE j = Len(placed) + 1
    BY <1>6, <1>7, <1>10, <2>3
  <2> QED
    BY <1>6, <2>1, <2>2, <2>3
<1>11. SimInv'
  <2>1. took' \in [Orders -> Nat]
    BY DEF SimInv
  <2>2. ASSUME NEW p \in Orders, order'[p] = Sim!NoOrder PROVE filled'[p] = 0
    BY <1>1, <1>2, <1>3, <2>2 DEF SimInv
  <2> QED
    BY <1>4, <1>5, <1>6, <1>8, <1>9, <1>10, <2>1, <2>2 DEF SimInv
<1> QED
  BY <1>1, <1>2, <1>11

\* The dict's order lists every member of a set of its keys exactly once.
LEMMA DictOrderFacts ==
    ASSUME SimInv, NEW set \in SUBSET Orders, NEW h \in InDictOrder(set)
    PROVE  /\ Cardinality(set) \in Nat /\ h \in [1 .. Cardinality(set) -> set]
           /\ \A i, j \in DOMAIN h : h[i] = h[j] => i = j
           /\ \A o \in set : \E i \in DOMAIN h : h[i] = o
<1> DEFINE n == Cardinality(set)
<1>1. IsFiniteSet(set) /\ n \in Nat
  BY OrdersAreFinite, FS_CardinalityType
<1>2. h \in [1 .. n -> set] /\ \A i, j \in DOMAIN h : i < j => Before(h[i], h[j])
  BY DEF InDictOrder
<1>3. \A o : ~Before(o, o)
  <2>1. \A i \in DOMAIN placed : i \in Nat
    BY DEF SimInv
  <2>2. \A i, j \in DOMAIN placed : placed[i] = placed[j] => i = j
    BY DEF SimInv
  <2> QED
    BY <2>1, <2>2 DEF Before
<1>4. ASSUME NEW i \in DOMAIN h, NEW j \in DOMAIN h, h[i] = h[j] PROVE i = j
  <2>1. i \in Nat /\ j \in Nat
    BY <1>1, <1>2
  <2>2. ~(i < j) /\ ~(j < i)
    BY <1>2, <1>3, <1>4
  <2> QED
    BY <2>1, <2>2
<1>5. h \in Injection(1 .. n, set)
  BY <1>2, <1>4 DEF Injection, IsInjective
<1>6. IsFiniteSet(1 .. n) /\ Cardinality(1 .. n) = n
  BY <1>1, FS_Interval
<1>7. h \in Surjection(1 .. n, set)
  <2> HIDE DEF n
  <2> QED
    BY <1>1, <1>5, <1>6, FS_Injection DEF n
<1> QED
  BY <1>1, <1>2, <1>4, <1>7 DEF Surjection

\* The simulator's answer holds one fill of every order in it.
LEMMA AnswerFacts ==
    ASSUME SimInv, NEW set \in SUBSET Orders, NEW h \in InDictOrder(set),
           NEW fillOf, \A o \in set : fillOf[o] \in FillRecord /\ fillOf[o].order = o,
           NEW fills, fills = [i \in DOMAIN h |-> fillOf[h[i]]]
    PROVE  /\ fills \in Seq(FillRecord)
           /\ \A i \in DOMAIN fills : h[i] \in set /\ fills[i] = fillOf[h[i]]
           /\ \A o \in set : SizeIn(fills, o) = fillOf[o].size
           /\ \A o \in Orders \ set : SizeIn(fills, o) = 0
           /\ \A o \in set : \E i \in DOMAIN fills : fills[i] = fillOf[o]
<1> DEFINE n == Cardinality(set)
<1>1. /\ n \in Nat /\ h \in [1 .. n -> set]
      /\ \A i, j \in DOMAIN h : h[i] = h[j] => i = j
      /\ \A o \in set : \E i \in DOMAIN h : h[i] = o
  BY DictOrderFacts
<1> HIDE DEF n
<1>2. DOMAIN fills = DOMAIN h /\ \A i \in DOMAIN fills : h[i] \in set /\ fills[i] = fillOf[h[i]]
  BY <1>1
<1>3. fills \in [1 .. n -> FillRecord]
  BY <1>1
<1>4. fills \in Seq(FillRecord)
  BY <1>1, <1>3
<1>5. ASSUME NEW o \in set PROVE SizeIn(fills, o) = fillOf[o].size
  <2>1. PICK i \in DOMAIN h : h[i] = o
    BY <1>1
  <2>2. i \in DOMAIN fills /\ fills[i] = fillOf[o] /\ fills[i].order = o
    BY <1>2, <2>1
  <2>3. \A j \in DOMAIN fills : j # i => fills[j].order # fills[i].order
    BY <1>1, <1>2, <2>1, <2>2
  <2>4. SizeIn(fills, fills[i].order) = fills[i].size
    BY <1>4, <2>2, <2>3, SizeInOne
  <2> QED
    BY <2>2, <2>4
<1>6. ASSUME NEW o \in Orders \ set PROVE SizeIn(fills, o) = 0
  <2>1. \A i \in DOMAIN fills : fills[i].order # o
    BY <1>2
  <2> QED
    BY <1>4, <2>1, SizeInNone
<1>7. \A o \in set : \E i \in DOMAIN fills : fills[i] = fillOf[o]
  BY <1>1, <1>2
<1> QED
  BY <1>2, <1>4, <1>5, <1>6, <1>7

LEMMA PriceOfOrder == ASSUME NEW x \in Sim!Order PROVE x.price \in Prices
BY DEF Sim!Order

\* What a print and a book event give the task that heard them.
Printed(fills) ==
    /\ fills \in Seq(FillRecord)
    /\ \A i \in DOMAIN fills :
          LET f == fills[i] IN
          f.kind = "maker" /\ f.size > 0 /\ filled'[f.order] > filled[f.order]
          /\ order[f.order] # Sim!NoOrder /\ f.order \notin missed
          /\ f.order \in resting
    /\ \A o \in Orders : SizeIn(fills, o) = filled'[o] - filled[o]
    /\ \A o \in Orders : filled'[o] > filled[o] => \E i \in DOMAIN fills : fills[i].order = o

LEMMA PrintGives ==
    ASSUME SimInv, NEW t, NEW a \in Assets, NEW price \in Prices, NEW size \in PrintSizes,
           TradePrint(t, a, price, size)
    PROVE  \E fills : Printed(fills) /\ Ticked(t, fills)
<1>1. Sim!TradePrint(a, price, size) /\ UNCHANGED <<placed, took>>
  BY DEF TradePrint
<1>2. \A o \in Orders : /\ filled'[o] \in Nat /\ filled'[o] >= filled[o] /\ filled[o] \in Nat
                        /\ filled'[o] > filled[o] =>
                              /\ o \in resting /\ o \in Range(placed) /\ o \notin missed
                              /\ order[o] \in Sim!Order
  BY <1>1, SimTradePrint DEF SimInv, Sim!MakerTypeOK
<1> DEFINE set == {o \in Range(placed) : filled'[o] > filled[o]}
           fillOf == [o \in Orders |-> Fill(o, filled'[o] - filled[o], order[o].price, "maker")]
<1>3. PICK h \in InDictOrder(set) :
         Ticked(t, [i \in DOMAIN h |-> Fill(h[i], filled'[h[i]] - filled[h[i]],
                                            order[h[i]].price, "maker")])
  BY DEF TradePrint
<1>4. set \in SUBSET Orders /\ \A o \in Orders : o \in set <=> filled'[o] > filled[o]
  <2>1. Range(placed) \subseteq Orders
    BY DEF SimInv, Range
  <2> QED
    BY <1>2, <2>1
<1>5. \A o \in set : fillOf[o] \in FillRecord /\ fillOf[o].order = o
  <2> SUFFICES ASSUME NEW o \in set PROVE fillOf[o] \in FillRecord /\ fillOf[o].order = o
    OBVIOUS
  <2>1. order[o].price \in Prices /\ filled'[o] - filled[o] \in Nat /\ o \in Orders
    BY <1>2, <1>4, PriceOfOrder
  <2> QED
    BY <2>1 DEF Fill, FillRecord
<1>6. h \in [1 .. Cardinality(set) -> set]
  BY <1>4, DictOrderFacts
<1> DEFINE fills == [i \in DOMAIN h |-> fillOf[h[i]]]
<1>7. fills = [i \in DOMAIN h |-> Fill(h[i], filled'[h[i]] - filled[h[i]],
                                       order[h[i]].price, "maker")]
  BY <1>4, <1>6
<1> HIDE DEF set
<1>8. /\ fills \in Seq(FillRecord)
      /\ \A i \in DOMAIN fills : h[i] \in set /\ fills[i] = fillOf[h[i]]
      /\ \A o \in set : SizeIn(fills, o) = fillOf[o].size
      /\ \A o \in Orders \ set : SizeIn(fills, o) = 0
      /\ \A o \in set : \E i \in DOMAIN fills : fills[i] = fillOf[o]
  <2> HIDE DEF fillOf
  <2> QED
    BY <1>4, <1>5, AnswerFacts
<1>9. \A o \in Orders : fillOf[o].size = filled'[o] - filled[o] /\ fillOf[o].order = o
                        /\ fillOf[o].kind = "maker"
  BY DEF Fill
<1> HIDE DEF fillOf, fills
<1>10. ASSUME NEW i \in DOMAIN fills
       PROVE  LET f == fills[i] IN
              f.kind = "maker" /\ f.size > 0 /\ filled'[f.order] > filled[f.order]
              /\ order[f.order] # Sim!NoOrder /\ f.order \notin missed
              /\ f.order \in resting
  <2>1. h[i] \in set /\ h[i] \in Orders /\ fills[i] = fillOf[h[i]]
    BY <1>4, <1>8
  <2>2. filled'[h[i]] > filled[h[i]] /\ filled'[h[i]] \in Nat /\ filled[h[i]] \in Nat
        /\ order[h[i]] # Sim!NoOrder /\ h[i] \notin missed /\ h[i] \in resting
    BY <1>2, <1>4, <2>1, OrderIsNotNoOrder
  <2> QED
    BY <1>9, <2>1, <2>2
<1>11. ASSUME NEW o \in Orders PROVE SizeIn(fills, o) = filled'[o] - filled[o]
  <2>1. CASE o \in set
    BY <1>8, <1>9, <2>1
  <2>2. CASE o \notin set
    <3>1. SizeIn(fills, o) = 0
      BY <1>8, <2>2
    <3>2. filled'[o] = filled[o] /\ filled[o] \in Nat
      BY <1>2, <1>4, <2>2
    <3> QED
      BY <3>1, <3>2
  <2> QED
    BY <2>1, <2>2
<1>12. ASSUME NEW o \in Orders, filled'[o] > filled[o]
       PROVE  \E i \in DOMAIN fills : fills[i].order = o
  BY <1>4, <1>8, <1>9, <1>12
<1>13. Printed(fills)
  BY <1>8, <1>10, <1>11, <1>12 DEF Printed
<1>14. Ticked(t, fills)
  BY <1>3, <1>7
<1> QED
  BY <1>13, <1>14

Marked(fills) ==
    /\ fills \in Seq(FillRecord)
    /\ \A i \in DOMAIN fills :
          LET f == fills[i] IN f.kind = "missed" /\ f.size = 0 /\ f.order \in missed'
                               /\ order[f.order] # Sim!NoOrder /\ f.order \in resting
    /\ \A o \in Orders : SizeIn(fills, o) = 0
    /\ \A o \in missed' \ missed : \E i \in DOMAIN fills : fills[i].order = o

LEMMA MoveGives ==
    ASSUME SimInv, NEW t, NEW a \in Assets, NEW away \in SUBSET resting, BookMoved(t, a, away)
    PROVE  \E fills : Marked(fills) /\ Ticked(t, fills)
<1>1. /\ missed' = missed \cup away
      /\ away \subseteq Range(placed) /\ away \in SUBSET Orders
      /\ \A o \in away : order[o] \in Sim!Order
  <2>1. Sim!BookMoved(away) /\ UNCHANGED <<placed, took>>
    BY DEF BookMoved
  <2> QED
    BY <2>1, SimBookMoved
<1> DEFINE fillOf == [o \in Orders |-> Fill(o, 0, order[o].price, "missed")]
<1>2. PICK h \in InDictOrder(away) :
         Ticked(t, [i \in DOMAIN h |-> Fill(h[i], 0, order[h[i]].price, "missed")])
  <2>1. Range(placed) \cap away = away
    BY <1>1
  <2> QED
    BY <2>1 DEF BookMoved
<1>3. h \in [1 .. Cardinality(away) -> away]
  BY <1>1, DictOrderFacts
<1>4. \A o \in away : fillOf[o] \in FillRecord /\ fillOf[o].order = o
  BY <1>1, PriceOfOrder DEF Fill, FillRecord
<1> DEFINE fills == [i \in DOMAIN h |-> fillOf[h[i]]]
<1>5. fills = [i \in DOMAIN h |-> Fill(h[i], 0, order[h[i]].price, "missed")]
  BY <1>1, <1>3
<1>6. /\ fills \in Seq(FillRecord)
      /\ \A i \in DOMAIN fills : h[i] \in away /\ fills[i] = fillOf[h[i]]
      /\ \A o \in away : SizeIn(fills, o) = fillOf[o].size
      /\ \A o \in Orders \ away : SizeIn(fills, o) = 0
      /\ \A o \in away : \E i \in DOMAIN fills : fills[i] = fillOf[o]
  <2> HIDE DEF fillOf
  <2> QED
    BY <1>1, <1>4, AnswerFacts
<1>7. \A o \in Orders : fillOf[o].size = 0 /\ fillOf[o].order = o /\ fillOf[o].kind = "missed"
  BY DEF Fill
<1> HIDE DEF fillOf, fills
<1>8. Marked(fills)
  BY <1>1, <1>6, <1>7, OrderIsNotNoOrder DEF Marked
<1>9. Ticked(t, fills)
  BY <1>2, <1>5
<1> QED
  BY <1>8, <1>9

-----------------------------------------------------------------------------
(* The tracker, driven by the fills of the tasks *)

LEMMA TrackerStutters == ASSUME IInv, UNCHANGED vars PROVE IInv'
BY DEF IInv, TypeOK, OneSided, EntryWithinPayout, Open, vars

LEMMA NetIsInt ==
    ASSUME IInv, NEW s \in Sleeves, NEW a \in Assets PROVE NetOf(s, a) \in Int
BY LedgerTypes

\* The rows of a fill's token on both sides.
LEMMA SideKeys ==
    ASSUME NEW s \in Sleeves, NEW a \in Assets
    PROVE  <<s, a, "buy">> \in Keys /\ <<s, a, "sell">> \in Keys
BY DEF Keys, Sides

LEMMA KeyParts ==
    ASSUME NEW k \in Keys
    PROVE  /\ k[1] \in Sleeves /\ k[2] \in Assets /\ k[3] \in Sides
           /\ k = <<k[1], k[2], k[3]>>
           /\ k = <<k[1], k[2], "buy">> \/ k = <<k[1], k[2], "sell">>
BY DEF Keys, Sides

LEMMA FillOfTracker ==
    ASSUME IInv, NEW s \in Sleeves, NEW a \in Assets, NEW side \in Sides,
           NEW size \in Nat \ {0}, NEW price \in Prices,
           OnFill(s, a, side, size, price, FillGas)
    PROVE  /\ IInv'
           /\ winnerOf' = winnerOf
           /\ NetOf(s, a)' = NetOf(s, a) + Signed(side, size)
           /\ \A z \in Sleeves, b \in Assets : ~(z = s /\ b = a) => NetOf(z, b)' = NetOf(z, b)
           /\ \A k \in Keys : ~(k[1] = s /\ k[2] = a) => positions'[k] = positions[k]
           /\ \A k \in Keys : positions'[k].size > 0 =>
                 positions[k].size > 0 \/ k = <<s, a, side>>
<1>1. FillGas \in Gases
  BY RunnerAssumption
<1>2. IInv'
  BY <1>1, OpenOrAddInvariant, CloseAgainstInvariant DEF OnFill
<1>3. L!Trade(s, a, Signed(side, size))
  BY <1>1, OpenOrAddRefines, CloseAgainstRefines DEF OnFill
<1> DEFINE net == [z \in Sleeves |-> [b \in Assets |-> NetOf(z, b)]]
           after == [z \in Sleeves |-> [b \in Assets |-> NetOf(z, b)']]
<1>4. after = [net EXCEPT ![s][a] = @ + Signed(side, size)]
  BY <1>3 DEF L!Trade
<1>5. ASSUME NEW z \in Sleeves, NEW b \in Assets
      PROVE  after[z][b] = IF z = s /\ b = a THEN net[z][b] + Signed(side, size) ELSE net[z][b]
  <2> HIDE DEF after
  <2> QED
    BY <1>4
<1>6. ASSUME NEW z \in Sleeves, NEW b \in Assets
      PROVE  NetOf(z, b)' = IF z = s /\ b = a THEN NetOf(z, b) + Signed(side, size)
                                              ELSE NetOf(z, b)
  <2>1. after[z][b] = NetOf(z, b)' /\ net[z][b] = NetOf(z, b)
    OBVIOUS
  <2> HIDE DEF after, net
  <2> QED
    BY <1>5, <2>1
<1>7. winnerOf' = winnerOf
  BY DEF OnFill, OpenOrAdd, CloseAgainst
<1>8. ASSUME NEW k \in Keys
      PROVE  /\ ~(k[1] = s /\ k[2] = a) => positions'[k] = positions[k]
             /\ positions'[k].size > 0 => positions[k].size > 0 \/ k = <<s, a, side>>
  <2>1. positions \in [Keys -> Position]
    BY DEF IInv, TypeOK
  <2>2. CASE OpenOrAdd(s, a, side, size, price, FillGas)
    <3>1. k # <<s, a, side>> => positions'[k] = positions[k]
      BY <2>1, <2>2 DEF OpenOrAdd
    <3> QED
      BY <3>1
  <2>3. CASE CloseAgainst(s, a, side, size, price, FillGas)
    <3>1. k # <<s, a, side>> /\ k # <<s, a, Opposite(side)>> => positions'[k] = positions[k]
      BY <2>1, <2>3 DEF CloseAgainst
    <3>2. k = <<s, a, Opposite(side)>> => positions[k].size > 0
      BY <2>3 DEF CloseAgainst, Open
    <3> QED
      BY <3>1, <3>2
  <2> QED
    BY <2>2, <2>3 DEF OnFill
<1> QED
  BY <1>2, <1>6, <1>7, <1>8

\* What a step of task t leaves of the others: all but a Position object.
Keeps(u) ==
    /\ task'[u].at = task[u].at /\ task'[u].turn = task[u].turn
    /\ task'[u].cur = task[u].cur /\ task'[u].fills = task[u].fills
    /\ task'[u].direct = task[u].direct /\ task'[u].write = task[u].write
    /\ task'[u].sell.live => task[u].sell.live
Others(t) == \A u \in Tasks : u # t => Keeps(u)

LEMMA GotoKeeps ==
    ASSUME DataOK, NEW t \in Tasks, NEW new \in Frame, Goto(t, new)
    PROVE  Others(t)
BY GotoFacts DEF Others, Keeps

\* The frame of a task that has handled its first fill.
LEMMA NextFillFacts ==
    ASSUME DataOK, NEW t \in Tasks, task[t].fills # <<>>
    PROVE  /\ NextFill(t) \in Frame
           /\ NextFill(t).fills = Tail(task[t].fills)
           /\ NextFill(t).at = IF Tail(task[t].fills) = <<>> THEN "strategies" ELSE "fill row"
           /\ NextFill(t).cur = task[t].cur /\ NextFill(t).direct = task[t].direct
           /\ NextFill(t).turn = task[t].turn /\ NextFill(t).write = task[t].write
           /\ NextFill(t).sell = task[t].sell
<1>1. task[t] \in Frame /\ task[t].fills \in Seq(FillRecord)
  BY DEF DataOK, Frame
<1>2. Tail(task[t].fills) \in Seq(FillRecord)
  BY <1>1, TailFacts
<1>3. {"strategies", "fill row"} \subseteq Steps
  BY DEF Steps
<1> QED
  BY <1>1, <1>2, <1>3 DEF NextFill, Frame

LEMMA FrameFacts ==
    ASSUME DataOK, NEW t \in Tasks
    PROVE  /\ task[t] \in Frame /\ task[t].fills \in Seq(FillRecord)
           /\ task[t].fills # <<>> =>
                 /\ Head(task[t].fills) \in FillRecord
                 /\ Head(task[t].fills).order \in Orders
                 /\ Head(task[t].fills).size \in Nat
                 /\ Head(task[t].fills).price \in Prices
<1>1. task[t] \in Frame /\ task[t].fills \in Seq(FillRecord)
  BY DEF DataOK, Frame
<1>2. task[t].fills # <<>> => Head(task[t].fills) \in FillRecord
  BY <1>1, TailFacts
<1> QED
  BY <1>1, <1>2 DEF FillRecord

\* What the tracker does with a fill, and what becomes of the tasks.
TrackedFill(f) ==
    LET sig == sent[f.order] IN
    /\ winnerOf' = winnerOf
    /\ \A s \in Sleeves, a \in Assets :
          NetOf(s, a)' = IF sig.sleeve = s /\ sig.asset = a
                         THEN NetOf(s, a) + Signed(sig.side, f.size) ELSE NetOf(s, a)
    /\ \A k \in Keys : ~(k[1] = sig.sleeve /\ k[2] = sig.asset) => positions'[k] = positions[k]
    /\ \A k \in Keys : positions'[k].size > 0 =>
          positions[k].size > 0 \/ (f.size > 0 /\ k = KeyOf(f.order, sig.side))

TrackedTask(t, f) ==
    /\ task'[t].at = "buy row" /\ task'[t].fills = task[t].fills
    /\ task'[t].cur = task[t].cur /\ task'[t].direct = task[t].direct

LEMMA TrackFacts ==
    ASSUME IInv, DataOK, NEW t \in Tasks, task[t].fills # <<>>,
           sent[Head(task[t].fills).order] # NoSignal,
           \A u \in Tasks : task[u].sell.live =>
              task[u].fills # <<>> /\ sent[Head(task[u].fills).order] # NoSignal,
           Track(t, Head(task[t].fills))
    PROVE  /\ IInv' /\ TrackedFill(Head(task[t].fills))
           /\ TrackedTask(t, Head(task[t].fills))
           /\ task' \in [Tasks -> Frame] /\ Others(t)
<1> DEFINE f == Head(task[t].fills)
           o == f.order
           sig == sent[o]
<1>1. o \in Orders /\ f.size \in Nat /\ f.price \in Prices
  BY FrameFacts
<1>2. /\ sig.sleeve \in Sleeves /\ sig.asset \in Assets /\ sig.side \in Sides
      /\ \A side \in Sides : KeyOf(o, side) \in Keys
  BY <1>1, SignalFacts
<1>3. /\ KeyOf(o, "buy") = <<sig.sleeve, sig.asset, "buy">>
      /\ KeyOf(o, "sell") = <<sig.sleeve, sig.asset, "sell">>
      /\ KeyOf(o, sig.side) = <<sig.sleeve, sig.asset, sig.side>>
      /\ KeyOf(o, "buy") \in Keys /\ KeyOf(o, "sell") \in Keys
  BY <1>2 DEF KeyOf, Sides
<1>4. IInv' /\ TrackedFill(f)
  <2>1. CASE f.size = 0
    <3>1. UNCHANGED vars
      BY <2>1 DEF Track
    <3>2. IInv'
      BY <3>1, TrackerStutters
    <3>3. winnerOf' = winnerOf /\ positions' = positions
      BY <3>1 DEF vars
    <3>4. Signed(sig.side, f.size) = 0
      BY <2>1 DEF Signed
    <3>5. ASSUME NEW s \in Sleeves, NEW a \in Assets
          PROVE  NetOf(s, a)' = NetOf(s, a) /\ NetOf(s, a) + 0 = NetOf(s, a)
      <4>1. NetOf(s, a)' = NetOf(s, a)
        BY <3>3 DEF NetOf
      <4>2. NetOf(s, a) \in Int
        BY NetIsInt
      <4> QED
        BY <4>1, <4>2
    <3> QED
      BY <3>2, <3>3, <3>4, <3>5 DEF TrackedFill
  <2>2. CASE f.size # 0
    <3>1. PICK s \in Sleeves, a \in Assets, side \in Sides, size \in Nat \ {0}, price \in Prices :
             /\ s = sig.sleeve /\ a = sig.asset /\ side = sig.side
             /\ size = f.size /\ price = f.price
             /\ OnFill(s, a, side, size, price, FillGas)
      BY <1>1, <1>2, <2>2 DEF Track
    <3>2. /\ IInv' /\ winnerOf' = winnerOf
          /\ NetOf(s, a)' = NetOf(s, a) + Signed(side, size)
          /\ \A z \in Sleeves, c \in Assets : ~(z = s /\ c = a) => NetOf(z, c)' = NetOf(z, c)
          /\ \A k \in Keys : ~(k[1] = s /\ k[2] = a) => positions'[k] = positions[k]
          /\ \A k \in Keys : positions'[k].size > 0 =>
                positions[k].size > 0 \/ k = <<s, a, side>>
      <4>1. OnFill(s, a, side, size, price, FillGas)
        BY <3>1
      <4> QED
        BY <4>1, FillOfTracker
    <3>3. KeyOf(o, sig.side) = <<s, a, side>> /\ f.size > 0 /\ f.size = size
      <4>1. size > 0
        OBVIOUS
      <4> HIDE DEF f
      <4> QED
        BY <1>3, <3>1, <4>1
    <3>4. ASSUME NEW z \in Sleeves, NEW c \in Assets
          PROVE  NetOf(z, c)' = IF sig.sleeve = z /\ sig.asset = c
                                THEN NetOf(z, c) + Signed(sig.side, f.size) ELSE NetOf(z, c)
      BY <3>1, <3>2
    <3> QED
      BY <3>1, <3>2, <3>3, <3>4 DEF TrackedFill
  <2> QED
    BY <2>1, <2>2
<1>5. \A k \in Keys : positions'[k].size \in Nat
  BY <1>4 DEF IInv, TypeOK, Position
<1>6. /\ DOMAIN task' = Tasks
      /\ task'[t] = [task[t] EXCEPT !.at = "buy row",
                        !.write = positions'[KeyOf(o, "buy")].size,
                        !.sell = [size |-> positions'[KeyOf(o, "sell")].size,
                                  live |-> positions'[KeyOf(o, "sell")].size > 0]]
  BY DEF Track
<1>7. task'[t] \in Frame /\ TrackedTask(t, f)
  <2>1. task[t] \in Frame /\ "buy row" \in Steps
    BY FrameFacts DEF Steps
  <2>2. positions'[KeyOf(o, "buy")].size \in Nat /\ positions'[KeyOf(o, "sell")].size \in Nat
    BY <1>3, <1>5
  <2> DEFINE w == positions'[KeyOf(o, "buy")].size
             held == [size |-> positions'[KeyOf(o, "sell")].size,
                      live |-> positions'[KeyOf(o, "sell")].size > 0]
  <2>3. w \in Nat /\ held \in [size : Nat, live : BOOLEAN]
    BY <2>2
  <2>4. task'[t] = [task[t] EXCEPT !.at = "buy row", !.write = w, !.sell = held]
    BY <1>6
  <2> HIDE DEF w, held
  <2>5. task'[t] \in Frame
    BY <2>1, <2>3, <2>4 DEF Frame
  <2>6. TrackedTask(t, f)
    BY <2>1, <2>4 DEF Frame, TrackedTask
  <2> QED
    BY <2>5, <2>6
<1>8. ASSUME NEW u \in Tasks, u # t PROVE task'[u] \in Frame /\ Keeps(u)
  <2>1. task[u] \in Frame
    BY FrameFacts
  <2>2. CASE ~task[u].sell.live
    <3>1. task'[u] = task[u]
      BY <1>8, <2>2 DEF Track
    <3> QED
      BY <2>1, <3>1 DEF Keeps
  <2>3. CASE task[u].sell.live
    <3> DEFINE k == KeyOf(Head(task[u].fills).order, "sell")
               held == [size |-> positions'[k].size, live |-> positions'[k].size > 0]
    <3>1. task'[u] = [task[u] EXCEPT !.sell = held]
      BY <1>8, <2>3 DEF Track, Follow
    <3>2. k \in Keys
      BY <2>3, FrameFacts, SignalFacts DEF Sides
    <3>3. held \in [size : Nat, live : BOOLEAN]
      BY <1>5, <3>2
    <3> HIDE DEF held
    <3> QED
      BY <2>1, <2>3, <3>1, <3>3 DEF Frame, Keeps
  <2> QED
    BY <2>2, <2>3
<1>9. task' \in [Tasks -> Frame]
  <2>1. task' = [u \in Tasks |-> task'[u]]
    BY DEF Track
  <2>2. \A u \in Tasks : task'[u] \in Frame
    BY <1>7, <1>8
  <2> QED
    BY <2>1, <2>2
<1> QED
  BY <1>4, <1>7, <1>8, <1>9 DEF Others

-----------------------------------------------------------------------------
(* What a step of one task means for what is said of all of them *)

\* What has happened to an order does not unhappen.
Grows ==
    /\ \A o \in Orders : /\ sent[o] # NoSignal => sent'[o] = sent[o]
                         /\ filled[o] > 0 => filled'[o] > 0
                         /\ took[o] > 0 => took'[o] > 0
    /\ missed \subseteq missed'

Quiet(o) == /\ sent'[o] = sent[o] /\ order'[o] = order[o] /\ row'[o] = row[o]
            /\ filled'[o] = filled[o] /\ took'[o] = took[o]

LEMMA TailOfOne ==
    ASSUME NEW fills \in Seq(FillRecord), Len(fills) = 1
    PROVE  Tail(fills) = <<>>
<1>1. fills # <<>>
  <2>1. DOMAIN <<>> = {}
    BY EmptyList
  <2>2. 1 \in DOMAIN fills
    BY FillsAreFinite
  <2> QED
    BY <2>1, <2>2
<1> DEFINE rest == Tail(fills)
<1>2. rest \in Seq(FillRecord) /\ Len(rest) = 0
  BY <1>1, TailFacts
<1> HIDE DEF rest
<1>3. DOMAIN rest = 1 .. Len(rest)
  BY <1>2, FillsAreFinite
<1>4. rest # <<>> => 1 \in DOMAIN rest
  BY <1>2, TailFacts
<1>5. 1 \notin DOMAIN rest
  BY <1>2, <1>3
<1> QED
  BY <1>4, <1>5 DEF rest

LEMMA GenuineStays ==
    ASSUME Grows, NEW f \in FillRecord, Genuine(f)
    PROVE  Genuine(f)'
<1>1. f.order \in Orders
  BY DEF FillRecord
<1> QED
  BY <1>1 DEF Grows, Genuine

LEMMA OtherTaskOK ==
    ASSUME DataOK, NEW u \in Tasks, TaskOK(u), Grows, Keeps(u),
           InFlight(u) => Quiet(task[u].cur)
    PROVE  TaskOK(u)' /\ (InFlight(u)' <=> InFlight(u))
<1>1. /\ InFlight(u)' <=> InFlight(u)
      /\ Handling(u)' <=> Handling(u)
      /\ At(u, "buy row")' <=> At(u, "buy row")
  BY DEF Keeps, InFlight, Handling, At
<1>2. task[u].fills \in Seq(FillRecord)
  BY FrameFacts
<1>3. ASSUME NEW i \in DOMAIN task[u].fills PROVE Genuine(task[u].fills[i])'
  <2>1. PICK f \in FillRecord : f = task[u].fills[i]
    BY <1>2, FillsAreFinite
  <2>2. Genuine(f)'
    BY <2>1, GenuineStays DEF TaskOK
  <2> QED
    BY <2>1, <2>2 DEF Keeps, Genuine
<1>4. (Handling(u) => FillsOK(u)) => (Handling(u)' => FillsOK(u)')
  BY <1>1 DEF Keeps, FillsOK
<1>5. InFlight(u) => OrderOK(u)'
  BY DEF TaskOK, OrderOK, Quiet, Keeps, Unsubmitted
<1> QED
  BY <1>1, <1>3, <1>4, <1>5 DEF TaskOK, Keeps

LEMMA TasksStep ==
    ASSUME DataOK, TasksInv, Grows, NEW t \in Tasks, Others(t), TaskOK(t)',
           \A u \in Tasks : u # t /\ InFlight(u) => Quiet(task[u].cur),
           \A u \in Tasks : u # t /\ InFlight(u) /\ InFlight(t)' => task'[t].cur # task[u].cur
    PROVE  TasksInv'
<1>1. ASSUME NEW u \in Tasks, u # t
      PROVE  /\ TaskOK(u)' /\ (InFlight(u)' <=> InFlight(u)) /\ task'[u].cur = task[u].cur
  <2>1. TaskOK(u) /\ Keeps(u) /\ (InFlight(u) => Quiet(task[u].cur))
    BY <1>1 DEF TasksInv, Others
  <2> QED
    BY <2>1, OtherTaskOK DEF Keeps
<1>2. ASSUME NEW u \in Tasks, NEW w \in Tasks,
             InFlight(u)', InFlight(w)', task'[u].cur = task'[w].cur
      PROVE  u = w
  <2>1. CASE u # t /\ w # t
    BY <1>1, <1>2, <2>1 DEF TasksInv
  <2>2. CASE u = t
    BY <1>1, <1>2, <2>2
  <2>3. CASE w = t
    BY <1>1, <1>2, <2>3
  <2> QED
    BY <2>1, <2>2, <2>3
<1>3. \A u \in Tasks : TaskOK(u)'
  BY <1>1
<1> QED
  BY <1>2, <1>3 DEF TasksInv

\* A task that goes on with the fills it has, or with all but the first.
LEMMA FillsMove ==
    ASSUME DataOK, NEW t \in Tasks, TaskOK(t), Handling(t), Grows,
           task'[t].fills = task[t].fills \/ task'[t].fills = Tail(task[t].fills),
           task'[t].cur = task[t].cur, task'[t].direct = task[t].direct,
           Handling(t)' <=> task'[t].fills # <<>>, ~InFlight(t)',
           task'[t].sell.live => task'[t].at = "buy row"
    PROVE  TaskOK(t)'
<1>1. /\ task[t].fills \in Seq(FillRecord) /\ task[t].fills # <<>>
      /\ FillsOK(t) /\ \A i \in DOMAIN task[t].fills : Genuine(task[t].fills[i])
  BY FrameFacts DEF TaskOK
<1>2. ASSUME NEW i \in DOMAIN task'[t].fills
      PROVE  \E j \in DOMAIN task[t].fills : task'[t].fills[i] = task[t].fills[j]
  <2>1. CASE task'[t].fills = task[t].fills
    BY <2>1
  <2>2. CASE task'[t].fills = Tail(task[t].fills)
    <3>1. i \in DOMAIN Tail(task[t].fills)
      BY <2>2
    <3>2. Tail(task[t].fills)[i] = task[t].fills[i + 1] /\ i + 1 \in DOMAIN task[t].fills
      BY <1>1, <3>1, TailFacts
    <3> QED
      BY <2>2, <3>2
  <2> QED
    BY <2>1, <2>2
<1>3. ASSUME NEW i \in DOMAIN task'[t].fills PROVE Genuine(task[t].fills[i])'
  <2>1. PICK j \in DOMAIN task[t].fills : task'[t].fills[i] = task[t].fills[j]
    BY <1>2
  <2>2. PICK f \in FillRecord : f = task[t].fills[j]
    BY <1>1, FillsAreFinite
  <2>3. Genuine(f)'
    BY <1>1, <2>2, GenuineStays
  <2> QED
    BY <2>1, <2>2, <2>3 DEF Genuine
<1>4. Handling(t)' => FillsOK(t)'
  <2>1. CASE task[t].direct
    <3>1. Len(task[t].fills) = 1 /\ Head(task[t].fills).order = task[t].cur
      BY <1>1, <2>1 DEF FillsOK
    <3>2. task'[t].fills = Tail(task[t].fills) => task'[t].fills = <<>>
      BY <1>1, <3>1, TailOfOne
    <3> QED
      BY <2>1, <3>1, <3>2 DEF FillsOK
  <2>2. CASE ~task[t].direct
    BY <1>1, <1>2, <2>2 DEF FillsOK
  <2> QED
    BY <2>1, <2>2
<1> QED
  BY <1>3, <1>4 DEF TaskOK, At

\* Between the fill row and the position rows: the fill is tracked or skipped.
LEMMA InsertedFacts ==
    ASSUME IInv, DataOK, TasksInv, NEW t \in Tasks, Handling(t), Inserted(t)
    PROVE  /\ IInv' /\ task' \in [Tasks -> Frame] /\ Others(t)
           /\ \/ /\ SkipsTracker(t) /\ UNCHANGED vars
                 /\ task'[t] = NextFill(t) /\ task'[t].fills = Tail(task[t].fills)
                 /\ task'[t].at = IF Tail(task[t].fills) = <<>> THEN "strategies" ELSE "fill row"
                 /\ ~task'[t].sell.live \/ At(t, "buy row")
              \/ /\ ~SkipsTracker(t)
                 /\ TrackedFill(Head(task[t].fills)) /\ TrackedTask(t, Head(task[t].fills))
           /\ task'[t].cur = task[t].cur /\ task'[t].direct = task[t].direct
<1>1. /\ task[t].fills # <<>> /\ TaskOK(t)
      /\ \A u \in Tasks : task[u].fills # <<>> => sent[Head(task[u].fills).order] # NoSignal
      /\ \A u \in Tasks : task[u].sell.live => task[u].fills # <<>>
  <2>1. \A u \in Tasks : TaskOK(u)
    BY DEF TasksInv
  <2>2. ASSUME NEW u \in Tasks, task[u].fills # <<>> PROVE sent[Head(task[u].fills).order] # NoSignal
    <3>1. 1 \in DOMAIN task[u].fills /\ Head(task[u].fills) = task[u].fills[1]
      BY <2>2, FrameFacts, TailFacts
    <3> QED
      BY <2>1, <3>1 DEF TaskOK, Genuine
  <2>3. ASSUME NEW u \in Tasks, task[u].sell.live PROVE task[u].fills # <<>>
    BY <2>1, <2>3 DEF TaskOK, At, Handling
  <2> QED
    BY <2>1, <2>2, <2>3 DEF TaskOK
<1>2. CASE SkipsTracker(t)
  <2>1. Goto(t, NextFill(t)) /\ UNCHANGED vars
    BY <1>2 DEF Inserted
  <2>2. task' \in [Tasks -> Frame] /\ task'[t] = NextFill(t) /\ Others(t)
    BY <1>1, <2>1, NextFillFacts, GotoFacts, GotoKeeps
  <2>3. IInv'
    BY <2>1, TrackerStutters
  <2> QED
    BY <1>1, <1>2, <2>1, <2>2, <2>3, NextFillFacts DEF TaskOK
<1>3. CASE ~SkipsTracker(t)
  <2>1. Track(t, Head(task[t].fills))
    BY <1>3 DEF Inserted
  <2>2. /\ IInv' /\ TrackedFill(Head(task[t].fills)) /\ TrackedTask(t, Head(task[t].fills))
        /\ task' \in [Tasks -> Frame] /\ Others(t)
    BY <1>1, <2>1, TrackFacts
  <2> QED
    BY <1>3, <2>2 DEF TrackedTask
<1> QED
  BY <1>2, <1>3

LEMMA InsertedTaskOK ==
    ASSUME IInv, DataOK, TasksInv, NEW t \in Tasks,
           At(t, "fill row") \/ At(t, "order status"), Inserted(t), Grows
    PROVE  TaskOK(t)' /\ ~InFlight(t)'
<1>1. Handling(t) /\ TaskOK(t) /\ ~At(t, "buy row")
  BY DEF At, Handling, TasksInv
<1>2. task[t].fills # <<>> /\ task[t].fills \in Seq(FillRecord)
  BY <1>1, FrameFacts DEF TaskOK
<1>3. CASE SkipsTracker(t)
  <2>1. /\ task'[t].fills = Tail(task[t].fills) /\ task'[t].cur = task[t].cur
        /\ task'[t].at = IF Tail(task[t].fills) = <<>> THEN "strategies" ELSE "fill row"
        /\ ~task'[t].sell.live /\ task'[t].direct = task[t].direct
    BY <1>1, <1>3, InsertedFacts
  <2>2. (Handling(t)' <=> task'[t].fills # <<>>) /\ ~InFlight(t)'
    BY <2>1 DEF Handling, InFlight
  <2> QED
    BY <1>1, <2>1, <2>2, FillsMove
<1>4. CASE ~SkipsTracker(t)
  <2>1. TrackedTask(t, Head(task[t].fills))
    BY <1>1, <1>4, InsertedFacts
  <2>2. /\ task'[t].at = "buy row" /\ task'[t].fills = task[t].fills
        /\ task'[t].cur = task[t].cur /\ task'[t].direct = task[t].direct
    BY <2>1 DEF TrackedTask
  <2>3. Handling(t)' /\ ~InFlight(t)'
    BY <2>2 DEF Handling, InFlight
  <2> QED
    BY <1>1, <1>2, <2>2, <2>3, FillsMove
<1> QED
  BY <1>3, <1>4

-----------------------------------------------------------------------------
(* Every action keeps the invariant *)

LEMMA BlankStep ==
    ASSUME BlankInv,
           \A o \in Orders : sent'[o] = NoSignal =>
              sent[o] = NoSignal /\ Quiet(o) /\ forgot'[o] = forgot[o]
    PROVE  BlankInv'
BY DEF BlankInv, Quiet, Unsubmitted

LEMMA TickedFacts ==
    ASSUME DataOK, NEW t \in Tasks, NEW fills \in Seq(FillRecord), Ticked(t, fills)
    PROVE  /\ task' \in [Tasks -> Frame] /\ Others(t)
           /\ \A u \in Tasks : u # t => task'[u] = task[u]
           /\ task'[t].fills = fills /\ ~task'[t].direct /\ task'[t].cur = 0
           /\ task'[t].at = IF fills = <<>> THEN "strategies" ELSE "fill row"
           /\ ~task'[t].sell.live
<1> DEFINE at == IF fills = <<>> THEN "strategies" ELSE "fill row"
           new == [Idle EXCEPT !.fills = fills, !.at = at]
<1>1. at \in Steps
  BY DEF Steps
<1>2. new \in Frame
  BY <1>1, IdleIsFrame
<1>3. Goto(t, new)
  BY DEF Ticked
<1>4. /\ new.fills = fills /\ ~new.direct /\ new.cur = 0 /\ new.at = at /\ ~new.sell.live
  BY DEF Idle, NoObject
<1> HIDE DEF new
<1>5. task' \in [Tasks -> Frame] /\ task'[t] = new /\ Others(t)
      /\ \A u \in Tasks : u # t => task'[u] = task[u]
  BY <1>2, <1>3, GotoFacts, GotoKeeps
<1> QED
  BY <1>4, <1>5

LEMMA TickedTasks ==
    ASSUME DataOK, TasksInv, NEW t \in Tasks, NEW fills \in Seq(FillRecord), Ticked(t, fills), Grows,
           \A i \in DOMAIN fills : Genuine(fills[i])' /\ fills[i].kind # "taker",
           \A u \in Tasks : InFlight(u) => Quiet(task[u].cur)
    PROVE  TasksInv'
<1>1. /\ Others(t) /\ task'[t].fills = fills /\ ~task'[t].direct /\ ~task'[t].sell.live
      /\ task'[t].at = IF fills = <<>> THEN "strategies" ELSE "fill row"
  BY TickedFacts
<1>2. (Handling(t)' <=> task'[t].fills # <<>>) /\ ~InFlight(t)'
  BY <1>1 DEF Handling, InFlight
<1>3. TaskOK(t)'
  BY <1>1, <1>2 DEF TaskOK, FillsOK, Genuine
<1> QED
  BY <1>1, <1>2, <1>3, TasksStep

LEMMA QuietUnlessSim ==
    ASSUME UNCHANGED <<sent, row>>, NEW o, order'[o] = order[o], filled'[o] = filled[o],
           took'[o] = took[o]
    PROVE  Quiet(o)
BY DEF Quiet

LEMMA TradePrintKeeps ==
    ASSUME RunnerInv, NEW t \in Tasks, NEW a \in Assets, NEW price \in Prices,
           NEW size \in PrintSizes, TradePrint(t, a, price, size)
    PROVE  RunnerInv'
<1>1. IInv /\ SimInv /\ DataOK /\ BlankInv /\ TasksInv
  BY DEF RunnerInv
<1>2. /\ Sim!TradePrint(a, price, size)
      /\ UNCHANGED <<vars, dbVars, placed, took, sent, history, restarts, rowHistory>>
  BY DEF TradePrint
<1>3. PICK fills : Printed(fills) /\ Ticked(t, fills)
  BY <1>1, PrintGives
<1>4. /\ SimInv' /\ order' = order /\ missed' = missed
      /\ \A o \in Orders : /\ filled'[o] \in Nat /\ filled'[o] >= filled[o] /\ filled[o] \in Nat
                           /\ filled'[o] > filled[o] => order[o] \in Sim!Order
  BY <1>1, <1>2, SimTradePrint DEF SimInv, Sim!MakerTypeOK
<1>5. fills \in Seq(FillRecord) /\ task' \in [Tasks -> Frame]
  BY <1>1, <1>3, TickedFacts DEF Printed
<1>6. IInv' /\ DataOK'
  BY <1>1, <1>2, <1>5, TrackerStutters DEF DataOK, dbVars, history
<1>7. ASSUME NEW o \in Orders, order[o] = Sim!NoOrder PROVE Quiet(o)
  <2>1. filled'[o] = filled[o]
    BY <1>4, <1>7, OrderIsNotNoOrder
  <2> QED
    BY <1>2, <1>4, <2>1, QuietUnlessSim DEF dbVars
<1>8. BlankInv'
  <2>1. ASSUME NEW o \in Orders, sent'[o] = NoSignal
        PROVE  sent[o] = NoSignal /\ Quiet(o) /\ forgot'[o] = forgot[o]
    BY <1>1, <1>2, <1>7, <2>1 DEF BlankInv, Unsubmitted, history
  <2> QED
    BY <1>1, <2>1, BlankStep
<1>9. Grows
  BY <1>2, <1>4 DEF Grows
<1>10. ASSUME NEW i \in DOMAIN fills PROVE Genuine(fills[i])' /\ fills[i].kind # "taker"
  <2>1. /\ fills[i].kind = "maker" /\ fills[i].size > 0
        /\ filled'[fills[i].order] > filled[fills[i].order]
        /\ order[fills[i].order] # Sim!NoOrder
    BY <1>3 DEF Printed
  <2>2. fills[i].order \in Orders
    BY <1>5, FillsAreFinite DEF FillRecord
  <2>3. sent[fills[i].order] # NoSignal /\ filled'[fills[i].order] > 0
    BY <1>1, <1>4, <2>1, <2>2 DEF BlankInv, Unsubmitted
  <2> QED
    BY <1>2, <2>1, <2>3 DEF Genuine
<1>11. \A u \in Tasks : InFlight(u) => Quiet(task[u].cur)
  BY <1>1, <1>7 DEF TasksInv, TaskOK, OrderOK, Unsubmitted
<1>12. TasksInv'
  BY <1>1, <1>3, <1>5, <1>9, <1>10, <1>11, TickedTasks
<1> QED
  BY <1>4, <1>6, <1>8, <1>12 DEF RunnerInv

LEMMA BookMovedKeeps ==
    ASSUME RunnerInv, NEW t \in Tasks, NEW a \in Assets, NEW away \in SUBSET resting,
           BookMoved(t, a, away)
    PROVE  RunnerInv'
<1>1. IInv /\ SimInv /\ DataOK /\ BlankInv /\ TasksInv
  BY DEF RunnerInv
<1>2. /\ Sim!BookMoved(away)
      /\ UNCHANGED <<vars, dbVars, placed, took, sent, history, restarts, rowHistory>>
  BY DEF BookMoved
<1>3. PICK fills : Marked(fills) /\ Ticked(t, fills)
  BY <1>1, MoveGives
<1>4. SimInv' /\ order' = order /\ filled' = filled /\ missed' = missed \cup away
  BY <1>1, <1>2, SimBookMoved
<1>5. fills \in Seq(FillRecord) /\ task' \in [Tasks -> Frame]
  BY <1>1, <1>3, TickedFacts DEF Marked
<1>6. IInv' /\ DataOK'
  BY <1>1, <1>2, <1>5, TrackerStutters DEF DataOK, dbVars, history
<1>7. ASSUME NEW o \in Orders PROVE Quiet(o)
  BY <1>2, <1>4, QuietUnlessSim DEF dbVars
<1>8. BlankInv'
  BY <1>1, <1>2, <1>7, BlankStep DEF history
<1>9. Grows
  BY <1>2, <1>4 DEF Grows
<1>10. ASSUME NEW i \in DOMAIN fills PROVE Genuine(fills[i])' /\ fills[i].kind # "taker"
  <2>1. /\ fills[i].kind = "missed" /\ fills[i].size = 0 /\ fills[i].order \in missed'
        /\ order[fills[i].order] # Sim!NoOrder
    BY <1>3 DEF Marked
  <2>2. fills[i].order \in Orders
    BY <1>5, FillsAreFinite DEF FillRecord
  <2>3. sent[fills[i].order] # NoSignal
    BY <1>1, <2>1, <2>2 DEF BlankInv, Unsubmitted
  <2> QED
    BY <1>2, <2>1, <2>3 DEF Genuine
<1>11. \A u \in Tasks : InFlight(u) => Quiet(task[u].cur)
  BY <1>1, <1>7 DEF TasksInv, TaskOK, OrderOK
<1>12. TasksInv'
  BY <1>1, <1>3, <1>5, <1>9, <1>10, <1>11, TickedTasks
<1> QED
  BY <1>4, <1>6, <1>8, <1>12 DEF RunnerInv

LEMMA OtherEventKeeps ==
    ASSUME RunnerInv, NEW t \in Tasks, OtherEvent(t)
    PROVE  RunnerInv'
<1>1. IInv /\ SimInv /\ DataOK /\ BlankInv /\ TasksInv
  BY DEF RunnerInv
<1>2. Ticked(t, <<>>) /\ UNCHANGED <<vars, simVars, dbVars, sent, history, restarts, rowHistory>>
  BY DEF OtherEvent
<1>3. <<>> \in Seq(FillRecord) /\ DOMAIN <<>> = {}
  BY EmptyList
<1>4. task' \in [Tasks -> Frame]
  BY <1>1, <1>2, <1>3, TickedFacts
<1>5. IInv' /\ SimInv' /\ DataOK'
  BY <1>1, <1>2, <1>4, TrackerStutters, SimStutters DEF DataOK, dbVars, history, SimSteady
<1>6. ASSUME NEW o \in Orders PROVE Quiet(o)
  BY <1>2, QuietUnlessSim DEF dbVars, simVars
<1>7. BlankInv' /\ Grows
  BY <1>1, <1>2, <1>6, BlankStep DEF history, Grows, simVars
<1>8. \A u \in Tasks : InFlight(u) => Quiet(task[u].cur)
  BY <1>1, <1>6 DEF TasksInv, TaskOK, OrderOK
<1>9. TasksInv'
  BY <1>1, <1>2, <1>3, <1>7, <1>8, TickedTasks
<1> QED
  BY <1>5, <1>7, <1>9 DEF RunnerInv

\* A step that only moves one task on, without a fill in its hands.
LEMMA QuietStep ==
    ASSUME RunnerInv, NEW t \in Tasks, NEW new \in Frame, Goto(t, new), new.fills = <<>>,
           new.at \in {"idle", "strategies"}
              \/ (InFlight(t) /\ new.at \in {"order row", "refresh"} /\ new.cur = task[t].cur
                  /\ (task[t].at = "refresh" => new.at = "refresh")),
           ~new.sell.live,
           UNCHANGED <<vars, simVars, dbVars, sent, history, restarts, rowHistory>>
    PROVE  RunnerInv'
<1>1. IInv /\ SimInv /\ DataOK /\ BlankInv /\ TasksInv
  BY DEF RunnerInv
<1>2. /\ task' \in [Tasks -> Frame] /\ task'[t] = new /\ Others(t)
  BY <1>1, GotoFacts, GotoKeeps
<1>3. IInv' /\ SimInv' /\ DataOK'
  BY <1>1, <1>2, TrackerStutters, SimStutters DEF DataOK, dbVars, history, SimSteady
<1>4. ASSUME NEW o \in Orders PROVE Quiet(o)
  BY QuietUnlessSim DEF dbVars, simVars
<1>5. BlankInv' /\ Grows
  BY <1>1, <1>4, BlankStep DEF history, Grows, simVars
<1>6. \A u \in Tasks : InFlight(u) => Quiet(task[u].cur)
  BY <1>1, <1>4 DEF TasksInv, TaskOK, OrderOK
<1>7. ~Handling(t)' /\ DOMAIN <<>> = {}
  <2>1. DOMAIN <<>> = {}
    BY EmptyList
  <2>2. ~Handling(t)'
    BY <1>2 DEF Handling
  <2> QED
    BY <2>1, <2>2
<1>8. CASE new.at \in {"idle", "strategies"}
  <2>1. ~InFlight(t)'
    BY <1>2, <1>8 DEF InFlight
  <2>2. TaskOK(t)'
    BY <1>2, <1>7, <2>1 DEF TaskOK
  <2>3. TasksInv'
    BY <1>1, <1>2, <1>5, <1>6, <2>1, <2>2, TasksStep
  <2> QED
    BY <1>3, <1>5, <2>3 DEF RunnerInv
<1>9. CASE /\ InFlight(t) /\ new.at \in {"order row", "refresh"} /\ new.cur = task[t].cur
           /\ task[t].at = "refresh" => new.at = "refresh"
  <2>1. OrderOK(t)'
    <3>1. OrderOK(t) /\ Quiet(task[t].cur)
      BY <1>1, <1>6, <1>9 DEF TasksInv, TaskOK
    <3> QED
      BY <1>2, <1>9, <3>1 DEF OrderOK, Quiet, Unsubmitted
  <2>2. TaskOK(t)'
    BY <1>2, <1>7, <2>1 DEF TaskOK
  <2>3. \A u \in Tasks : u # t /\ InFlight(u) => task'[t].cur # task[u].cur
    BY <1>1, <1>2, <1>9 DEF TasksInv
  <2>4. TasksInv'
    BY <1>1, <1>2, <1>5, <1>6, <2>2, <2>3, TasksStep
  <2> QED
    BY <1>3, <1>5, <2>4 DEF RunnerInv
<1> QED
  BY <1>8, <1>9

\* A task without a fill in its hands keeps no Position object.
LEMMA EmptyHands ==
    ASSUME RunnerInv, NEW t \in Tasks, ~Handling(t)
    PROVE  /\ task[t].fills = <<>> /\ ~task[t].sell.live /\ task[t] \in Frame
           /\ \A at \in Steps : /\ [task[t] EXCEPT !.at = at] \in Frame
                                /\ [task[t] EXCEPT !.at = at].at = at
                                /\ [task[t] EXCEPT !.at = at].cur = task[t].cur
                                /\ [task[t] EXCEPT !.at = at].fills = <<>>
                                /\ ~[task[t] EXCEPT !.at = at].sell.live
<1>1. task[t] \in Frame /\ task[t].fills = <<>>
  BY FrameFacts DEF RunnerInv, TasksInv, TaskOK
<1>2. ~task[t].sell.live
  BY DEF RunnerInv, TasksInv, TaskOK, At, Handling
<1> QED
  BY <1>1, <1>2 DEF Frame

LEMMA DispatchedKeeps ==
    ASSUME RunnerInv, NEW t \in Tasks, Dispatched(t)
    PROVE  RunnerInv'
<1>1. Idle \in Frame /\ Idle.fills = <<>> /\ Idle.at = "idle" /\ ~Idle.sell.live
  BY IdleIsFrame DEF Idle, NoObject
<1>2. Goto(t, Idle) /\ UNCHANGED <<vars, simVars, dbVars, sent, history, restarts, rowHistory>>
  BY DEF Dispatched
<1> QED
  BY <1>1, <1>2, QuietStep

LEMMA SignalRowKeeps ==
    ASSUME RunnerInv, NEW t \in Tasks, SignalRow(t)
    PROVE  RunnerInv'
<1>1. InFlight(t) /\ ~Handling(t) /\ task[t].at # "refresh"
  BY DEF SignalRow, At, InFlight, Handling
<1>2. UNCHANGED <<vars, simVars, dbVars, sent, history, restarts, rowHistory>>
  BY DEF SignalRow
<1>3. PICK at \in {"strategies", "order row"} : Goto(t, [task[t] EXCEPT !.at = at])
  BY DEF SignalRow
<1>4. at \in Steps
  BY DEF Steps
<1> DEFINE new == [task[t] EXCEPT !.at = at]
<1>5. /\ new \in Frame /\ new.at = at /\ new.cur = task[t].cur /\ new.fills = <<>>
      /\ ~new.sell.live /\ Goto(t, new)
  BY <1>1, <1>3, <1>4, EmptyHands
<1> HIDE DEF new
<1> QED
  BY <1>1, <1>2, <1>5, QuietStep

LEMMA EmitKeeps ==
    ASSUME RunnerInv, NEW t \in Tasks, NEW o \in Orders, NEW sig \in Signal, Emit(t, o, sig)
    PROVE  RunnerInv'
<1>1. IInv /\ SimInv /\ DataOK /\ BlankInv /\ TasksInv
  BY DEF RunnerInv
<1>2. /\ At(t, "strategies") /\ sent[o] = NoSignal /\ sent' = [sent EXCEPT ![o] = sig]
      /\ UNCHANGED <<vars, simVars, dbVars, history, restarts, rowHistory>>
  BY DEF Emit
<1>3. PICK i \in Nat : Goto(t, [task[t] EXCEPT !.at = "signal row", !.turn = i, !.cur = o])
  <2>1. task[t].turn \in Nat /\ Len(Runners) \in Nat
    BY <1>1, FrameFacts, RunnerAssumption DEF Frame
  <2>2. PICK i \in task[t].turn .. Len(Runners) :
           Goto(t, [task[t] EXCEPT !.at = "signal row", !.turn = i, !.cur = o])
    BY DEF Emit
  <2>3. i \in Nat
    BY <2>1
  <2> QED
    BY <2>2, <2>3
<1>4. ~Handling(t) /\ task[t].fills = <<>> /\ ~task[t].sell.live /\ task[t] \in Frame
  <2>1. ~Handling(t)
    BY <1>2 DEF At, Handling
  <2> QED
    BY <2>1, EmptyHands
<1> DEFINE new == [task[t] EXCEPT !.at = "signal row", !.turn = i, !.cur = o]
<1>5. /\ new \in Frame /\ new.at = "signal row" /\ new.cur = o /\ new.fills = <<>>
      /\ ~new.sell.live
  BY <1>4 DEF Frame, Steps
<1>6. Goto(t, new)
  BY <1>3
<1> HIDE DEF new
<1>7. task' \in [Tasks -> Frame] /\ task'[t] = new /\ Others(t)
  BY <1>1, <1>5, <1>6, GotoFacts, GotoKeeps
<1>8. /\ sent' \in [Orders -> Signal \cup {NoSignal}] /\ sent'[o] = sig /\ sig # NoSignal
      /\ \A p \in Orders : p # o => sent'[p] = sent[p]
  BY <1>1, <1>2, NoSignalIsNoSignal DEF DataOK
<1>9. IInv' /\ SimInv' /\ DataOK'
  BY <1>1, <1>2, <1>7, <1>8, TrackerStutters, SimStutters DEF DataOK, dbVars, history, SimSteady
<1>10. ASSUME NEW p \in Orders, p # o PROVE Quiet(p)
  BY <1>2, <1>8, <1>10 DEF dbVars, simVars, Quiet
<1>11. BlankInv'
  <2>1. ASSUME NEW p \in Orders, sent'[p] = NoSignal
        PROVE  sent[p] = NoSignal /\ Quiet(p) /\ forgot'[p] = forgot[p]
    BY <1>2, <1>8, <1>10, <2>1 DEF history
  <2> QED
    BY <1>1, <2>1, BlankStep
<1>12. Grows
  BY <1>2, <1>8 DEF Grows, simVars
<1>13. \A u \in Tasks : InFlight(u) => task[u].cur # o /\ Quiet(task[u].cur)
  BY <1>1, <1>2, <1>10 DEF TasksInv, TaskOK, OrderOK
<1>14. OrderOK(t)'
  <2>1. Unsubmitted(o) /\ row[o] = NoRow
    BY <1>1, <1>2 DEF BlankInv
  <2>2. Unsubmitted(o)' /\ row'[o] = NoRow
    BY <1>2, <2>1 DEF Unsubmitted, simVars, dbVars
  <2>3. task'[t].cur = o /\ task'[t].at = "signal row"
    BY <1>5, <1>7
  <2>4. row'[o].status \in {"none", "open"}
    BY <2>2 DEF NoRow
  <2> QED
    BY <1>8, <2>2, <2>3, <2>4 DEF OrderOK, Unsubmitted
<1>15. TaskOK(t)'
  <2>1. ~Handling(t)' /\ DOMAIN <<>> = {}
    <3>1. DOMAIN <<>> = {}
      BY EmptyList
    <3>2. ~Handling(t)'
      BY <1>5, <1>7 DEF Handling
    <3> QED
      BY <3>1, <3>2
  <2> QED
    BY <1>5, <1>7, <1>14, <2>1 DEF TaskOK
<1>16. TasksInv'
  BY <1>1, <1>5, <1>7, <1>12, <1>13, <1>15, TasksStep
<1> QED
  BY <1>9, <1>11, <1>16 DEF RunnerInv

\* What submit does to the simulator and to the task.
Submitted(t, o) ==
    /\ \A p \in Orders : p # o => /\ order'[p] = order[p] /\ filled'[p] = filled[p]
                                  /\ took'[p] = took[p]
    /\ filled' = filled /\ missed' = missed
    /\ \/ /\ took'[o] > 0 /\ order' = order
          /\ \E f \in FillRecord :
                /\ f.order = o /\ f.kind = "taker" /\ f.size = took'[o]
                /\ task'[t].fills = <<f>> /\ task'[t].direct
                /\ task'[t].at = "fill row"
       \/ /\ took' = took
          /\ task'[t].fills = <<>> /\ task'[t].at = "strategies"
    /\ task'[t].cur = o /\ ~task'[t].sell.live

LEMMA SubmitFacts ==
    ASSUME SimInv, DataOK, NEW t \in Tasks, NEW o \in Orders, task[t].cur = o,
           sent[o] # NoSignal, filled[o] = 0, took[o] = 0, task[t].fills = <<>>,
           ~task[t].sell.live, Submit(t, o)
    PROVE  SimInv' /\ task' \in [Tasks -> Frame] /\ Others(t) /\ Submitted(t, o)
<1>1. task[t] \in Frame /\ <<>> \in Seq(FillRecord)
  BY FrameFacts, EmptyList
<1>2. /\ sent[o].asset \in Assets /\ sent[o].side \in Sides
      /\ sent[o].limit \in Prices \cup {NoPrice} /\ sent[o].size \in Sizes
      /\ sent[o].size \in Nat \ {0}
  BY SignalFacts
<1> DEFINE quit == [task[t] EXCEPT !.at = "strategies"]
<1>3. /\ quit \in Frame /\ quit.at = "strategies" /\ quit.cur = o /\ quit.fills = <<>>
      /\ ~quit.sell.live
  BY <1>1 DEF Frame, Steps
<1>4. CASE Take(t, o)
  <2>1. PICK size \in 1 .. sent[o].size, price \in Prices :
           /\ took' = [took EXCEPT ![o] = size]
           /\ Goto(t, [task[t] EXCEPT !.at = "fill row", !.direct = TRUE,
                                      !.fills = <<Fill(o, size, price, "taker")>>])
    BY <1>4 DEF Take
  <2>2. size \in Nat /\ size > 0
    BY <1>2
  <2> DEFINE f == Fill(o, size, price, "taker")
             new == [task[t] EXCEPT !.at = "fill row", !.direct = TRUE, !.fills = <<f>>]
  <2>3. f \in FillRecord /\ f.order = o /\ f.kind = "taker" /\ f.size = size
    BY <2>2 DEF Fill, FillRecord
  <2> HIDE DEF f
  <2>4. <<f>> \in Seq(FillRecord)
    BY <2>3
  <2>5. /\ new \in Frame /\ new.at = "fill row" /\ new.direct /\ new.fills = <<f>>
        /\ new.cur = o /\ ~new.sell.live
    BY <1>1, <2>4 DEF Frame, Steps
  <2>6. Goto(t, new)
    BY <2>1 DEF f
  <2> HIDE DEF new
  <2>7. task' \in [Tasks -> Frame] /\ task'[t] = new /\ Others(t)
    BY <2>5, <2>6, GotoFacts, GotoKeeps
  <2>8. UNCHANGED <<order, resting, q_ahead, filled, missed, queue0, printed, placed>>
    BY <1>4 DEF Take
  <2>9. SimInv' /\ took'[o] = size /\ \A p \in Orders : p # o => took'[p] = took[p]
    BY <2>1, <2>2, <2>8, SimTake
  <2> QED
    BY <2>2, <2>3, <2>5, <2>7, <2>8, <2>9 DEF Submitted
<1>5. CASE FindNothing(t, o)
  <2>1. Goto(t, quit) /\ UNCHANGED simVars
    BY <1>5 DEF FindNothing
  <2> HIDE DEF quit
  <2>2. task' \in [Tasks -> Frame] /\ task'[t] = quit /\ Others(t)
    BY <1>3, <2>1, GotoFacts, GotoKeeps
  <2>3. SimInv'
    BY <2>1, SimStutters DEF SimSteady
  <2> QED
    BY <1>3, <2>1, <2>2, <2>3 DEF Submitted, simVars
<1>6. CASE Rest(t, o)
  <2>1. PICK depth \in Queues :
           Sim!Register(o, [asset |-> sent[o].asset, side |-> sent[o].side,
                            price |-> sent[o].limit, size |-> sent[o].size], depth)
    BY <1>6 DEF Rest
  <2> DEFINE ord == [asset |-> sent[o].asset, side |-> sent[o].side,
                     price |-> sent[o].limit, size |-> sent[o].size]
  <2>2. ord \in Sim!Order /\ depth \in Nat
    BY <1>2, <1>6, RunnerAssumption DEF Rest, Sim!Order, Sim!Sides, Sides
  <2>3. Sim!Register(o, ord, depth) /\ placed' = Append(placed, o) /\ took' = took /\ Goto(t, quit)
    BY <1>6, <2>1 DEF Rest
  <2> HIDE DEF ord, quit
  <2>4. /\ SimInv' /\ filled' = filled /\ missed' = missed
        /\ \A p \in Orders : p # o => order'[p] = order[p]
    BY <2>2, <2>3, SimRest
  <2>5. task' \in [Tasks -> Frame] /\ task'[t] = quit /\ Others(t)
    BY <1>3, <2>3, GotoFacts, GotoKeeps
  <2> QED
    BY <1>3, <2>3, <2>4, <2>5 DEF Submitted
<1> QED
  BY <1>4, <1>5, <1>6 DEF Submit

\* The order row of o is in, or it is not.
RowOpened(o) == row' = row \/ row' = [row EXCEPT ![o].status = "open"]

LEMMA RowOpenedFacts ==
    ASSUME DataOK, NEW o \in Orders, RowOpened(o)
    PROVE  /\ row' \in [Orders -> RowRecord]
           /\ \A p \in Orders : p # o => row'[p] = row[p]
           /\ row'[o].done = row[o].done
           /\ row'[o].status = row[o].status \/ row'[o].status = "open"
<1>1. row \in [Orders -> RowRecord]
  BY DEF DataOK
<1>2. CASE row' = row
  BY <1>1, <1>2
<1>3. CASE row' = [row EXCEPT ![o].status = "open"]
  <2> DEFINE new == [row[o] EXCEPT !.status = "open"]
  <2>1. new \in RowRecord /\ new.done = row[o].done /\ new.status = "open"
    BY <1>1 DEF RowRecord
  <2>2. row' = [row EXCEPT ![o] = new]
    BY <1>3
  <2> HIDE DEF new
  <2> QED
    BY <1>1, <2>1, <2>2
<1> QED
  BY <1>2, <1>3 DEF RowOpened

LEMMA InFlightFacts ==
    ASSUME RunnerInv, NEW t \in Tasks, InFlight(t)
    PROVE  /\ task[t].cur \in Orders /\ sent[task[t].cur] # NoSignal
           /\ Unsubmitted(task[t].cur) /\ OrderOK(t) /\ ~Handling(t)
           /\ task[t].fills = <<>> /\ ~task[t].sell.live
<1>1. ~Handling(t)
  BY DEF InFlight, Handling
<1> QED
  BY <1>1, EmptyHands DEF RunnerInv, TasksInv, TaskOK, OrderOK

LEMMA SubmitKeeps ==
    ASSUME RunnerInv, NEW t \in Tasks, NEW o, o = task[t].cur, InFlight(t),
           Submit(t, o), RowOpened(o),
           UNCHANGED <<vars, mirror, sent, history, restarts>>
    PROVE  RunnerInv'
<1>1. IInv /\ SimInv /\ DataOK /\ BlankInv /\ TasksInv
  BY DEF RunnerInv
<1>2. /\ o \in Orders /\ sent[o] # NoSignal /\ filled[o] = 0 /\ took[o] = 0
      /\ task[t].fills = <<>> /\ ~task[t].sell.live
  BY InFlightFacts DEF Unsubmitted
<1>3. SimInv' /\ task' \in [Tasks -> Frame] /\ Others(t) /\ Submitted(t, o)
  BY <1>1, <1>2, SubmitFacts
<1>4. row' \in [Orders -> RowRecord] /\ \A p \in Orders : p # o => row'[p] = row[p]
  BY <1>1, <1>2, RowOpenedFacts
<1>5. IInv' /\ DataOK'
  BY <1>1, <1>3, <1>4, TrackerStutters DEF DataOK, history
<1>6. ASSUME NEW p \in Orders, p # o PROVE Quiet(p)
  BY <1>3, <1>4, <1>6 DEF Submitted, Quiet
<1>7. BlankInv'
  <2>1. ASSUME NEW p \in Orders, sent'[p] = NoSignal
        PROVE  sent[p] = NoSignal /\ Quiet(p) /\ forgot'[p] = forgot[p]
    BY <1>2, <1>6, <2>1 DEF history
  <2> QED
    BY <1>1, <2>1, BlankStep
<1>8. Grows
  BY <1>2, <1>3 DEF Grows, Submitted
<1>9. \A u \in Tasks : u # t /\ InFlight(u) => Quiet(task[u].cur)
  BY <1>1, <1>6 DEF TasksInv, TaskOK, OrderOK
<1>10. TaskOK(t)' /\ ~InFlight(t)'
  <2>1. task'[t].cur = o /\ ~task'[t].sell.live
    BY <1>3 DEF Submitted
  <2>2. CASE task'[t].fills = <<>> /\ task'[t].at = "strategies"
    BY <2>1, <2>2, EmptyList DEF TaskOK, Handling, InFlight
  <2>3. CASE \E f \in FillRecord :
                /\ f.order = o /\ f.kind = "taker" /\ f.size = took'[o] /\ took'[o] > 0
                /\ task'[t].fills = <<f>> /\ task'[t].direct
                /\ task'[t].at = "fill row"
    <3>1. PICK f \in FillRecord :
                /\ f.order = o /\ f.kind = "taker" /\ f.size = took'[o] /\ took'[o] > 0
                /\ task'[t].fills = <<f>> /\ task'[t].direct
                /\ task'[t].at = "fill row"
      BY <2>3
    <3>2. /\ Len(<<f>>) = 1 /\ Head(<<f>>) = f /\ DOMAIN <<f>> = {1} /\ <<f>>[1] = f
          /\ <<f>> # <<>>
      OBVIOUS
    <3>3. Genuine(f)'
      BY <1>2, <3>1 DEF Genuine
    <3>4. FillsOK(t)'
      BY <2>1, <3>1, <3>2 DEF FillsOK
    <3>5. \A i \in DOMAIN task'[t].fills : Genuine(task[t].fills[i])'
      BY <3>1, <3>2, <3>3 DEF Genuine
    <3>6. Handling(t)' /\ ~InFlight(t)'
      BY <3>1 DEF Handling, InFlight
    <3> QED
      BY <2>1, <3>1, <3>2, <3>4, <3>5, <3>6 DEF TaskOK
  <2> QED
    BY <1>3, <2>2, <2>3 DEF Submitted
<1>11. TasksInv'
  BY <1>1, <1>3, <1>8, <1>9, <1>10, TasksStep
<1> QED
  BY <1>3, <1>5, <1>7, <1>11 DEF RunnerInv

LEMMA RefreshedKeeps ==
    ASSUME RunnerInv, NEW t \in Tasks, Refreshed(t)
    PROVE  RunnerInv'
<1>1. InFlight(t) /\ RowOpened(task[t].cur)
  BY DEF Refreshed, At, InFlight, RowOpened, dbVars
<1>2. PICK o : o = task[t].cur
  OBVIOUS
<1>3. Submit(t, o) /\ UNCHANGED <<vars, mirror, sent, history, restarts>>
  BY <1>2 DEF Refreshed, dbVars, RunnerInv, DataOK
<1> QED
  BY <1>1, <1>2, <1>3, SubmitKeeps

LEMMA RowWritten ==
    ASSUME RunnerInv, NEW t \in Tasks, OrderRow(t)
    PROVE  RowOpened(task[t].cur)
BY RunnerAssumption DEF OrderRow, RowOpened, RunnerInv, DataOK

LEMMA OrderRowKeeps ==
    ASSUME RunnerInv, NEW t \in Tasks, OrderRow(t)
    PROVE  RunnerInv'
<1>1. InFlight(t) /\ task[t].at = "order row"
  BY DEF OrderRow, At, InFlight
<1>2. RowOpened(task[t].cur)
  BY RowWritten
<1>3. PICK o : o = task[t].cur
  OBVIOUS
<1>4. UNCHANGED <<vars, mirror, sent, history, restarts>>
  BY DEF OrderRow
<1>5. CASE Submit(t, o)
  BY <1>1, <1>2, <1>3, <1>4, <1>5, SubmitKeeps
<1>6. CASE Goto(t, [task[t] EXCEPT !.at = "refresh"]) /\ UNCHANGED simVars
  <2>1. IInv /\ SimInv /\ DataOK /\ BlankInv /\ TasksInv
    BY DEF RunnerInv
  <2>2. /\ o \in Orders /\ sent[o] # NoSignal /\ Unsubmitted(o) /\ OrderOK(t) /\ ~Handling(t)
    BY <1>1, <1>3, InFlightFacts
  <2> DEFINE new == [task[t] EXCEPT !.at = "refresh"]
  <2>3. /\ new \in Frame /\ new.at = "refresh" /\ new.cur = o /\ new.fills = <<>>
        /\ ~new.sell.live
    BY <1>3, <2>2, EmptyHands DEF Steps
  <2>4. Goto(t, new)
    BY <1>6
  <2> HIDE DEF new
  <2>5. task' \in [Tasks -> Frame] /\ task'[t] = new /\ Others(t)
    BY <2>1, <2>3, <2>4, GotoFacts, GotoKeeps
  <2>6. /\ row' \in [Orders -> RowRecord] /\ \A p \in Orders : p # o => row'[p] = row[p]
        /\ row'[o].done = row[o].done
        /\ row'[o].status = row[o].status \/ row'[o].status = "open"
    BY <1>2, <1>3, <2>1, <2>2, RowOpenedFacts
  <2>7. IInv' /\ SimInv' /\ DataOK'
    BY <1>2, <1>4, <1>6, <2>1, <2>5, <2>6, TrackerStutters, SimStutters
       DEF DataOK, history, SimSteady
  <2>8. ASSUME NEW p \in Orders, p # o PROVE Quiet(p)
    BY <1>4, <1>6, <2>6, <2>8 DEF Quiet, simVars
  <2>9. BlankInv'
    <3>1. ASSUME NEW p \in Orders, sent'[p] = NoSignal
          PROVE  sent[p] = NoSignal /\ Quiet(p) /\ forgot'[p] = forgot[p]
      BY <1>4, <2>2, <2>8, <3>1 DEF history
    <3> QED
      BY <2>1, <3>1, BlankStep
  <2>10. Grows
    BY <1>4, <1>6 DEF Grows, simVars
  <2>11. \A u \in Tasks : u # t /\ InFlight(u) => Quiet(task[u].cur) /\ task[u].cur # o
    BY <1>1, <1>3, <2>1, <2>8 DEF TasksInv, TaskOK, OrderOK
  <2>12. OrderOK(t)'
    <3>1. Unsubmitted(o)'
      BY <1>6, <2>2, <2>6 DEF Unsubmitted, simVars
    <3>2. row[o].status \in {"none", "open"}
      BY <1>3, <2>2 DEF OrderOK
    <3> QED
      BY <1>4, <2>2, <2>3, <2>5, <2>6, <3>1, <3>2 DEF OrderOK, Unsubmitted
  <2>13. TaskOK(t)'
    BY <2>3, <2>5, <2>12, EmptyList DEF TaskOK, Handling
  <2>14. TasksInv'
    BY <2>1, <2>3, <2>5, <2>10, <2>11, <2>13, TasksStep
  <2> QED
    BY <2>7, <2>9, <2>14 DEF RunnerInv
<1> QED
  BY <1>3, <1>5, <1>6 DEF OrderRow

-----------------------------------------------------------------------------
(* The steps that handle a fill *)

\* The first fill in the hands of a task.
LEMMA HeadFacts ==
    ASSUME RunnerInv, NEW t \in Tasks, Handling(t)
    PROVE  LET f == Head(task[t].fills) IN
           /\ f \in FillRecord /\ f.order \in Orders /\ f.size \in Nat /\ f.price \in Prices
           /\ Genuine(f) /\ sent[f.order] # NoSignal /\ ~Unsubmitted(f.order)
           /\ task[t].fills # <<>> /\ task[t].fills \in Seq(FillRecord) /\ TaskOK(t)
           /\ f = task[t].fills[1] /\ 1 \in DOMAIN task[t].fills
<1> DEFINE f == Head(task[t].fills)
<1>1. TaskOK(t) /\ DataOK /\ SimInv
  BY DEF RunnerInv, TasksInv
<1>2. task[t].fills # <<>> /\ task[t].fills \in Seq(FillRecord)
  BY <1>1, FrameFacts DEF TaskOK
<1>3. f = task[t].fills[1] /\ 1 \in DOMAIN task[t].fills
  BY <1>2, TailFacts
<1>4. f \in FillRecord /\ f.order \in Orders /\ f.size \in Nat /\ f.price \in Prices
  BY <1>1, <1>2, FrameFacts
<1>5. Genuine(f)
  BY <1>1, <1>3 DEF TaskOK
<1>6. ~Unsubmitted(f.order)
  <2>1. f.kind \in {"taker", "maker", "missed"}
    BY <1>4 DEF FillRecord
  <2>2. CASE f.kind = "missed"
    BY <1>1, <1>4, <1>5, <2>2 DEF Genuine, SimInv, Sim!MakerTypeOK, Unsubmitted
  <2>3. CASE f.kind # "missed"
    BY <1>5, <2>1, <2>3 DEF Genuine, Unsubmitted
  <2> QED
    BY <2>2, <2>3
<1> QED
  BY <1>1, <1>2, <1>3, <1>4, <1>5, <1>6 DEF Genuine

\* A step on the rows of an order that has been submitted.
LEMMA RowOnlyQuiet ==
    ASSUME RunnerInv, NEW o \in Orders, ~Unsubmitted(o), sent[o] # NoSignal,
           \A p \in Orders : p # o => row'[p] = row[p],
           UNCHANGED <<simVars, sent, forgot>>
    PROVE  /\ SimInv' /\ BlankInv' /\ Grows
           /\ \A u \in Tasks : InFlight(u) => Quiet(task[u].cur)
<1>1. SimInv /\ BlankInv /\ TasksInv
  BY DEF RunnerInv
<1>2. SimInv'
  BY <1>1, SimStutters DEF SimSteady
<1>3. \A p \in Orders : p # o => Quiet(p)
  BY DEF Quiet, simVars
<1>4. BlankInv'
  <2>1. ASSUME NEW p \in Orders, sent'[p] = NoSignal
        PROVE  sent[p] = NoSignal /\ Quiet(p) /\ forgot'[p] = forgot[p]
    BY <1>3, <2>1
  <2> QED
    BY <1>1, <2>1, BlankStep
<1>5. Grows
  BY DEF Grows, simVars
<1>6. \A u \in Tasks : InFlight(u) => Quiet(task[u].cur)
  BY <1>1, <1>3 DEF TasksInv, TaskOK, OrderOK
<1> QED
  BY <1>2, <1>4, <1>5, <1>6

LEMMA ToOrderStatus ==
    ASSUME RunnerInv, NEW t \in Tasks, At(t, "fill row"),
           Goto(t, [task[t] EXCEPT !.at = "order status"]), Grows
    PROVE  /\ task' \in [Tasks -> Frame] /\ Others(t) /\ TaskOK(t)' /\ ~InFlight(t)'
           /\ task'[t].at = "order status" /\ task'[t].fills = task[t].fills
           /\ task'[t].cur = task[t].cur /\ task'[t].direct = task[t].direct
           /\ task'[t].write = task[t].write /\ ~task'[t].sell.live
           /\ \A u \in Tasks : u # t => task'[u] = task[u]
<1>1. DataOK /\ TaskOK(t) /\ Handling(t) /\ ~At(t, "buy row")
  BY DEF RunnerInv, TasksInv, At, Handling
<1>2. task[t] \in Frame /\ task[t].fills # <<>> /\ ~task[t].sell.live
  BY <1>1, FrameFacts DEF TaskOK
<1> DEFINE new == [task[t] EXCEPT !.at = "order status"]
<1>3. /\ new \in Frame /\ new.at = "order status" /\ new.fills = task[t].fills
      /\ new.cur = task[t].cur /\ new.direct = task[t].direct /\ new.sell = task[t].sell
      /\ new.write = task[t].write
  BY <1>2 DEF Frame, Steps
<1>4. Goto(t, new)
  OBVIOUS
<1> HIDE DEF new
<1>5. task' \in [Tasks -> Frame] /\ task'[t] = new /\ Others(t)
      /\ \A u \in Tasks : u # t => task'[u] = task[u]
  BY <1>1, <1>3, <1>4, GotoFacts, GotoKeeps
<1>6. Handling(t)' /\ ~InFlight(t)'
  BY <1>3, <1>5 DEF Handling, InFlight
<1>7. TaskOK(t)'
  BY <1>1, <1>2, <1>3, <1>5, <1>6, FillsMove
<1> QED
  BY <1>2, <1>3, <1>5, <1>6, <1>7

\* What the first statement of insert_fill does, and what its failure costs.
FillLost(f) ==
    /\ unwritten' = [unwritten EXCEPT ![f.order] = @ + f.size]
    /\ stale' = IF f.kind = "missed" THEN stale \cup {f.order} ELSE stale

FillWritten(t) ==
    LET f == Head(task[t].fills) IN
    /\ row[f.order].status # "none"
    /\ row'[f.order].done = row[f.order].done + f.size
    /\ row'[f.order].status = row[f.order].status

LEMMA FillRowFacts ==
    ASSUME RunnerInv, NEW t \in Tasks, FillRow(t)
    PROVE  LET f == Head(task[t].fills) IN
           /\ Handling(t)
           /\ row' \in [Orders -> RowRecord]
           /\ \A p \in Orders : p # f.order => row'[p] = row[p]
           /\ \/ /\ FillWritten(t) /\ UNCHANGED <<vars, rowHistory>>
                 /\ Goto(t, [task[t] EXCEPT !.at = "order status"])
              \/ row' = row /\ Inserted(t) /\ FillLost(f)
<1> DEFINE f == Head(task[t].fills)
           o == f.order
<1>1. Handling(t)
  BY DEF FillRow, At, Handling
<1>2. o \in Orders /\ f.size \in Nat
  BY <1>1, HeadFacts
<1>3. row \in [Orders -> RowRecord]
  BY DEF RunnerInv, DataOK
<1>4. PICK ok \in DbOutcomes :
          IF ok /\ row[o].status # "none"
          THEN /\ row' = [row EXCEPT ![o].done = @ + f.size]
               /\ Goto(t, [task[t] EXCEPT !.at = "order status"])
               /\ UNCHANGED <<vars, rowHistory>>
          ELSE UNCHANGED row /\ Inserted(t) /\ FillLost(f)
  BY DEF FillRow, FillLost
<1>5. ok \in BOOLEAN
  BY <1>4, RunnerAssumption
<1>6. CASE ok /\ row[o].status # "none"
  <2> DEFINE new == [row[o] EXCEPT !.done = @ + f.size]
  <2>1. new \in RowRecord /\ new.done = row[o].done + f.size /\ new.status = row[o].status
    BY <1>2, <1>3 DEF RowRecord
  <2>2. row' = [row EXCEPT ![o] = new]
    BY <1>4, <1>6
  <2> HIDE DEF new
  <2>3. /\ row' \in [Orders -> RowRecord] /\ row'[o] = new
        /\ \A p \in Orders : p # o => row'[p] = row[p]
    BY <1>2, <1>3, <2>1, <2>2
  <2> QED
    BY <1>1, <1>4, <1>5, <1>6, <2>1, <2>3 DEF FillWritten
<1>7. CASE ~(ok /\ row[o].status # "none")
  <2>1. row' = row /\ Inserted(t) /\ FillLost(f)
    BY <1>4, <1>7
  <2> QED
    BY <1>1, <1>3, <2>1
<1> QED
  BY <1>6, <1>7

LEMMA FillRowKeeps ==
    ASSUME RunnerInv, NEW t \in Tasks, FillRow(t)
    PROVE  RunnerInv'
<1> DEFINE o == Head(task[t].fills).order
<1>1. IInv /\ SimInv /\ DataOK /\ BlankInv /\ TasksInv
  BY DEF RunnerInv
<1>2. UNCHANGED <<simVars, mirror, sent, history, restarts>> /\ At(t, "fill row")
  BY DEF FillRow
<1>3. /\ Handling(t) /\ row' \in [Orders -> RowRecord]
      /\ \A p \in Orders : p # o => row'[p] = row[p]
      /\ \/ UNCHANGED vars /\ Goto(t, [task[t] EXCEPT !.at = "order status"])
         \/ Inserted(t)
  BY FillRowFacts
<1>4. o \in Orders /\ ~Unsubmitted(o) /\ sent[o] # NoSignal
  BY <1>3, HeadFacts
<1>5. /\ SimInv' /\ BlankInv' /\ Grows
      /\ \A u \in Tasks : InFlight(u) => Quiet(task[u].cur)
  BY <1>2, <1>3, <1>4, RowOnlyQuiet DEF history
<1>6. /\ task' \in [Tasks -> Frame] /\ Others(t) /\ TaskOK(t)' /\ ~InFlight(t)' /\ IInv'
  <2>1. CASE UNCHANGED vars /\ Goto(t, [task[t] EXCEPT !.at = "order status"])
    BY <1>1, <1>2, <1>5, <2>1, ToOrderStatus, TrackerStutters
  <2>2. CASE Inserted(t)
    BY <1>1, <1>2, <1>3, <1>5, <2>2, InsertedFacts, InsertedTaskOK
  <2> QED
    BY <1>3, <2>1, <2>2
<1>7. DataOK'
  BY <1>1, <1>2, <1>3, <1>6 DEF DataOK, history
<1>8. TasksInv'
  BY <1>1, <1>5, <1>6, TasksStep
<1> QED
  BY <1>5, <1>6, <1>7, <1>8 DEF RunnerInv

LEMMA NewStatusFacts ==
    ASSUME RunnerInv, NEW f \in FillRecord
    PROVE  NewStatus(f) \in {"none", "open", "partially_filled", "filled", "cancelled"}
<1>1. row[f.order] \in RowRecord
  BY DEF RunnerInv, DataOK, FillRecord
<1> QED
  BY <1>1 DEF NewStatus, StatusOf, RowRecord

LEMMA OrderStatusFacts ==
    ASSUME RunnerInv, NEW t \in Tasks, OrderStatus(t)
    PROVE  LET f == Head(task[t].fills) IN
           /\ Handling(t) /\ Inserted(t) /\ unwritten' = unwritten
           /\ row' \in [Orders -> RowRecord]
           /\ \A p \in Orders : p # f.order => row'[p] = row[p]
           /\ row'[f.order].done = row[f.order].done
           /\ \/ /\ row'[f.order].status = NewStatus(f)
                 /\ stale' = IF f.kind = "missed" THEN stale ELSE stale \ {f.order}
              \/ row' = row /\ stale' = stale \cup {f.order}
<1> DEFINE f == Head(task[t].fills)
           o == f.order
<1>1. Handling(t)
  BY DEF OrderStatus, At, Handling
<1>2. o \in Orders /\ f \in FillRecord
  BY <1>1, HeadFacts
<1>3. row \in [Orders -> RowRecord]
  BY DEF RunnerInv, DataOK
<1>4. PICK ok \in DbOutcomes :
          IF ok
          THEN /\ row' = [row EXCEPT ![o].status = NewStatus(f)]
               /\ stale' = IF f.kind = "missed" THEN stale ELSE stale \ {f.order}
          ELSE UNCHANGED row /\ stale' = stale \cup {f.order}
  BY DEF OrderStatus
<1>5. ok \in BOOLEAN /\ Inserted(t) /\ unwritten' = unwritten
  BY <1>4, RunnerAssumption DEF OrderStatus
<1>6. CASE ok
  <2> DEFINE status == NewStatus(f)
             new == [row[o] EXCEPT !.status = status]
  <2>1. status \in {"none", "open", "partially_filled", "filled", "cancelled"}
    BY <1>2, NewStatusFacts
  <2>2. row' = [row EXCEPT ![o] = new]
    BY <1>4, <1>6
  <2> HIDE DEF status
  <2>3. new \in RowRecord /\ new.done = row[o].done /\ new.status = status
    BY <1>2, <1>3, <2>1 DEF RowRecord
  <2> HIDE DEF new
  <2>4. /\ row' \in [Orders -> RowRecord] /\ row'[o] = new
        /\ \A p \in Orders : p # o => row'[p] = row[p]
    BY <1>2, <1>3, <2>2, <2>3
  <2> QED
    BY <1>1, <1>4, <1>5, <1>6, <2>3, <2>4 DEF status
<1>7. CASE ~ok
  BY <1>1, <1>3, <1>4, <1>5, <1>7
<1> QED
  BY <1>5, <1>6, <1>7

LEMMA OrderStatusKeeps ==
    ASSUME RunnerInv, NEW t \in Tasks, OrderStatus(t)
    PROVE  RunnerInv'
<1> DEFINE o == Head(task[t].fills).order
<1>1. IInv /\ SimInv /\ DataOK /\ BlankInv /\ TasksInv
  BY DEF RunnerInv
<1>2. UNCHANGED <<simVars, mirror, sent, history, restarts>> /\ At(t, "order status")
  BY DEF OrderStatus
<1>3. /\ Handling(t) /\ row' \in [Orders -> RowRecord]
      /\ \A p \in Orders : p # o => row'[p] = row[p]
      /\ Inserted(t)
  BY OrderStatusFacts
<1>4. o \in Orders /\ ~Unsubmitted(o) /\ sent[o] # NoSignal
  BY <1>3, HeadFacts
<1>5. /\ SimInv' /\ BlankInv' /\ Grows
      /\ \A u \in Tasks : InFlight(u) => Quiet(task[u].cur)
  BY <1>2, <1>3, <1>4, RowOnlyQuiet DEF history
<1>6. /\ task' \in [Tasks -> Frame] /\ Others(t) /\ TaskOK(t)' /\ ~InFlight(t)' /\ IInv'
  BY <1>1, <1>2, <1>3, <1>5, InsertedFacts, InsertedTaskOK
<1>7. DataOK'
  BY <1>1, <1>2, <1>3, <1>6 DEF DataOK, history
<1>8. TasksInv'
  BY <1>1, <1>5, <1>6, TasksStep
<1> QED
  BY <1>5, <1>6, <1>7, <1>8 DEF RunnerInv

\* A position row is written with the size issued before, or not at all.
LEMMA PositionRowFacts ==
    ASSUME RunnerInv, NEW t \in Tasks, Handling(t), NEW side \in Sides, PositionRow(t, side)
    PROVE  LET k == KeyOf(Head(task[t].fills).order, side) IN
           /\ k \in Keys
           /\ mirror' \in [Keys -> Nat]
           /\ \A j \in Keys : j # k => mirror'[j] = mirror[j]
<1> DEFINE k == KeyOf(Head(task[t].fills).order, side)
<1>1. mirror \in [Keys -> Nat] /\ task[t].write \in Nat /\ DataOK
  BY FrameFacts DEF RunnerInv, DataOK, Frame
<1>2. k \in Keys
  BY <1>1, HeadFacts, SignalFacts
<1> DEFINE w == task[t].write
<1>3. PICK ok \in DbOutcomes :
        mirror' = IF ok THEN [mirror EXCEPT ![k] = w] ELSE mirror
  BY DEF PositionRow
<1>4. ok \in BOOLEAN
  BY <1>3, RunnerAssumption
<1>5. w \in Nat
  BY <1>1
<1>6. mirror' \in [Keys -> Nat] /\ \A j \in Keys : j # k => mirror'[j] = mirror[j]
  <2> HIDE DEF k, w
  <2>1. CASE ok
    BY <1>1, <1>2, <1>3, <1>5, <2>1
  <2>2. CASE ~ok
    BY <1>1, <1>2, <1>3, <1>5, <2>2
  <2> QED
    BY <2>1, <2>2
<1> QED
  BY <1>2, <1>6

LEMMA SideIs == "buy" \in Sides /\ "sell" \in Sides
BY DEF Sides

\* The task of a position row goes on to the next row, or the next fill.
LEMMA BuyRowFacts ==
    ASSUME RunnerInv, NEW t \in Tasks, BuyRow(t)
    PROVE  /\ Handling(t) /\ task' \in [Tasks -> Frame] /\ Others(t)
           /\ task'[t].at = "sell row" /\ task'[t].fills = task[t].fills
           /\ task'[t].cur = task[t].cur /\ task'[t].direct = task[t].direct
           /\ task'[t].write = task[t].sell.size /\ ~task'[t].sell.live
           /\ \A u \in Tasks : u # t => task'[u] = task[u]
<1>1. Handling(t) /\ DataOK
  BY DEF BuyRow, At, Handling, RunnerInv
<1>2. task[t] \in Frame
  BY <1>1, FrameFacts
<1> DEFINE new == [task[t] EXCEPT !.at = "sell row", !.write = task[t].sell.size, !.sell = NoObject]
<1>3. Goto(t, new)
  BY DEF BuyRow
<1>4. /\ new \in Frame /\ new.at = "sell row" /\ new.fills = task[t].fills
      /\ new.cur = task[t].cur /\ new.direct = task[t].direct
      /\ new.write = task[t].sell.size /\ ~new.sell.live
  BY <1>2 DEF Frame, Steps, NoObject
<1> HIDE DEF new
<1>5. task' \in [Tasks -> Frame] /\ task'[t] = new /\ Others(t)
      /\ \A u \in Tasks : u # t => task'[u] = task[u]
  BY <1>1, <1>3, <1>4, GotoFacts, GotoKeeps
<1> QED
  BY <1>1, <1>4, <1>5

LEMMA SellRowFacts ==
    ASSUME RunnerInv, NEW t \in Tasks, SellRow(t)
    PROVE  /\ Handling(t) /\ task' \in [Tasks -> Frame] /\ Others(t)
           /\ task'[t].fills = Tail(task[t].fills)
           /\ task'[t].at = IF Tail(task[t].fills) = <<>> THEN "strategies" ELSE "fill row"
           /\ task'[t].cur = task[t].cur /\ task'[t].direct = task[t].direct
           /\ ~task'[t].sell.live
           /\ \A u \in Tasks : u # t => task'[u] = task[u]
<1>1. Handling(t) /\ DataOK /\ ~At(t, "buy row") /\ TaskOK(t)
  BY DEF SellRow, At, Handling, RunnerInv, TasksInv
<1>2. task[t].fills # <<>> /\ ~task[t].sell.live
  BY <1>1 DEF TaskOK
<1>3. /\ NextFill(t) \in Frame
      /\ NextFill(t).fills = Tail(task[t].fills)
      /\ NextFill(t).at = IF Tail(task[t].fills) = <<>> THEN "strategies" ELSE "fill row"
      /\ NextFill(t).cur = task[t].cur /\ NextFill(t).direct = task[t].direct
      /\ NextFill(t).sell = task[t].sell
  BY <1>1, <1>2, NextFillFacts
<1> DEFINE next == NextFill(t)
           new == [next EXCEPT !.write = 0]
<1>4. Goto(t, new)
  BY DEF SellRow
<1>5. /\ new \in Frame /\ new.fills = next.fills /\ new.at = next.at /\ new.cur = next.cur
      /\ new.direct = next.direct /\ new.sell = next.sell
  <2> HIDE DEF next
  <2>1. next \in Frame
    BY <1>3 DEF next
  <2> QED
    BY <2>1 DEF Frame
<1> HIDE DEF new
<1>6. task' \in [Tasks -> Frame] /\ task'[t] = new /\ Others(t)
      /\ \A u \in Tasks : u # t => task'[u] = task[u]
  BY <1>1, <1>4, <1>5, GotoFacts, GotoKeeps
<1> QED
  BY <1>1, <1>2, <1>3, <1>5, <1>6

LEMMA PositionRowsKeep ==
    ASSUME RunnerInv, NEW t \in Tasks, BuyRow(t) \/ SellRow(t)
    PROVE  RunnerInv'
<1>1. IInv /\ SimInv /\ DataOK /\ BlankInv /\ TasksInv
  BY DEF RunnerInv
<1>2. UNCHANGED <<vars, simVars, row, sent, history, restarts>>
  BY DEF BuyRow, SellRow
<1>3. /\ Handling(t) /\ task' \in [Tasks -> Frame] /\ Others(t)
      /\ task'[t].fills = task[t].fills \/ task'[t].fills = Tail(task[t].fills)
      /\ task'[t].cur = task[t].cur /\ task'[t].direct = task[t].direct
      /\ (Handling(t)' <=> task'[t].fills # <<>>) /\ ~InFlight(t)'
      /\ ~task'[t].sell.live
  <2>1. CASE BuyRow(t)
    <3>1. /\ Handling(t) /\ task' \in [Tasks -> Frame] /\ Others(t)
          /\ task'[t].at = "sell row" /\ task'[t].fills = task[t].fills
          /\ task'[t].cur = task[t].cur /\ task'[t].direct = task[t].direct
          /\ ~task'[t].sell.live
      BY <2>1, BuyRowFacts
    <3>2. task[t].fills # <<>>
      BY <3>1, HeadFacts
    <3>3. Handling(t)' /\ ~InFlight(t)'
      BY <3>1 DEF Handling, InFlight
    <3> QED
      BY <3>1, <3>2, <3>3
  <2>2. CASE SellRow(t)
    <3>1. /\ Handling(t) /\ task' \in [Tasks -> Frame] /\ Others(t)
          /\ task'[t].fills = Tail(task[t].fills)
          /\ task'[t].at = IF Tail(task[t].fills) = <<>> THEN "strategies" ELSE "fill row"
          /\ task'[t].cur = task[t].cur /\ task'[t].direct = task[t].direct
          /\ ~task'[t].sell.live
      BY <2>2, SellRowFacts
    <3>2. (Handling(t)' <=> task'[t].fills # <<>>) /\ ~InFlight(t)'
      BY <3>1 DEF Handling, InFlight
    <3> QED
      BY <3>1, <3>2
  <2> QED
    BY <2>1, <2>2
<1>4. mirror' \in [Keys -> Nat]
  <2>1. PositionRow(t, "buy") \/ PositionRow(t, "sell")
    BY DEF BuyRow, SellRow
  <2> QED
    BY <1>3, <2>1, SideIs, PositionRowFacts
<1>5. IInv' /\ SimInv' /\ DataOK'
  BY <1>1, <1>2, <1>3, <1>4, TrackerStutters, SimStutters DEF DataOK, history, SimSteady
<1>6. ASSUME NEW o \in Orders PROVE Quiet(o)
  BY <1>2, QuietUnlessSim DEF simVars
<1>7. BlankInv' /\ Grows
  BY <1>1, <1>2, <1>6, BlankStep DEF history, Grows, simVars
<1>8. \A u \in Tasks : InFlight(u) => Quiet(task[u].cur)
  BY <1>1, <1>6 DEF TasksInv, TaskOK, OrderOK
<1>9. TaskOK(t)'
  BY <1>1, <1>3, <1>7, FillsMove DEF TasksInv
<1>10. TasksInv'
  BY <1>1, <1>3, <1>7, <1>8, <1>9, TasksStep
<1> QED
  BY <1>5, <1>7, <1>10 DEF RunnerInv

-----------------------------------------------------------------------------
(* Resolution and restart *)

LEMMA MarketResolvedFacts ==
    ASSUME RunnerInv, NEW t \in Tasks, NEW m \in Markets, NEW winner \in Winners(m),
           MarketResolved(t, m, winner)
    PROVE  /\ IInv' /\ task' \in [Tasks -> Frame]
           /\ \A u \in Tasks : Keeps(u)
           /\ settled' \in [Sleeves -> [Assets -> Int]]
           /\ \A s \in Sleeves, a \in Assets :
                 NetOf(s, a)' + settled'[s][a] = NetOf(s, a) + settled[s][a]
<1>1. IInv /\ DataOK /\ RedeemMarket(m, winner)
  BY DEF RunnerInv, MarketResolved
<1>2. IInv'
  BY <1>1, RedeemInvariant
<1>3. settled' = [s \in Sleeves |-> [a \in Assets |->
                    IF MarketOf[a] = m THEN settled[s][a] + NetOf(s, a) ELSE settled[s][a]]]
  BY DEF MarketResolved
<1>4. \A s \in Sleeves, a \in Assets : NetOf(s, a) \in Int /\ settled[s][a] \in Int
  BY <1>1, NetIsInt DEF DataOK
<1>5. settled' \in [Sleeves -> [Assets -> Int]]
  BY <1>3, <1>4
<1>6. ASSUME NEW s \in Sleeves, NEW a \in Assets
      PROVE  NetOf(s, a)' + settled'[s][a] = NetOf(s, a) + settled[s][a]
  <2>1. CASE MarketOf[a] = m
    <3>1. NetOf(s, a)' = 0
      BY <1>1, <2>1, RedemptionOfAccount
    <3>2. settled'[s][a] = settled[s][a] + NetOf(s, a)
      BY <1>3, <2>1
    <3> DEFINE x == NetOf(s, a)
               y == settled[s][a]
    <3>3. x \in Int /\ y \in Int
      BY <1>4
    <3>4. 0 + (y + x) = x + y
      <4> HIDE DEF x, y
      <4> QED
        BY <3>3
    <3> QED
      BY <3>1, <3>2, <3>4
  <2>2. CASE MarketOf[a] # m
    <3>1. NetOf(s, a)' = NetOf(s, a)
      BY <1>1, <2>2, RedemptionElsewhere
    <3> QED
      BY <1>3, <2>2, <3>1
  <2> QED
    BY <2>1, <2>2
<1>7. ASSUME NEW u \in Tasks PROVE task'[u] \in Frame /\ Keeps(u)
  <2>1. task[u] \in Frame
    BY <1>1, FrameFacts
  <2>2. task'[u] = task[u] \/ task'[u] = [task[u] EXCEPT !.sell.live = FALSE]
    BY DEF MarketResolved
  <2>3. CASE task'[u] = [task[u] EXCEPT !.sell.live = FALSE]
    <3> DEFINE held == [task[u].sell EXCEPT !.live = FALSE]
    <3>1. held \in [size : Nat, live : BOOLEAN] /\ ~held.live
      BY <2>1 DEF Frame
    <3>2. task'[u] = [task[u] EXCEPT !.sell = held]
      BY <2>3
    <3> HIDE DEF held
    <3> QED
      BY <2>1, <3>1, <3>2 DEF Frame, Keeps
  <2> QED
    BY <2>1, <2>2, <2>3 DEF Keeps
<1>8. task' \in [Tasks -> Frame]
  <2>1. task' = [u \in Tasks |-> task'[u]]
    BY DEF MarketResolved
  <2> QED
    BY <1>7, <2>1
<1> QED
  BY <1>2, <1>5, <1>6, <1>7, <1>8

LEMMA MarketResolvedKeeps ==
    ASSUME RunnerInv, NEW t \in Tasks, NEW m \in Markets, NEW winner \in Winners(m),
           MarketResolved(t, m, winner)
    PROVE  RunnerInv'
<1>1. IInv /\ SimInv /\ DataOK /\ BlankInv /\ TasksInv
  BY DEF RunnerInv
<1>2. UNCHANGED <<simVars, dbVars, sent, forgot, restarts, rowHistory>>
  BY DEF MarketResolved
<1>3. /\ IInv' /\ task' \in [Tasks -> Frame] /\ \A u \in Tasks : Keeps(u)
      /\ settled' \in [Sleeves -> [Assets -> Int]]
  BY MarketResolvedFacts
<1>4. SimInv' /\ DataOK'
  BY <1>1, <1>2, <1>3, SimStutters DEF DataOK, dbVars, SimSteady
<1>5. ASSUME NEW o \in Orders PROVE Quiet(o)
  BY <1>2, QuietUnlessSim DEF dbVars, simVars
<1>6. BlankInv' /\ Grows
  BY <1>1, <1>2, <1>5, BlankStep DEF Grows, simVars
<1>7. \A u \in Tasks : TaskOK(u)' /\ (InFlight(u)' <=> InFlight(u))
  <2> SUFFICES ASSUME NEW u \in Tasks PROVE TaskOK(u)' /\ (InFlight(u)' <=> InFlight(u))
    OBVIOUS
  <2>1. TaskOK(u) /\ Keeps(u) /\ (InFlight(u) => Quiet(task[u].cur))
    BY <1>1, <1>3, <1>5 DEF TasksInv, TaskOK, OrderOK
  <2> QED
    BY <1>1, <1>6, <2>1, OtherTaskOK
<1>8. TasksInv'
  BY <1>1, <1>3, <1>7 DEF TasksInv, Keeps
<1> QED
  BY <1>3, <1>4, <1>6, <1>8 DEF RunnerInv

LEMMA RestartKeeps == ASSUME RunnerInv, Restart PROVE RunnerInv'
<1>1. IInv /\ SimInv /\ DataOK /\ BlankInv /\ TasksInv
  BY DEF RunnerInv
<1>2. IInv'
  <2>1. positions' = [k \in Keys |-> NoPosition]
    BY DEF Restart
  <2>2. TypeOK'
    <3>1. NoPosition \in Position /\ NoPosition.size = 0
      BY DEF NoPosition, Position
    <3>2. positions' \in [Keys -> Position] /\ \A k \in Keys : positions'[k] = NoPosition
      BY <2>1, <3>1
    <3>3. /\ booked' \in [Sleeves -> [Assets -> Int]] /\ gasPaid' \in [Sleeves -> Nat]
          /\ winnerOf' \in [Markets -> Assets \cup {Unknown, NotResolved}]
      BY <1>1 DEF Restart, IInv, TypeOK
    <3> QED
      BY <3>2, <3>3 DEF TypeOK
  <2>3. OneSided'
    <3>1. \A k \in Keys : ~(positions'[k].size > 0)
      BY <2>1 DEF NoPosition
    <3> QED
      BY <3>1, SideKeys DEF OneSided, Open
  <2>4. EntryWithinPayout'
    BY <2>1, TrackerAssumption DEF NoPosition, EntryWithinPayout
  <2> QED
    BY <2>2, <2>3, <2>4 DEF IInv
<1>3. SimInv'
  BY <1>1, SimRestart DEF Restart
<1>4. \A o \in Orders : filled[o] \in Nat /\ took[o] \in Nat
  BY <1>1 DEF SimInv, Sim!MakerTypeOK
<1>5. DataOK'
  <2>1. task' \in [Tasks -> Frame]
    BY IdleIsFrame DEF Restart
  <2>2. settled' \in [Sleeves -> [Assets -> Int]] /\ forgot' \in [Orders -> Nat]
    BY <1>4 DEF Restart
  <2>3. restarts' \in 0 .. MaxRestarts
    BY <1>1, RunnerAssumption DEF Restart, DataOK
  <2>4. UNCHANGED <<sent, row, mirror>>
    BY DEF Restart, dbVars
  <2> QED
    BY <1>1, <2>1, <2>2, <2>3, <2>4 DEF DataOK
<1>6. BlankInv'
  <2> SUFFICES ASSUME NEW o \in Orders, sent'[o] = NoSignal
               PROVE  Unsubmitted(o)' /\ row'[o] = NoRow /\ forgot'[o] = 0
    BY DEF BlankInv
  <2>1. sent[o] = NoSignal /\ Unsubmitted(o)' /\ row'[o] = NoRow /\ Unsubmitted(o)
    BY <1>1 DEF Restart, dbVars, BlankInv, Unsubmitted
  <2>2. forgot'[o] = 0
    BY <2>1 DEF Restart, Unsubmitted
  <2> QED
    BY <2>1, <2>2
<1>7. TasksInv'
  <2>1. ASSUME NEW t \in Tasks
        PROVE  task'[t].at = "idle" /\ task'[t].fills = <<>> /\ ~task'[t].sell.live
    BY DEF Restart, Idle, NoObject
  <2>2. \A t \in Tasks : ~InFlight(t)' /\ ~Handling(t)'
    BY <2>1 DEF InFlight, Handling
  <2> QED
    BY <2>1, <2>2, EmptyList DEF TasksInv, TaskOK
<1> QED
  BY <1>2, <1>3, <1>5, <1>6, <1>7 DEF RunnerInv

LEMMA RunnerStepInvariant == RunnerInv /\ [RunnerNext]_runnerVars => RunnerInv'
<1> SUFFICES ASSUME RunnerInv, [RunnerNext]_runnerVars PROVE RunnerInv'
  OBVIOUS
<1>1. ASSUME NEW t \in Tasks, Event(t) PROVE RunnerInv'
  BY <1>1, TradePrintKeeps, BookMovedKeeps, OtherEventKeeps, MarketResolvedKeeps DEF Event
<1>2. ASSUME NEW t \in Tasks, Step(t) PROVE RunnerInv'
  BY <1>2, EmitKeeps, DispatchedKeeps, SignalRowKeeps, OrderRowKeeps, RefreshedKeeps,
     FillRowKeeps, OrderStatusKeeps, PositionRowsKeep DEF Step
<1>3. CASE UNCHANGED runnerVars
  <2>1. UNCHANGED <<vars, simVars, dbVars, sent, history, task, restarts, rowHistory>>
    BY <1>3 DEF runnerVars
  <2>2. IInv /\ SimInv /\ DataOK /\ BlankInv /\ TasksInv
    BY DEF RunnerInv
  <2>3. IInv' /\ SimInv' /\ DataOK'
    BY <2>1, <2>2, TrackerStutters, SimStutters DEF DataOK, dbVars, history, SimSteady
  <2>4. ASSUME NEW o \in Orders PROVE Quiet(o)
    BY <2>1, QuietUnlessSim DEF dbVars, simVars
  <2>5. BlankInv' /\ Grows
    BY <2>1, <2>2, <2>4, BlankStep DEF history, Grows, simVars
  <2>6. \A u \in Tasks : TaskOK(u)' /\ (InFlight(u)' <=> InFlight(u))
    <3> SUFFICES ASSUME NEW u \in Tasks PROVE TaskOK(u)' /\ (InFlight(u)' <=> InFlight(u))
      OBVIOUS
    <3>1. TaskOK(u) /\ Keeps(u) /\ (InFlight(u) => Quiet(task[u].cur))
      BY <2>1, <2>2, <2>4 DEF TasksInv, TaskOK, OrderOK, Keeps
    <3> QED
      BY <2>2, <2>5, <3>1, OtherTaskOK
  <2>7. TasksInv'
    BY <2>1, <2>2, <2>6 DEF TasksInv
  <2> QED
    BY <2>3, <2>5, <2>7 DEF RunnerInv
<1> QED
  BY <1>1, <1>2, <1>3, RestartKeeps DEF RunnerNext, RunnerStep

LEMMA RunnerSpecInvariant == RunnerSpec => []RunnerInv
BY RunnerInitInvariant, RunnerStepInvariant, PTL DEF RunnerSpec


-----------------------------------------------------------------------------
(* The fills that the tasks hold, added up *)

\* Of the fills in a frame, those that the tracker, and those that the fill
\* rows have not seen yet.
ToTrack(frame) ==
    IF frame.at = "buy row" \/ frame.at = "sell row" THEN Tail(frame.fills) ELSE frame.fills
ToWrite(frame) ==
    IF frame.at = "fill row" \/ frame.fills = <<>> THEN frame.fills ELSE Tail(frame.fills)

Lists == [Tasks -> Seq(FillRecord)]
Held(F, o) == Sum([t \in Tasks |-> SizeIn(F[t], o)], Tasks)

UntrackedLists == [t \in Tasks |-> ToTrack(task[t])]
UnwrittenLists == [t \in Tasks |-> ToWrite(task[t])]

LEMMA HeldIsNat ==
    ASSUME NEW F \in Lists, NEW o
    PROVE  /\ Held(F, o) \in Nat
           /\ \A t \in Tasks : SizeIn(F[t], o) \in Nat /\ SizeIn(F[t], o) <= Held(F, o)
<1> DEFINE f == [t \in Tasks |-> SizeIn(F[t], o)]
<1>1. ASSUME NEW t \in Tasks PROVE f[t] = SizeIn(F[t], o) /\ f[t] \in Nat
  BY SizeInIsNat DEF Lists
<1>2. IsFiniteSet(Tasks)
  BY RunnerAssumption
<1> HIDE DEF f
<1>3. Sum(f, Tasks) \in Nat /\ \A t \in Tasks : f[t] <= Sum(f, Tasks)
  BY <1>1, <1>2, SumIsNat, SumAtLeast
<1> QED
  BY <1>1, <1>3 DEF Held, f

\* One task's list changes.
LEMMA HeldChange ==
    ASSUME NEW F \in Lists, NEW G \in Lists, NEW t \in Tasks, NEW o,
           \A u \in Tasks : u # t => G[u] = F[u]
    PROVE  Held(G, o) = Held(F, o) + (SizeIn(G[t], o) - SizeIn(F[t], o))
<1> DEFINE f == [u \in Tasks |-> SizeIn(F[u], o)]
           g == [u \in Tasks |-> SizeIn(G[u], o)]
<1>1. ASSUME NEW u \in Tasks
      PROVE  /\ f[u] = SizeIn(F[u], o) /\ f[u] \in Int
             /\ g[u] = SizeIn(G[u], o) /\ g[u] \in Int
  BY SizeInIsNat DEF Lists
<1>2. \A u \in Tasks : u # t => g[u] = f[u]
  OBVIOUS
<1>3. IsFiniteSet(Tasks)
  BY RunnerAssumption
<1> HIDE DEF f, g
<1>4. Sum(g, Tasks) = Sum(f, Tasks) + (g[t] - f[t])
  BY <1>1, <1>2, <1>3, SumChange
<1> QED
  BY <1>1, <1>4 DEF Held, f, g

LEMMA HeldNone ==
    ASSUME NEW F, NEW o, \A t \in Tasks : F[t] = <<>>
    PROVE  Held(F, o) = 0
<1> DEFINE f == [t \in Tasks |-> SizeIn(F[t], o)]
<1>1. \A t \in Tasks : f[t] = 0
  BY SizeInEmpty
<1>2. IsFiniteSet(Tasks)
  BY RunnerAssumption
<1> HIDE DEF f
<1>3. Sum(f, Tasks) = 0
  BY <1>1, <1>2, SumIsZero
<1> QED
  BY <1>3 DEF Held, f

\* What Runner calls pending and unbooked is what the lists hold.
ListsAdded ==
    /\ UntrackedLists \in Lists /\ UnwrittenLists \in Lists
    /\ \A t \in Tasks : UntrackedLists[t] = Untracked(t)
    /\ \A o \in Orders : Pending(o) = Held(UntrackedLists, o)
    /\ \A o \in Orders : Unbooked(o) = Held(UnwrittenLists, o)

LEMMA PendingIsHeld == RunnerInv => ListsAdded
<1> SUFFICES ASSUME RunnerInv PROVE ListsAdded
  OBVIOUS
<1>1. ASSUME NEW t \in Tasks
      PROVE  ToTrack(task[t]) \in Seq(FillRecord) /\ ToWrite(task[t]) \in Seq(FillRecord)
  <2>1. DataOK /\ TaskOK(t)
    BY DEF RunnerInv, TasksInv
  <2>2. task[t].fills \in Seq(FillRecord)
    BY <2>1, FrameFacts
  <2>3. task[t].fills # <<>> => Tail(task[t].fills) \in Seq(FillRecord)
    BY <2>2, TailFacts
  <2>4. At(t, "buy row") \/ At(t, "sell row") => task[t].fills # <<>>
    BY <2>1 DEF TaskOK, Handling, At
  <2> QED
    BY <2>2, <2>3, <2>4 DEF ToTrack, ToWrite, At
<1>2. UntrackedLists \in Lists /\ UnwrittenLists \in Lists
  BY <1>1 DEF UntrackedLists, UnwrittenLists, Lists
<1>3. \A t \in Tasks : UntrackedLists[t] = Untracked(t)
  BY DEF UntrackedLists, ToTrack, Untracked, At
<1>4. ASSUME NEW o \in Orders PROVE Pending(o) = Held(UntrackedLists, o)
  <2> DEFINE f == [t \in Tasks |-> SizeIn(Untracked(t), o)]
             g == [t \in Tasks |-> SizeIn(UntrackedLists[t], o)]
  <2>1. f = g
    BY <1>3
  <2>2. DOMAIN f = Tasks
    OBVIOUS
  <2> HIDE DEF f, g
  <2>3. SumFunction(f) = Sum(g, Tasks)
    BY <2>1, <2>2 DEF SumFunction, Sum
  <2> QED
    BY <2>3 DEF Pending, Held, f, g
<1>5. ASSUME NEW o \in Orders PROVE Unbooked(o) = Held(UnwrittenLists, o)
  <2> DEFINE f == [t \in Tasks |-> SizeIn(Unwritten(t), o)]
             g == [t \in Tasks |-> SizeIn(UnwrittenLists[t], o)]
  <2>1. \A t \in Tasks : UnwrittenLists[t] = Unwritten(t)
    BY DEF UnwrittenLists, ToWrite, Unwritten, At
  <2>2. f = g
    BY <2>1
  <2>3. DOMAIN f = Tasks
    OBVIOUS
  <2> HIDE DEF f, g
  <2>4. SumFunction(f) = Sum(g, Tasks)
    BY <2>2, <2>3 DEF SumFunction, Sum
  <2> QED
    BY <2>4 DEF Unbooked, Held, f, g
<1> QED
  BY <1>2, <1>3, <1>4, <1>5 DEF ListsAdded

LEMMA PendingWillBeHeld == RunnerInv' => ListsAdded'
BY PendingIsHeld, PTL

\* A step of task t changes the sums by what it changes of its own list.
LEMMA ListsOfOthers ==
    ASSUME NEW t \in Tasks, Others(t)
    PROVE  /\ \A u \in Tasks : u # t => UntrackedLists'[u] = UntrackedLists[u]
           /\ \A u \in Tasks : u # t => UnwrittenLists'[u] = UnwrittenLists[u]
           /\ UntrackedLists'[t] = ToTrack(task'[t]) /\ UntrackedLists[t] = ToTrack(task[t])
           /\ UnwrittenLists'[t] = ToWrite(task'[t]) /\ UnwrittenLists[t] = ToWrite(task[t])
BY DEF Others, Keeps, UntrackedLists, UnwrittenLists, ToTrack, ToWrite

LEMMA HeldStep ==
    ASSUME RunnerInv, RunnerInv', NEW t \in Tasks, Others(t), NEW o \in Orders
    PROVE  /\ Pending(o)' = Pending(o) + (SizeIn(ToTrack(task'[t]), o) - SizeIn(ToTrack(task[t]), o))
           /\ Unbooked(o)' = Unbooked(o)
                                + (SizeIn(ToWrite(task'[t]), o) - SizeIn(ToWrite(task[t]), o))
           /\ Pending(o) \in Nat /\ Pending(o)' \in Nat
           /\ Unbooked(o) \in Nat /\ Unbooked(o)' \in Nat
<1> DEFINE F == UntrackedLists
           G == UntrackedLists'
           W == UnwrittenLists
           V == UnwrittenLists'
<1>1. F \in Lists /\ W \in Lists /\ Pending(o) = Held(F, o)
  BY PendingIsHeld DEF ListsAdded
<1>2. G \in Lists /\ V \in Lists /\ Pending(o)' = Held(G, o)
  BY PendingWillBeHeld DEF ListsAdded
<1>3. /\ \A u \in Tasks : u # t => G[u] = F[u]
      /\ \A u \in Tasks : u # t => V[u] = W[u]
      /\ G[t] = ToTrack(task'[t]) /\ F[t] = ToTrack(task[t])
      /\ V[t] = ToWrite(task'[t]) /\ W[t] = ToWrite(task[t])
  BY ListsOfOthers
<1>4. Unbooked(o) = Held(W, o) /\ Unbooked(o)' = Held(V, o)
  BY PendingIsHeld, PendingWillBeHeld DEF ListsAdded
<1> HIDE DEF F, G, W, V
<1>5. /\ Held(G, o) = Held(F, o) + (SizeIn(G[t], o) - SizeIn(F[t], o))
      /\ Held(V, o) = Held(W, o) + (SizeIn(V[t], o) - SizeIn(W[t], o))
  BY <1>1, <1>2, <1>3, HeldChange
<1>6. Held(G, o) \in Nat /\ Held(F, o) \in Nat /\ Held(V, o) \in Nat /\ Held(W, o) \in Nat
  BY <1>1, <1>2, HeldIsNat
<1> QED
  BY <1>1, <1>2, <1>3, <1>4, <1>5, <1>6

LEMMA HeldSame ==
    ASSUME RunnerInv, RunnerInv', \A u \in Tasks : Keeps(u), NEW o \in Orders
    PROVE  Pending(o)' = Pending(o) /\ Unbooked(o)' = Unbooked(o)
           /\ Pending(o) \in Nat /\ Unbooked(o) \in Nat
<1>1. UntrackedLists' = UntrackedLists /\ UnwrittenLists' = UnwrittenLists
  BY DEF Keeps, UntrackedLists, UnwrittenLists, ToTrack, ToWrite
<1>2. Pending(o)' = Held(UntrackedLists', o) /\ Pending(o) = Held(UntrackedLists, o)
  BY PendingIsHeld, PendingWillBeHeld DEF ListsAdded
<1>3. Unbooked(o)' = Held(UnwrittenLists', o) /\ Unbooked(o) = Held(UnwrittenLists, o)
  BY PendingIsHeld, PendingWillBeHeld DEF ListsAdded
<1>4. Held(UntrackedLists, o) \in Nat /\ Held(UnwrittenLists, o) \in Nat
  BY PendingIsHeld, HeldIsNat DEF ListsAdded
<1> QED
  BY <1>1, <1>2, <1>3, <1>4

LEMMA HeldAfterRestart ==
    ASSUME RunnerInv', Restart, NEW o \in Orders
    PROVE  Pending(o)' = 0 /\ Unbooked(o)' = 0
<1>1. ASSUME NEW t \in Tasks PROVE task'[t].fills = <<>> /\ task'[t].at = "idle"
  BY DEF Restart, Idle
<1>2. \A t \in Tasks : UntrackedLists'[t] = <<>> /\ UnwrittenLists'[t] = <<>>
  BY <1>1 DEF UntrackedLists, UnwrittenLists, ToTrack, ToWrite
<1>3. Held(UntrackedLists', o) = 0 /\ Held(UnwrittenLists', o) = 0
  BY <1>2, HeldNone
<1>4. Pending(o)' = Held(UntrackedLists', o) /\ Unbooked(o)' = Held(UnwrittenLists', o)
  BY PendingWillBeHeld DEF ListsAdded
<1> QED
  BY <1>3, <1>4

\* One fill in a list of one.
LEMMA SizeInSingle ==
    ASSUME NEW f \in FillRecord, NEW o
    PROVE  SizeIn(<<f>>, o) = SizeOf(f, o)
<1> DEFINE fills == <<f>>
<1>1. fills \in Seq(FillRecord) /\ fills # <<>> /\ Head(fills) = f /\ Tail(fills) = <<>>
  OBVIOUS
<1> HIDE DEF fills
<1>2. SizeIn(fills, o) = SizeOf(f, o) + SizeIn(<<>>, o)
  BY <1>1, SizeInTail
<1>3. SizeOf(f, o) \in Nat
  BY DEF SizeOf, FillRecord
<1> QED
  BY <1>2, <1>3, SizeInEmpty DEF fills

-----------------------------------------------------------------------------
(* What every action does with the fills *)

\* Of what the simulator has filled of o: what has left the tasks for the
\* tracker, and what has been put to the fill rows.
Out(o) == SimFilled(o) - Pending(o)
Put(o) == SimFilled(o) - Unbooked(o)

LEMMA SimFilledIsNat == RunnerInv => \A o \in Orders : SimFilled(o) \in Nat
BY DEF RunnerInv, SimInv, Sim!MakerTypeOK, SimFilled

LEMMA SimFilledWillBeNat == RunnerInv' => (\A o \in Orders : SimFilled(o) \in Nat)'
BY SimFilledIsNat, PTL

\* Fills reach a task that had none in its hands.
Arrives(t) ==
    /\ Others(t) /\ ~Handling(t) /\ task[t].fills = <<>>
    /\ task'[t].at = "fill row" \/ (task'[t].fills = <<>> /\ ~Handling(t)')
    /\ \A o \in Orders : SimFilled(o)' = SimFilled(o) + SizeIn(task'[t].fills, o)

LEMMA ArrivalFlow ==
    ASSUME RunnerInv, RunnerInv', NEW t \in Tasks, Arrives(t), NEW o \in Orders
    PROVE  Out(o)' = Out(o) /\ Put(o)' = Put(o)
<1>1. ToTrack(task[t]) = <<>> /\ ToWrite(task[t]) = <<>>
  BY DEF Arrives, Handling, ToTrack, ToWrite
<1>2. ToTrack(task'[t]) = task'[t].fills /\ ToWrite(task'[t]) = task'[t].fills
  BY DEF Arrives, Handling, ToTrack, ToWrite
<1> DEFINE n == SizeIn(task'[t].fills, o)
<1>3. task'[t].fills \in Seq(FillRecord)
  BY FrameFacts DEF RunnerInv, DataOK, Frame
<1>4. n \in Nat
  BY <1>3, SizeInIsNat
<1>5. /\ Pending(o)' = Pending(o) + (n - 0) /\ Unbooked(o)' = Unbooked(o) + (n - 0)
      /\ Pending(o) \in Nat /\ Pending(o)' \in Nat
      /\ Unbooked(o) \in Nat /\ Unbooked(o)' \in Nat
  BY <1>1, <1>2, HeldStep, SizeInEmpty DEF Arrives
<1>6. SimFilled(o)' = SimFilled(o) + n /\ SimFilled(o) \in Nat
  BY SimFilledIsNat DEF Arrives
<1> HIDE DEF n
<1> QED
  BY <1>4, <1>5, <1>6 DEF Out, Put

\* The fill at hand leaves one of the lists, or none.
LEMMA ListFlow ==
    ASSUME NEW before \in Seq(FillRecord), NEW fills \in Seq(FillRecord), fills # <<>>,
           NEW after, NEW o,
           before = fills \/ before = Tail(fills),
           after = before \/ (before = fills /\ after = Tail(fills))
    PROVE  /\ SizeIn(before, o) \in Nat /\ SizeIn(after, o) \in Nat
           /\ after = before => SizeIn(before, o) = SizeIn(after, o)
           /\ before = fills /\ after = Tail(fills) =>
                 SizeIn(before, o) = SizeOf(Head(fills), o) + SizeIn(after, o)
<1>1. Tail(fills) \in Seq(FillRecord)
  BY TailFacts
<1>2. SizeIn(fills, o) = SizeOf(Head(fills), o) + SizeIn(Tail(fills), o)
  BY SizeInTail
<1>3. SizeIn(before, o) \in Nat /\ SizeIn(after, o) \in Nat
  BY <1>1, SizeInIsNat
<1> QED
  BY <1>2, <1>3

LEMMA HandlingFlow ==
    ASSUME RunnerInv, RunnerInv', NEW t \in Tasks, Others(t), Handling(t),
           filled' = filled, took' = took, NEW o \in Orders,
           NEW f, f = Head(task[t].fills), NEW rest, rest = Tail(task[t].fills)
    PROVE  /\ ToTrack(task'[t]) = ToTrack(task[t]) => Out(o)' = Out(o)
           /\ ToTrack(task[t]) = task[t].fills /\ ToTrack(task'[t]) = rest =>
                 Out(o)' = Out(o) + SizeOf(f, o)
           /\ ToWrite(task'[t]) = ToWrite(task[t]) => Put(o)' = Put(o)
           /\ ToWrite(task[t]) = task[t].fills /\ ToWrite(task'[t]) = rest =>
                 Put(o)' = Put(o) + SizeOf(f, o)
           /\ SizeOf(f, o) \in Nat
<1>1. /\ task[t].fills \in Seq(FillRecord) /\ task[t].fills # <<>> /\ f \in FillRecord
  BY HeadFacts
<1>2. rest \in Seq(FillRecord)
  BY <1>1, TailFacts
<1>3. ToTrack(task[t]) \in {task[t].fills, rest} /\ ToWrite(task[t]) \in {task[t].fills, rest}
  BY DEF ToTrack, ToWrite
<1>4. /\ Pending(o)' = Pending(o) + (SizeIn(ToTrack(task'[t]), o) - SizeIn(ToTrack(task[t]), o))
      /\ Unbooked(o)' = Unbooked(o)
                           + (SizeIn(ToWrite(task'[t]), o) - SizeIn(ToWrite(task[t]), o))
      /\ Pending(o) \in Nat /\ Pending(o)' \in Nat
      /\ Unbooked(o) \in Nat /\ Unbooked(o)' \in Nat
  BY HeldStep
<1>5. SimFilled(o)' = SimFilled(o) /\ SimFilled(o) \in Nat
  BY SimFilledIsNat DEF SimFilled
<1>6. SizeOf(f, o) \in Nat
  BY <1>1 DEF SizeOf, FillRecord
<1>7. SizeIn(task[t].fills, o) = SizeOf(f, o) + SizeIn(rest, o)
  BY <1>1, SizeInTail
<1>8. SizeIn(task[t].fills, o) \in Nat /\ SizeIn(rest, o) \in Nat
  BY <1>1, <1>2, SizeInIsNat
<1> DEFINE n == SizeIn(ToTrack(task[t]), o)
           m == SizeIn(ToWrite(task[t]), o)
           q == SizeIn(ToTrack(task'[t]), o)
           r == SizeIn(ToWrite(task'[t]), o)
           all == SizeIn(task[t].fills, o)
           some == SizeIn(rest, o)
           out == Out(o)'
           put == Put(o)'
<1>9. /\ n \in Nat /\ m \in Nat
      /\ all = SizeOf(f, o) + some /\ all \in Nat /\ some \in Nat
  BY <1>3, <1>7, <1>8
<1>10. /\ out = SimFilled(o) - (Pending(o) + (q - n))
       /\ put = SimFilled(o) - (Unbooked(o) + (r - m))
  BY <1>4, <1>5 DEF Out, Put
<1>11. /\ q = n => out = Out(o)
       /\ n = all /\ q = some => out = Out(o) + SizeOf(f, o)
       /\ r = m => put = Put(o)
       /\ m = all /\ r = some => put = Put(o) + SizeOf(f, o)
  <2> DEFINE x == SimFilled(o)
             y == Pending(o)
             z == Unbooked(o)
             d == SizeOf(f, o)
  <2>1. x \in Nat /\ y \in Nat /\ z \in Nat /\ d \in Nat
    BY <1>4, <1>5, <1>6
  <2>2. out = x - (y + (q - n)) /\ put = x - (z + (r - m))
    BY <1>10
  <2>3. all = d + some
    BY <1>9
  <2>4. Out(o) = x - y /\ Put(o) = x - z
    BY DEF Out, Put
  <2> HIDE DEF m, r, n, q, out, put, all, some, x, y, z, d
  <2>5. q = n => out = x - y
    BY <1>9, <2>1, <2>2
  <2>6. n = all /\ q = some => out = (x - y) + d
    BY <1>9, <2>1, <2>2, <2>3
  <2>7. r = m => put = x - z
    BY <1>9, <2>1, <2>2
  <2>8. m = all /\ r = some => put = (x - z) + d
    BY <1>9, <2>1, <2>2, <2>3
  <2> QED
    BY <2>4, <2>5, <2>6, <2>7, <2>8 DEF d
<1> QED
  BY <1>6, <1>11

\* The actions that bring fills, or none, to a task that has none.
LEMMA TradePrintArrives ==
    ASSUME RunnerInv, NEW t \in Tasks, NEW a \in Assets, NEW price \in Prices,
           NEW size \in PrintSizes, TradePrint(t, a, price, size)
    PROVE  /\ Arrives(t) /\ task'[t].at \in {"strategies", "fill row"}
           /\ \E fills : Printed(fills) /\ task'[t].fills = fills
<1>1. IInv /\ SimInv /\ DataOK /\ At(t, "idle") /\ took' = took
  BY DEF RunnerInv, TradePrint
<1>2. PICK fills : Printed(fills) /\ Ticked(t, fills)
  BY <1>1, PrintGives
<1>3. fills \in Seq(FillRecord)
  BY <1>2 DEF Printed
<1>4. /\ Others(t) /\ task'[t].fills = fills
      /\ task'[t].at = IF fills = <<>> THEN "strategies" ELSE "fill row"
  BY <1>1, <1>2, <1>3, TickedFacts
<1>5. ~Handling(t) /\ task[t].fills = <<>>
  BY <1>1, EmptyHands DEF At, Handling
<1>6. ASSUME NEW o \in Orders
      PROVE  SimFilled(o)' = SimFilled(o) + SizeIn(task'[t].fills, o)
  <2>1. SizeIn(fills, o) = filled'[o] - filled[o]
    BY <1>2 DEF Printed
  <2>2. filled'[o] \in Nat /\ filled[o] \in Nat /\ took[o] \in Nat
    <3>1. /\ Sim!TradePrint(a, price, size) /\ UNCHANGED <<placed, took>>
      BY DEF TradePrint
    <3>2. filled'[o] \in Nat
      BY <1>1, <3>1, SimTradePrint
    <3> QED
      BY <1>1, <3>2 DEF SimInv, Sim!MakerTypeOK
  <2>3. task'[t].fills = fills /\ took'[o] = took[o]
    BY <1>1, <1>4
  <2> QED
    BY <2>1, <2>2, <2>3 DEF SimFilled
<1> QED
  BY <1>2, <1>4, <1>5, <1>6 DEF Arrives, Handling

LEMMA BookMovedArrives ==
    ASSUME RunnerInv, NEW t \in Tasks, NEW a \in Assets, NEW away \in SUBSET resting,
           BookMoved(t, a, away)
    PROVE  /\ Arrives(t) /\ task'[t].at \in {"strategies", "fill row"}
           /\ \E fills : Marked(fills) /\ task'[t].fills = fills
<1>1. IInv /\ SimInv /\ DataOK /\ At(t, "idle") /\ took' = took /\ filled' = filled
  BY DEF RunnerInv, BookMoved, Sim!BookMoved
<1>2. PICK fills : Marked(fills) /\ Ticked(t, fills)
  BY <1>1, MoveGives
<1>3. fills \in Seq(FillRecord)
  BY <1>2 DEF Marked
<1>4. /\ Others(t) /\ task'[t].fills = fills
      /\ task'[t].at = IF fills = <<>> THEN "strategies" ELSE "fill row"
  BY <1>1, <1>2, <1>3, TickedFacts
<1>5. ~Handling(t) /\ task[t].fills = <<>>
  BY <1>1, EmptyHands DEF At, Handling
<1>6. ASSUME NEW o \in Orders
      PROVE  SimFilled(o)' = SimFilled(o) + SizeIn(task'[t].fills, o)
  <2>1. SizeIn(fills, o) = 0 /\ SimFilled(o) \in Nat
    BY <1>2, SimFilledIsNat DEF Marked
  <2>2. task'[t].fills = fills /\ SimFilled(o)' = SimFilled(o)
    BY <1>1, <1>4 DEF SimFilled
  <2> QED
    BY <2>1, <2>2
<1> QED
  BY <1>2, <1>4, <1>5, <1>6 DEF Arrives, Handling

\* A task that goes on without a fill.
HandlingAt(frame) == frame.at \in {"fill row", "order status", "buy row", "sell row"}

LEMMA NothingArrives ==
    ASSUME RunnerInv, NEW t \in Tasks, ~Handling(t), NEW new \in Frame, Goto(t, new),
           new.fills = <<>>, ~HandlingAt(new), UNCHANGED simVars
    PROVE  Arrives(t)
<1>1. DataOK
  BY DEF RunnerInv
<1>2. task[t].fills = <<>>
  BY EmptyHands
<1>3. Others(t) /\ task'[t] = new
  BY <1>1, GotoFacts, GotoKeeps
<1>4. ASSUME NEW o \in Orders
      PROVE  SimFilled(o)' = SimFilled(o) + SizeIn(task'[t].fills, o)
  <2>1. SizeIn(task'[t].fills, o) = 0 /\ SimFilled(o) \in Nat /\ SimFilled(o)' = SimFilled(o)
    BY <1>3, SizeInEmpty, SimFilledIsNat DEF SimFilled, simVars
  <2> QED
    BY <2>1
<1> QED
  BY <1>2, <1>3, <1>4 DEF Arrives, Handling, HandlingAt

\* Between events and signals a task only moves on.
Idles(t) ==
    \/ OtherEvent(t) \/ Dispatched(t) \/ SignalRow(t)
    \/ \E o \in Orders, sig \in Signal : Emit(t, o, sig)

LEMMA IdlesFacts ==
    ASSUME RunnerInv, NEW t \in Tasks, Idles(t)
    PROVE  /\ Arrives(t) /\ task'[t].fills = <<>>
           /\ UNCHANGED <<vars, simVars, dbVars, history, rowHistory>>
           /\ \A o \in Orders : sent'[o] = sent[o] \/ sent[o] = NoSignal
           /\ InFlight(t)' \/ task'[t].at \in {"idle", "strategies"}
           /\ task'[t].at # "refresh"
<1>1. DataOK
  BY DEF RunnerInv
<1>2. PICK new \in Frame :
        /\ ~Handling(t) /\ Goto(t, new) /\ new.fills = <<>>
        /\ new.at \in {"idle", "strategies", "signal row", "order row"}
  <2>1. CASE OtherEvent(t)
    <3>1. ~Handling(t) /\ Goto(t, [Idle EXCEPT !.fills = <<>>, !.at = "strategies"])
      BY <2>1 DEF OtherEvent, Ticked, At, Handling
    <3>2. <<>> \in Seq(FillRecord) /\ "strategies" \in Steps
      BY EmptyList DEF Steps
    <3>3. [Idle EXCEPT !.fills = <<>>, !.at = "strategies"] \in Frame
      BY <3>2, IdleIsFrame
    <3> QED
      BY <3>1, <3>3 DEF Idle
  <2>2. CASE Dispatched(t)
    BY <2>2, IdleIsFrame DEF Dispatched, Idle, At, Handling
  <2>3. CASE SignalRow(t)
    <3>1. ~Handling(t)
      BY <2>3 DEF SignalRow, At, Handling
    <3>2. \A at \in Steps : /\ [task[t] EXCEPT !.at = at] \in Frame
                            /\ [task[t] EXCEPT !.at = at].at = at
                            /\ [task[t] EXCEPT !.at = at].fills = <<>>
      BY <3>1, EmptyHands
    <3>3. \E at \in {"strategies", "order row"} : Goto(t, [task[t] EXCEPT !.at = at])
      BY <2>3 DEF SignalRow
    <3> QED
      BY <3>1, <3>2, <3>3 DEF Steps
  <2>4. CASE \E o \in Orders, sig \in Signal : Emit(t, o, sig)
    <3>1. PICK o \in Orders, sig \in Signal : Emit(t, o, sig)
      BY <2>4
    <3>2. ~Handling(t)
      BY <3>1 DEF Emit, At, Handling
    <3>3. task[t] \in Frame /\ task[t].fills = <<>>
      BY <3>2, EmptyHands
    <3>4. PICK i \in task[t].turn .. Len(Runners) :
             Goto(t, [task[t] EXCEPT !.at = "signal row", !.turn = i, !.cur = o])
      BY <3>1 DEF Emit
    <3>5. task[t].turn \in Nat /\ Len(Runners) \in Nat
      BY <3>3, RunnerAssumption DEF Frame
    <3>6. i \in Nat
      BY <3>5
    <3> DEFINE new == [task[t] EXCEPT !.at = "signal row", !.turn = i, !.cur = o]
    <3>7. new \in Frame /\ new.fills = <<>> /\ new.at = "signal row"
      BY <3>3, <3>6 DEF Frame, Steps
    <3> QED
      BY <3>2, <3>4, <3>7
  <2> QED
    BY <2>1, <2>2, <2>3, <2>4 DEF Idles
<1>3. UNCHANGED <<vars, simVars, dbVars, history, rowHistory>>
  BY DEF Idles, OtherEvent, Dispatched, SignalRow, Emit
<1>4. Arrives(t)
  BY <1>2, <1>3, NothingArrives DEF HandlingAt
<1>5. task'[t] = new
  BY <1>1, <1>2, GotoFacts
<1>6. ASSUME NEW o \in Orders PROVE sent'[o] = sent[o] \/ sent[o] = NoSignal
  <2>1. CASE OtherEvent(t) \/ Dispatched(t) \/ SignalRow(t)
    BY <2>1 DEF OtherEvent, Dispatched, SignalRow
  <2>2. CASE \E p \in Orders, sig \in Signal : Emit(t, p, sig)
    <3>1. PICK p \in Orders, sig \in Signal : Emit(t, p, sig)
      BY <2>2
    <3>2. sent[p] = NoSignal /\ sent' = [sent EXCEPT ![p] = sig]
      BY <3>1 DEF Emit
    <3> QED
      BY <1>1, <3>2 DEF DataOK
  <2> QED
    BY <2>1, <2>2 DEF Idles
<1> QED
  BY <1>2, <1>3, <1>4, <1>5, <1>6 DEF InFlight

\* submit, after the order row or after the refresh; or the wait for a refresh.
Submits(t) == OrderRow(t) \/ Refreshed(t)

LEMMA SubmitsFacts ==
    ASSUME RunnerInv, NEW t \in Tasks, Submits(t), NEW o, o = task[t].cur
    PROVE  /\ Arrives(t) /\ InFlight(t) /\ o \in Orders
           /\ UNCHANGED <<vars, mirror, sent, history>>
           /\ filled' = filled /\ missed' = missed
           /\ \A p \in Orders : p # o => order'[p] = order[p] /\ took'[p] = took[p]
           /\ \/ Submitted(t, o)
              \/ /\ task'[t].at = "refresh" /\ task'[t].cur = o /\ task'[t].fills = <<>>
                 /\ UNCHANGED simVars /\ OrderRow(t)
<1>1. InFlight(t) /\ ~Handling(t)
  BY DEF Submits, OrderRow, Refreshed, At, InFlight, Handling
<1>2. /\ o \in Orders /\ sent[o] # NoSignal /\ Unsubmitted(o)
      /\ task[t].fills = <<>> /\ ~task[t].sell.live
  BY <1>1, InFlightFacts
<1>3. SimInv /\ DataOK
  BY DEF RunnerInv
<1>4. UNCHANGED <<vars, mirror, sent, history>>
  BY DEF Submits, OrderRow, Refreshed, dbVars
<1>5. \/ Submit(t, o)
      \/ Goto(t, [task[t] EXCEPT !.at = "refresh"]) /\ UNCHANGED simVars /\ OrderRow(t)
  BY DEF Submits, OrderRow, Refreshed
<1>6. CASE Submit(t, o)
  <2>1. task' \in [Tasks -> Frame] /\ Others(t) /\ Submitted(t, o)
    BY <1>2, <1>3, <1>6, SubmitFacts DEF Unsubmitted
  <2>2. filled' = filled /\ missed' = missed
        /\ \A p \in Orders : p # o => order'[p] = order[p] /\ took'[p] = took[p]
    BY <2>1 DEF Submitted
  <2>3. ASSUME NEW p \in Orders
        PROVE  SimFilled(p)' = SimFilled(p) + SizeIn(task'[t].fills, p)
    <3>1. SimFilled(p) \in Nat
      BY SimFilledIsNat
    <3>2. CASE took' = took /\ task'[t].fills = <<>>
      <4>1. SizeIn(task'[t].fills, p) = 0
        BY <3>2, SizeInEmpty
      <4> QED
        BY <2>2, <3>1, <3>2, <4>1 DEF SimFilled
    <3>3. CASE \E f \in FillRecord : /\ f.order = o /\ f.size = took'[o]
                                     /\ task'[t].fills = <<f>>
      <4>1. PICK f \in FillRecord : /\ f.order = o /\ f.size = took'[o]
                                    /\ task'[t].fills = <<f>>
        BY <3>3
      <4>2. SizeIn(task'[t].fills, p) = SizeOf(f, p)
        BY <4>1, SizeInSingle
      <4>3. took[o] = 0 /\ f.size \in Nat
        BY <1>2 DEF Unsubmitted, FillRecord
      <4>4. filled[p] \in Nat /\ took[p] \in Nat
        BY <1>3 DEF SimInv, Sim!MakerTypeOK
      <4>5. CASE p = o
        BY <2>2, <4>1, <4>2, <4>3, <4>4, <4>5 DEF SimFilled, SizeOf
      <4>6. CASE p # o
        BY <2>2, <4>1, <4>2, <4>4, <4>6 DEF SimFilled, SizeOf
      <4> QED
        BY <4>5, <4>6
    <3> QED
      BY <2>1, <3>2, <3>3 DEF Submitted
  <2>4. task'[t].at = "fill row" \/ (task'[t].fills = <<>> /\ ~Handling(t)')
    BY <2>1 DEF Submitted, Handling
  <2> QED
    BY <1>1, <1>2, <1>4, <2>1, <2>2, <2>3, <2>4 DEF Arrives
<1>7. CASE Goto(t, [task[t] EXCEPT !.at = "refresh"]) /\ UNCHANGED simVars /\ OrderRow(t)
  <2> DEFINE new == [task[t] EXCEPT !.at = "refresh"]
  <2>1. new \in Frame /\ new.at = "refresh" /\ new.cur = o /\ new.fills = <<>>
    BY <1>1, EmptyHands DEF Steps
  <2> HIDE DEF new
  <2>2. Goto(t, new) /\ UNCHANGED simVars
    BY <1>7 DEF new
  <2>3. Arrives(t)
    BY <1>1, <2>1, <2>2, NothingArrives DEF HandlingAt
  <2>4. task'[t] = new
    BY <1>3, <2>1, <2>2, GotoFacts
  <2> QED
    BY <1>1, <1>2, <1>4, <1>7, <2>1, <2>3, <2>4 DEF simVars
<1> QED
  BY <1>5, <1>6, <1>7

\* The tracker gets the fill, or the sleeve is one that the code keeps from it.
Delivered(f) ==
    \/ TrackedFill(f)
    \/ UNCHANGED vars /\ Mode[sent[f.order].sleeve] = "live_signal"

LEMMA InsertedFlow ==
    ASSUME RunnerInv, NEW t \in Tasks, Handling(t), Inserted(t),
           NEW f, f = Head(task[t].fills), NEW rest, rest = Tail(task[t].fills)
    PROVE  /\ Others(t) /\ Delivered(f)
           /\ ToTrack(task'[t]) = rest /\ ToWrite(task'[t]) = rest
           /\ task'[t].fills = rest \/ (task'[t].fills = task[t].fills /\ At(t, "buy row")')
           /\ task'[t].at # "order status" /\ task'[t].at # "refresh"
<1>1. IInv /\ DataOK /\ TasksInv /\ TaskOK(t) /\ task[t].fills # <<>>
  BY HeadFacts DEF RunnerInv
<1>2. /\ Others(t)
      /\ \/ /\ SkipsTracker(t) /\ UNCHANGED vars
            /\ task'[t].fills = rest
            /\ task'[t].at = IF rest = <<>> THEN "strategies" ELSE "fill row"
         \/ TrackedFill(f) /\ TrackedTask(t, f)
  BY <1>1, InsertedFacts
<1>3. CASE TrackedFill(f) /\ TrackedTask(t, f)
  <2>1. task'[t].at = "buy row" /\ task'[t].fills = task[t].fills
    BY <1>3 DEF TrackedTask
  <2> QED
    BY <1>1, <1>2, <1>3, <2>1 DEF Delivered, ToTrack, ToWrite, At
<1>4. CASE /\ SkipsTracker(t) /\ UNCHANGED vars
           /\ task'[t].fills = rest
           /\ task'[t].at = IF rest = <<>> THEN "strategies" ELSE "fill row"
  <2>1. Mode[sent[f.order].sleeve] = "live_signal"
    BY <1>1, <1>4 DEF SkipsTracker, TaskOK, FillsOK
  <2>2. ToTrack(task'[t]) = rest /\ ToWrite(task'[t]) = rest
    BY <1>4 DEF ToTrack, ToWrite
  <2> QED
    BY <1>2, <1>4, <2>1, <2>2 DEF Delivered
<1> QED
  BY <1>2, <1>3, <1>4

LEMMA FillRowFlow ==
    ASSUME RunnerInv, RunnerInv', NEW t \in Tasks, FillRow(t), NEW f, f = Head(task[t].fills)
    PROVE  /\ Handling(t) /\ Others(t) /\ UNCHANGED <<simVars, mirror, sent, history>>
           /\ \A o \in Orders : SizeOf(f, o) \in Nat /\ Put(o)' = Put(o) + SizeOf(f, o)
           /\ \/ /\ FillWritten(t) /\ UNCHANGED <<vars, rowHistory>>
                 /\ task'[t].at = "order status" /\ task'[t].fills = task[t].fills
                 /\ ToTrack(task[t]) = task[t].fills /\ ToTrack(task'[t]) = task[t].fills
                 /\ \A o \in Orders : Out(o)' = Out(o)
              \/ /\ row' = row /\ FillLost(f) /\ Delivered(f) /\ Inserted(t)
                 /\ \A o \in Orders : Out(o)' = Out(o) + SizeOf(f, o)
<1> DEFINE rest == Tail(task[t].fills)
<1>1. At(t, "fill row") /\ Handling(t) /\ UNCHANGED <<simVars, mirror, sent, history>>
  BY DEF FillRow, At, Handling
<1>2. filled' = filled /\ took' = took
  BY <1>1 DEF simVars
<1>3. \/ /\ FillWritten(t) /\ UNCHANGED <<vars, rowHistory>>
         /\ Goto(t, [task[t] EXCEPT !.at = "order status"])
      \/ row' = row /\ Inserted(t) /\ FillLost(f)
  BY FillRowFacts
<1>4. ToTrack(task[t]) = task[t].fills /\ ToWrite(task[t]) = task[t].fills
  BY <1>1 DEF ToTrack, ToWrite, At
<1>5. CASE /\ FillWritten(t) /\ UNCHANGED <<vars, rowHistory>>
           /\ Goto(t, [task[t] EXCEPT !.at = "order status"])
  <2>1. Grows
    BY <1>1 DEF Grows, simVars
  <2>2. /\ Others(t) /\ task'[t].at = "order status" /\ task'[t].fills = task[t].fills
    BY <1>1, <1>5, <2>1, ToOrderStatus
  <2>3. task[t].fills # <<>>
    BY <1>1, HeadFacts
  <2>4. ToTrack(task'[t]) = task[t].fills /\ ToWrite(task'[t]) = rest
    BY <2>2, <2>3 DEF ToTrack, ToWrite
  <2>5. ASSUME NEW o \in Orders
        PROVE  Out(o)' = Out(o) /\ Put(o)' = Put(o) + SizeOf(f, o) /\ SizeOf(f, o) \in Nat
    BY <1>1, <1>2, <1>4, <2>2, <2>4, HandlingFlow
  <2> QED
    BY <1>1, <1>4, <1>5, <2>2, <2>4, <2>5
<1>6. CASE row' = row /\ Inserted(t) /\ FillLost(f)
  <2>1. Others(t) /\ Delivered(f) /\ ToTrack(task'[t]) = rest /\ ToWrite(task'[t]) = rest
    BY <1>1, <1>6, InsertedFlow
  <2>2. ASSUME NEW o \in Orders
        PROVE  /\ Out(o)' = Out(o) + SizeOf(f, o) /\ Put(o)' = Put(o) + SizeOf(f, o)
               /\ SizeOf(f, o) \in Nat
    BY <1>1, <1>2, <1>4, <2>1, HandlingFlow
  <2> QED
    BY <1>1, <1>6, <2>1, <2>2
<1> QED
  BY <1>3, <1>5, <1>6

LEMMA OrderStatusFlow ==
    ASSUME RunnerInv, RunnerInv', NEW t \in Tasks, OrderStatus(t), NEW f, f = Head(task[t].fills)
    PROVE  /\ Handling(t) /\ Others(t) /\ UNCHANGED <<simVars, mirror, sent, history>>
           /\ Delivered(f) /\ Inserted(t)
           /\ \A o \in Orders : /\ SizeOf(f, o) \in Nat /\ Put(o)' = Put(o)
                                /\ Out(o)' = Out(o) + SizeOf(f, o)
<1> DEFINE rest == Tail(task[t].fills)
<1>1. At(t, "order status") /\ Handling(t) /\ UNCHANGED <<simVars, mirror, sent, history>>
  BY DEF OrderStatus, At, Handling
<1>2. filled' = filled /\ took' = took
  BY <1>1 DEF simVars
<1>3. Inserted(t)
  BY OrderStatusFacts
<1>4. task[t].fills # <<>>
  BY <1>1, HeadFacts
<1>5. ToTrack(task[t]) = task[t].fills /\ ToWrite(task[t]) = rest
  BY <1>1, <1>4 DEF ToTrack, ToWrite, At
<1>6. Others(t) /\ Delivered(f) /\ ToTrack(task'[t]) = rest /\ ToWrite(task'[t]) = rest
  BY <1>1, <1>3, InsertedFlow
<1>7. ASSUME NEW o \in Orders
      PROVE  /\ Out(o)' = Out(o) + SizeOf(f, o) /\ Put(o)' = Put(o) /\ SizeOf(f, o) \in Nat
  BY <1>1, <1>2, <1>5, <1>6, HandlingFlow
<1> QED
  BY <1>1, <1>3, <1>6, <1>7

LEMMA PositionRowsFlow ==
    ASSUME RunnerInv, RunnerInv', NEW t \in Tasks, BuyRow(t) \/ SellRow(t)
    PROVE  /\ Handling(t) /\ Others(t) /\ UNCHANGED <<vars, simVars, row, sent, history>>
           /\ ToTrack(task'[t]) = ToTrack(task[t]) /\ ToTrack(task[t]) = Tail(task[t].fills)
           /\ task'[t].at \in {"sell row", "fill row", "strategies"}
           /\ \A o \in Orders : Out(o)' = Out(o) /\ Put(o)' = Put(o)
<1> DEFINE rest == Tail(task[t].fills)
<1>1. /\ At(t, "buy row") \/ At(t, "sell row")
      /\ UNCHANGED <<vars, simVars, row, sent, history>>
  BY DEF BuyRow, SellRow, At, Handling
<1>2. Handling(t) /\ filled' = filled /\ took' = took
  BY <1>1 DEF simVars, At, Handling
<1>3. task[t].fills # <<>>
  BY <1>2, HeadFacts
<1>4. ToTrack(task[t]) = rest /\ ToWrite(task[t]) = rest
  BY <1>1, <1>3 DEF ToTrack, ToWrite, At
<1>5. /\ Others(t) /\ ToTrack(task'[t]) = rest /\ ToWrite(task'[t]) = rest
      /\ task'[t].at \in {"sell row", "fill row", "strategies"}
  <2>1. CASE BuyRow(t)
    <3>1. Others(t) /\ task'[t].at = "sell row" /\ task'[t].fills = task[t].fills
      BY <2>1, BuyRowFacts
    <3> QED
      BY <1>3, <3>1 DEF ToTrack, ToWrite
  <2>2. CASE SellRow(t)
    <3>1. /\ Others(t) /\ task'[t].fills = rest
          /\ task'[t].at = IF rest = <<>> THEN "strategies" ELSE "fill row"
      BY <2>2, SellRowFacts
    <3> QED
      BY <1>3, <3>1 DEF ToTrack, ToWrite
  <2> QED
    BY <2>1, <2>2
<1>6. ASSUME NEW o \in Orders PROVE Out(o)' = Out(o) /\ Put(o)' = Put(o)
  BY <1>2, <1>4, <1>5, HandlingFlow
<1> QED
  BY <1>1, <1>2, <1>4, <1>5, <1>6

LEMMA MarketResolvedFlow ==
    ASSUME RunnerInv, RunnerInv', NEW t \in Tasks, NEW m \in Markets, NEW winner \in Winners(m),
           MarketResolved(t, m, winner)
    PROVE  /\ \A u \in Tasks : Keeps(u)
           /\ UNCHANGED <<simVars, dbVars, sent, forgot, rowHistory>>
           /\ \A o \in Orders : Out(o)' = Out(o) /\ Put(o)' = Put(o)
<1>1. \A u \in Tasks : Keeps(u)
  BY MarketResolvedFacts
<1>2. UNCHANGED <<simVars, dbVars, sent, forgot, rowHistory>>
  BY DEF MarketResolved
<1>3. ASSUME NEW o \in Orders PROVE Out(o)' = Out(o) /\ Put(o)' = Put(o)
  <2>1. Pending(o)' = Pending(o) /\ Unbooked(o)' = Unbooked(o)
    BY <1>1, HeldSame
  <2>2. SimFilled(o)' = SimFilled(o)
    BY <1>2 DEF SimFilled, simVars
  <2> QED
    BY <2>1, <2>2 DEF Out, Put
<1> QED
  BY <1>1, <1>2, <1>3

LEMMA RestartFlow ==
    ASSUME RunnerInv, RunnerInv', Restart, NEW o \in Orders
    PROVE  /\ SimFilled(o)' = SimFilled(o)
           /\ Out(o)' = SimFilled(o) /\ Put(o)' = SimFilled(o)
<1>1. Pending(o)' = 0 /\ Unbooked(o)' = 0
  BY HeldAfterRestart
<1>2. SimFilled(o)' = SimFilled(o) /\ SimFilled(o) \in Nat
  BY SimFilledIsNat DEF Restart, SimFilled
<1> QED
  BY <1>1, <1>2 DEF Out, Put

LEMMA FlowIsInt ==
    ASSUME RunnerInv, NEW o \in Orders
    PROVE  /\ Out(o) \in Int /\ Put(o) \in Int /\ Put(o) <= SimFilled(o)
           /\ Pending(o) \in Nat /\ Unbooked(o) \in Nat /\ SimFilled(o) \in Nat
<1>1. UntrackedLists \in Lists /\ UnwrittenLists \in Lists
      /\ Pending(o) = Held(UntrackedLists, o) /\ Unbooked(o) = Held(UnwrittenLists, o)
  BY PendingIsHeld DEF ListsAdded
<1>2. Pending(o) \in Nat /\ Unbooked(o) \in Nat
  BY <1>1, HeldIsNat
<1>3. SimFilled(o) \in Nat
  BY SimFilledIsNat
<1> QED
  BY <1>2, <1>3 DEF Out, Put

-----------------------------------------------------------------------------
(* RowsBackedByFills *)

RowBacked(o) ==
    /\ row[o].status = "filled" => row[o].done >= sent[o].size
    /\ row[o].status = "partially_filled" => row[o].done > 0
    /\ row[o].status = "none" => row[o].done = 0

\* Between the two statements of insert_fill the first has taken effect.
Written(t) ==
    LET f == Head(task[t].fills) IN
    At(t, "order status") => row[f.order].status # "none"
                             /\ (f.kind # "missed" => row[f.order].done > 0)

\* The rows of an order add up to no more than what was put to them.  The
\* fills that are still to be put make this stronger than the rows being
\* backed by the simulator's fills, and inductive.
RowsInv ==
    /\ \A o \in Orders : row[o].done <= Put(o)
    /\ \A o \in Orders : RowBacked(o)
    /\ \A t \in Tasks : Written(t)

RowsGrow ==
    \A o \in Orders : /\ row'[o].done \in Nat /\ row[o].done \in Nat
                      /\ row[o].done <= row'[o].done
                      /\ row[o].status # "none" => row'[o].status # "none"

\* u does not come to the second statement of insert_fill.
SameStatement(u) ==
    task'[u].at = "order status" =>
              task[u].at = "order status" /\ task'[u].fills = task[u].fills

\* Rows that grow keep what a task has written.
LEMMA WrittenStays ==
    ASSUME RunnerInv, NEW u \in Tasks, Written(u), RowsGrow, SameStatement(u)
    PROVE  Written(u)'
<1>1. CASE At(u, "order status")
  <2>1. Handling(u)
    BY <1>1 DEF Handling, At
  <2> DEFINE f == Head(task[u].fills)
  <2>2. f.order \in Orders
    BY <2>1, HeadFacts
  <2>3. row[f.order].status # "none" /\ (f.kind # "missed" => row[f.order].done > 0)
    BY <1>1 DEF Written
  <2> HIDE DEF f
  <2>4. /\ row'[f.order].done \in Nat /\ row[f.order].done \in Nat
        /\ row[f.order].done <= row'[f.order].done
        /\ row'[f.order].status # "none"
    BY <2>2, <2>3 DEF RowsGrow
  <2>5. row[f.order].done > 0 => row'[f.order].done > 0
    BY <2>4
  <2> QED
    BY <2>3, <2>4, <2>5 DEF Written, SameStatement, At, f
<1>2. CASE ~At(u, "order status")
  BY <1>2 DEF Written, At, SameStatement
<1> QED
  BY <1>1, <1>2

LEMMA AllWrittenStays ==
    ASSUME RunnerInv, RowsInv, NEW t \in Tasks, Others(t), RowsGrow,
           task'[t].at # "order status"
    PROVE  \A u \in Tasks : Written(u)'
<1> SUFFICES ASSUME NEW u \in Tasks PROVE Written(u)'
  OBVIOUS
<1>1. Written(u)
  BY DEF RowsInv
<1>2. SameStatement(u)
  BY DEF Others, Keeps, SameStatement
<1> QED
  BY <1>1, <1>2, WrittenStays

\* A step that leaves the rows alone.
LEMMA RowsUntouched ==
    ASSUME RunnerInv, RunnerInv', RowsInv, row' = row,
           \A o \in Orders : Put(o)' \in Int /\ Put(o)' >= Put(o),
           \A o \in Orders : sent'[o] = sent[o] \/ sent[o] = NoSignal,
           \A u \in Tasks : SameStatement(u)
    PROVE  RowsInv'
<1>1. row \in [Orders -> RowRecord]
  BY DEF RunnerInv, DataOK
<1>2. ASSUME NEW o \in Orders PROVE (row[o].done <= Put(o))' /\ RowBacked(o)'
  <2>1. row[o].done <= Put(o) /\ RowBacked(o) /\ row[o].done \in Nat /\ Put(o) \in Int
    BY <1>1, FlowIsInt DEF RowsInv, RowRecord
  <2> DEFINE n == row[o].done
             old == Put(o)
             new == Put(o)'
  <2>2. row'[o].done <= Put(o)'
    <3>1. n <= old /\ n \in Nat /\ old \in Int /\ new \in Int /\ new >= old
      BY <2>1
    <3>2. n <= new
      <4> HIDE DEF n, old, new
      <4> QED
        BY <3>1
    <3> QED
      BY <3>2
  <2>3. CASE sent'[o] = sent[o]
    BY <2>1, <2>2, <2>3 DEF RowBacked
  <2>4. CASE sent[o] = NoSignal
    <3>1. row[o] = NoRow
      BY <2>4 DEF RunnerInv, BlankInv
    <3>2. row[o].status = "none" /\ row[o].done = 0
      BY <3>1 DEF NoRow
    <3> QED
      BY <2>2, <3>2 DEF RowBacked
  <2> QED
    BY <2>3, <2>4
<1>3. RowsGrow
  <2>1. \A o \in Orders : row[o].done \in Nat
    BY <1>1 DEF RowRecord
  <2> QED
    BY <2>1 DEF RowsGrow
<1>4. \A u \in Tasks : Written(u)'
  BY <1>3, WrittenStays DEF RowsInv
<1> QED
  BY <1>2, <1>4 DEF RowsInv

LEMMA SubmitsRows ==
    ASSUME RunnerInv, RunnerInv', RowsInv, NEW t \in Tasks, Submits(t)
    PROVE  RowsInv'
<1> DEFINE o == task[t].cur
<1>1. /\ Arrives(t) /\ InFlight(t) /\ o \in Orders /\ UNCHANGED sent
      /\ \A p \in Orders : Put(p)' = Put(p)
  BY SubmitsFacts, ArrivalFlow
<1>2. DataOK /\ row \in [Orders -> RowRecord]
  BY DEF RunnerInv, DataOK
<1>3. RowOpened(o)
  BY RowWritten DEF Submits, Refreshed, RowOpened, dbVars
<1> HIDE DEF o
<1>4. /\ row' \in [Orders -> RowRecord]
      /\ \A p \in Orders : p # o => row'[p] = row[p]
      /\ row'[o].done = row[o].done
      /\ row'[o].status = row[o].status \/ row'[o].status = "open"
  BY <1>1, <1>2, <1>3, RowOpenedFacts
<1>5. ASSUME NEW p \in Orders PROVE (row[p].done <= Put(p))' /\ RowBacked(p)'
  <2>1. row[p].done <= Put(p) /\ RowBacked(p) /\ row'[p].done = row[p].done
    BY <1>4 DEF RowsInv
  <2>2. row'[p].status = row[p].status \/ row'[p].status = "open"
    BY <1>4
  <2>3. RowBacked(p)'
    BY <1>1, <2>1, <2>2 DEF RowBacked
  <2> QED
    BY <1>1, <2>1, <2>3
<1>6. RowsGrow
  <2> SUFFICES ASSUME NEW p \in Orders
               PROVE  /\ row'[p].done \in Nat /\ row[p].done \in Nat
                      /\ row[p].done <= row'[p].done
                      /\ row[p].status # "none" => row'[p].status # "none"
    BY DEF RowsGrow
  <2>1. row'[p].done = row[p].done /\ row[p].done \in Nat
    BY <1>2, <1>4 DEF RowRecord
  <2>2. row[p].status # "none" => row'[p].status # "none"
    BY <1>4
  <2> QED
    BY <2>1, <2>2
<1>7. Others(t) /\ task'[t].at # "order status"
  BY <1>1 DEF Arrives, Handling
<1>8. \A u \in Tasks : Written(u)'
  BY <1>6, <1>7, AllWrittenStays
<1> QED
  BY <1>5, <1>8 DEF RowsInv

LEMMA FillRowRows ==
    ASSUME RunnerInv, RunnerInv', RowsInv, NEW t \in Tasks, FillRow(t)
    PROVE  RowsInv'
<1> DEFINE f == Head(task[t].fills)
<1>1. /\ Handling(t) /\ Others(t) /\ UNCHANGED <<simVars, mirror, sent, history>>
      /\ \A o \in Orders : SizeOf(f, o) \in Nat /\ Put(o)' = Put(o) + SizeOf(f, o)
      /\ \/ /\ FillWritten(t)
            /\ task'[t].at = "order status" /\ task'[t].fills = task[t].fills
         \/ row' = row /\ Inserted(t)
  BY FillRowFlow
<1>2. ASSUME NEW o \in Orders
      PROVE  /\ SizeOf(f, o) \in Nat /\ Put(o) \in Int
             /\ Put(o)' = Put(o) + SizeOf(f, o) /\ Put(o)' \in Int /\ Put(o)' >= Put(o)
  <2>1. SizeOf(f, o) \in Nat /\ Put(o)' = Put(o) + SizeOf(f, o) /\ Put(o) \in Int
    BY <1>1, FlowIsInt
  <2> DEFINE n == SizeOf(f, o)
             old == Put(o)
             new == Put(o)'
  <2> HIDE DEF n, old, new
  <2>2. n \in Nat /\ old \in Int /\ new = old + n
    BY <2>1 DEF n, old, new
  <2>3. new \in Int /\ new >= old
    BY <2>2
  <2> QED
    BY <2>2, <2>3 DEF n, old, new
<1>3. CASE row' = row /\ Inserted(t)
  <2>1. task'[t].at # "order status"
    BY <1>1, <1>3, InsertedFlow
  <2>2. \A u \in Tasks : SameStatement(u)
    BY <1>1, <2>1 DEF Others, Keeps, SameStatement
  <2>3. \A o \in Orders : Put(o)' \in Int /\ Put(o)' >= Put(o)
    BY <1>2
  <2> QED
    BY <1>1, <1>3, <2>2, <2>3, RowsUntouched
<1>4. CASE FillWritten(t) /\ task'[t].at = "order status" /\ task'[t].fills = task[t].fills
  <2>1. f \in FillRecord /\ f.order \in Orders /\ f.size \in Nat /\ Genuine(f)
    BY <1>1, HeadFacts
  <2>2. /\ row[f.order].status # "none"
        /\ row'[f.order].done = row[f.order].done + f.size
        /\ row'[f.order].status = row[f.order].status
    BY <1>4 DEF FillWritten
  <2>3. /\ \A p \in Orders : p # f.order => row'[p] = row[p]
        /\ row' \in [Orders -> RowRecord]
    BY FillRowFacts
  <2>4. \A p \in Orders : row[p].done \in Nat
    BY DEF RunnerInv, DataOK, RowRecord
  <2> HIDE DEF f
  <2>5. ASSUME NEW o \in Orders
        PROVE  /\ row'[o].done = row[o].done + SizeOf(f, o)
               /\ row'[o].status = row[o].status
    <3>1. CASE o = f.order
      BY <2>2, <3>1 DEF SizeOf
    <3>2. CASE o # f.order
      BY <2>3, <2>4, <3>2 DEF SizeOf
    <3> QED
      BY <3>1, <3>2
  <2>6. ASSUME NEW o \in Orders PROVE (row[o].done <= Put(o))'
    <3> DEFINE n == row[o].done
               d == SizeOf(f, o)
               p == Put(o)
               p1 == Put(o)'
               n1 == row'[o].done
    <3>1. /\ n \in Nat /\ p \in Int /\ d \in Nat /\ n <= p
          /\ p1 = p + d /\ n1 = n + d
      BY <1>2, <2>4, <2>5 DEF RowsInv, f
    <3>2. n1 <= p1
      <4> HIDE DEF n, d, p, p1, n1
      <4> QED
        BY <3>1
    <3> QED
      BY <3>2
  <2>7. ASSUME NEW o \in Orders PROVE RowBacked(o)'
    <3>1. RowBacked(o) /\ sent'[o] = sent[o]
      BY <1>1 DEF RowsInv
    <3>2. CASE o # f.order
      BY <2>3, <3>1, <3>2 DEF RowBacked
    <3>3. CASE o = f.order
      <4>1. /\ row[o].done \in Nat /\ f.size \in Nat /\ row'[o].done = row[o].done + f.size
            /\ sent[o].size \in Nat
        BY <2>1, <2>2, <2>4, <3>3, SignalFacts DEF Genuine, RunnerInv
      <4>2. row'[o].status = "filled" => row'[o].done >= sent[o].size
        <5>1. row'[o].status = "filled" => row[o].done >= sent[o].size
          BY <2>5, <3>1 DEF RowBacked
        <5> QED
          BY <4>1, <5>1
      <4>3. row'[o].status = "partially_filled" => row'[o].done > 0
        <5>1. row'[o].status = "partially_filled" => row[o].done > 0
          BY <2>5, <3>1 DEF RowBacked
        <5> QED
          BY <4>1, <5>1
      <4>4. row'[o].status # "none"
        BY <2>2, <3>3
      <4> QED
        BY <3>1, <4>2, <4>3, <4>4 DEF RowBacked
    <3> QED
      BY <3>2, <3>3
  <2>8. RowsGrow
    <3> SUFFICES ASSUME NEW o \in Orders
                 PROVE  /\ row'[o].done \in Nat /\ row[o].done \in Nat
                        /\ row[o].done <= row'[o].done
                        /\ row[o].status # "none" => row'[o].status # "none"
      BY DEF RowsGrow
    <3>1. /\ SizeOf(f, o) \in Nat /\ row[o].done \in Nat
          /\ row'[o].done = row[o].done + SizeOf(f, o)
      BY <1>2, <2>4, <2>5 DEF f
    <3>2. row'[o].done \in Nat /\ row[o].done <= row'[o].done
      BY <3>1
    <3> QED
      BY <2>5, <3>1, <3>2
  <2>9. ASSUME NEW u \in Tasks PROVE Written(u)'
    <3>1. CASE u # t
      <4>1. Written(u)
        BY DEF RowsInv
      <4>2. SameStatement(u)
        BY <1>1, <3>1 DEF Others, Keeps, SameStatement
      <4> QED
        BY <2>8, <4>1, <4>2, WrittenStays
    <3>2. CASE u = t
      <4>1. f.kind # "missed" => row'[f.order].done > 0
        <5>1. f.kind # "missed" => f.size > 0
          BY <2>1 DEF Genuine
        <5>2. row[f.order].done \in Nat
          BY <2>1, <2>4
        <5>3. f.size > 0 => row'[f.order].done > 0
          BY <2>1, <2>2, <5>2
        <5> QED
          BY <5>1, <5>3
      <4>2. row'[f.order].status # "none"
        BY <2>2
      <4>3. Head(task'[t].fills) = f
        BY <1>4 DEF f
      <4> QED
        BY <3>2, <4>1, <4>2, <4>3 DEF Written
    <3> QED
      BY <3>1, <3>2
  <2> QED
    BY <2>6, <2>7, <2>9 DEF RowsInv
<1> QED
  BY <1>1, <1>3, <1>4

LEMMA OrderStatusRows ==
    ASSUME RunnerInv, RunnerInv', RowsInv, NEW t \in Tasks, OrderStatus(t)
    PROVE  RowsInv'
<1> DEFINE f == Head(task[t].fills)
<1>1. /\ Handling(t) /\ Others(t) /\ UNCHANGED <<simVars, mirror, sent, history>>
      /\ Inserted(t) /\ \A o \in Orders : Put(o)' = Put(o)
  BY OrderStatusFlow
<1>2. f \in FillRecord /\ f.order \in Orders /\ sent[f.order] # NoSignal
  BY <1>1, HeadFacts
<1>3. /\ row' \in [Orders -> RowRecord]
      /\ \A p \in Orders : p # f.order => row'[p] = row[p]
      /\ row'[f.order].done = row[f.order].done
      /\ row'[f.order].status = NewStatus(f) \/ row' = row
  BY OrderStatusFacts
<1>4. /\ row[f.order].status # "none"
      /\ f.kind # "missed" => row[f.order].done > 0
  BY DEF RowsInv, Written, OrderStatus
<1>5. \A p \in Orders : row[p].done \in Nat
  BY DEF RunnerInv, DataOK, RowRecord
<1>6. sent[f.order].size \in Nat
  BY <1>2, SignalFacts DEF RunnerInv
<1>7. task'[t].at # "order status"
  BY <1>1, InsertedFlow
<1> HIDE DEF f
<1>8. PICK p \in Orders : p = f.order
  BY <1>2
<1> DEFINE n == row[p].done
           size == sent[p].size
           old == row[p].status
           new == row'[p].status
<1>9. RowBacked(p)' /\ new # "none"
  <2>1. /\ RowBacked(p) /\ sent'[p] = sent[p] /\ row'[p].done = n
        /\ n \in Nat /\ size \in Nat /\ old # "none" /\ (f.kind # "missed" => n > 0)
    BY <1>1, <1>3, <1>4, <1>5, <1>6, <1>8 DEF RowsInv
  <2>2. CASE new \in {old, "cancelled"}
    <3>1. /\ old = "filled" => n >= size
          /\ old = "partially_filled" => n > 0
      BY <2>1 DEF RowBacked
    <3>2. /\ new = "filled" => n >= size
          /\ new = "partially_filled" => n > 0
          /\ new # "none"
      <4> HIDE DEF n, size, new, old
      <4> QED
        BY <2>1, <2>2, <3>1
    <3> QED
      BY <2>1, <3>2 DEF RowBacked
  <2>3. CASE new = NewStatus(f) /\ f.kind # "missed"
    <3>1. new = IF n >= size THEN "filled" ELSE IF n > 0 THEN "partially_filled" ELSE "open"
      BY <1>8, <2>3 DEF NewStatus, StatusOf
    <3>2. /\ new = "filled" => n >= size
          /\ new = "partially_filled" => n > 0
          /\ new # "none"
      <4> HIDE DEF n, size, new
      <4> QED
        BY <3>1
    <3> QED
      BY <2>1, <3>2 DEF RowBacked
  <2>4. CASE new = NewStatus(f) /\ f.kind = "missed"
    <3>1. new \in {old, "cancelled"}
      BY <1>8, <2>4 DEF NewStatus
    <3> QED
      BY <2>2, <3>1
  <2>5. row' = row => new = old
    OBVIOUS
  <2> HIDE DEF new, old
  <2> QED
    BY <1>3, <1>8, <2>2, <2>3, <2>4, <2>5 DEF new
<1>10. ASSUME NEW o \in Orders PROVE (row[o].done <= Put(o))' /\ RowBacked(o)'
  <2>1. row[o].done <= Put(o) /\ RowBacked(o) /\ sent'[o] = sent[o]
    BY <1>1 DEF RowsInv
  <2>2. row'[o].done = row[o].done /\ Put(o)' = Put(o)
    BY <1>1, <1>3, <1>8
  <2>3. (row[o].done <= Put(o))'
    BY <2>1, <2>2
  <2>4. CASE o = p
    BY <1>9, <2>3, <2>4
  <2>5. CASE o # p
    <3>1. row'[o] = row[o]
      BY <1>3, <1>8, <2>5
    <3> QED
      BY <2>1, <2>3, <3>1 DEF RowBacked
  <2> QED
    BY <2>4, <2>5
<1>11. RowsGrow
  <2> SUFFICES ASSUME NEW o \in Orders
               PROVE  /\ row'[o].done \in Nat /\ row[o].done \in Nat
                      /\ row[o].done <= row'[o].done
                      /\ row[o].status # "none" => row'[o].status # "none"
    BY DEF RowsGrow
  <2>1. row'[o].done = row[o].done /\ row[o].done \in Nat
    BY <1>3, <1>5
  <2>2. row[o].status # "none" => row'[o].status # "none"
    BY <1>3, <1>8, <1>9
  <2> QED
    BY <2>1, <2>2
<1>12. \A u \in Tasks : Written(u)'
  BY <1>1, <1>7, <1>11, AllWrittenStays
<1> QED
  BY <1>10, <1>12 DEF RowsInv

\* The actions that leave the rows of orders alone.
LEMMA OtherStepsRows ==
    ASSUME RunnerInv, RunnerInv', RowsInv, NEW t \in Tasks,
           \/ Idles(t) \/ BuyRow(t) \/ SellRow(t)
           \/ \E a \in Assets, price \in Prices, size \in PrintSizes : TradePrint(t, a, price, size)
           \/ \E a \in Assets, away \in SUBSET resting : BookMoved(t, a, away)
           \/ \E m \in Markets : \E winner \in Winners(m) : MarketResolved(t, m, winner)
    PROVE  RowsInv'
<1>1. \A o \in Orders : Put(o) \in Int
  BY FlowIsInt
<1>2. ASSUME Arrives(t), row' = row, \A o \in Orders : sent'[o] = sent[o] \/ sent[o] = NoSignal
      PROVE  RowsInv'
  <2>1. \A o \in Orders : Put(o)' \in Int /\ Put(o)' >= Put(o)
    BY <1>1, <1>2, ArrivalFlow
  <2>2. \A u \in Tasks : SameStatement(u)
    BY <1>2 DEF Arrives, Others, Keeps, SameStatement, Handling
  <2> QED
    BY <1>2, <2>1, <2>2, RowsUntouched
<1>3. CASE Idles(t)
  <2>1. Arrives(t) /\ row' = row /\ \A o \in Orders : sent'[o] = sent[o] \/ sent[o] = NoSignal
    BY <1>3, IdlesFacts DEF dbVars
  <2> QED
    BY <1>2, <2>1
<1>4. CASE \E a \in Assets, price \in Prices, size \in PrintSizes : TradePrint(t, a, price, size)
  <2>1. Arrives(t) /\ row' = row /\ sent' = sent
    BY <1>4, TradePrintArrives DEF TradePrint, dbVars
  <2> QED
    BY <1>2, <2>1
<1>5. CASE \E a \in Assets, away \in SUBSET resting : BookMoved(t, a, away)
  <2>1. Arrives(t) /\ row' = row /\ sent' = sent
    BY <1>5, BookMovedArrives DEF BookMoved, dbVars
  <2> QED
    BY <1>2, <2>1
<1>6. CASE BuyRow(t) \/ SellRow(t)
  <2>1. /\ Others(t) /\ row' = row /\ sent' = sent
        /\ task'[t].at \in {"sell row", "fill row", "strategies"}
        /\ \A o \in Orders : Put(o)' = Put(o)
    BY <1>6, PositionRowsFlow
  <2>2. \A u \in Tasks : SameStatement(u)
    BY <2>1 DEF Others, Keeps, SameStatement
  <2>3. ASSUME NEW o \in Orders PROVE Put(o)' \in Int /\ Put(o)' >= Put(o)
    <3>1. Put(o)' = Put(o) /\ Put(o) \in Int
      BY <1>1, <2>1
    <3> QED
      BY <3>1
  <2> QED
    BY <2>1, <2>2, <2>3, RowsUntouched
<1>7. CASE \E m \in Markets : \E winner \in Winners(m) : MarketResolved(t, m, winner)
  <2>1. /\ \A u \in Tasks : Keeps(u)
        /\ row' = row /\ sent' = sent /\ \A o \in Orders : Put(o)' = Put(o)
    BY <1>7, MarketResolvedFlow DEF dbVars
  <2>2. \A u \in Tasks : SameStatement(u)
    BY <2>1 DEF Keeps, SameStatement
  <2>3. ASSUME NEW o \in Orders PROVE Put(o)' \in Int /\ Put(o)' >= Put(o)
    <3>1. Put(o)' = Put(o) /\ Put(o) \in Int
      BY <1>1, <2>1
    <3> QED
      BY <3>1
  <2> QED
    BY <2>1, <2>2, <2>3, RowsUntouched
<1> QED
  BY <1>3, <1>4, <1>5, <1>6, <1>7

LEMMA RestartRows ==
    ASSUME RunnerInv, RunnerInv', RowsInv, Restart
    PROVE  RowsInv'
<1>1. row' = row /\ sent' = sent
  BY DEF Restart, dbVars
<1>2. ASSUME NEW o \in Orders PROVE Put(o)' \in Int /\ Put(o)' >= Put(o)
  <2>1. Put(o)' = SimFilled(o) /\ Put(o) <= SimFilled(o) /\ SimFilled(o) \in Nat
        /\ Put(o) \in Int
    BY RestartFlow, FlowIsInt
  <2> QED
    BY <2>1
<1>3. \A u \in Tasks : SameStatement(u)
  BY DEF Restart, Idle, SameStatement
<1> QED
  BY <1>1, <1>2, <1>3, RowsUntouched

\* The steps of a task, as the proofs group them.
TaskStep(t) ==
    \/ \E a \in Assets, price \in Prices, size \in PrintSizes : TradePrint(t, a, price, size)
    \/ \E a \in Assets, away \in SUBSET resting : BookMoved(t, a, away)
    \/ \E m \in Markets : \E winner \in Winners(m) : MarketResolved(t, m, winner)
    \/ Idles(t) \/ Submits(t) \/ FillRow(t) \/ OrderStatus(t) \/ BuyRow(t) \/ SellRow(t)

LEMMA NextGrouped ==
    RunnerNext => (\E t \in Tasks : TaskStep(t)) \/ Restart
BY DEF RunnerNext, RunnerStep, Event, Step, TaskStep, Idles, Submits

LEMMA RowsStep == RunnerInv /\ RunnerInv' /\ RowsInv /\ [RunnerNext]_runnerVars => RowsInv'
<1> SUFFICES ASSUME RunnerInv, RunnerInv', RowsInv, [RunnerNext]_runnerVars PROVE RowsInv'
  OBVIOUS
<1>1. ASSUME NEW t \in Tasks, TaskStep(t) PROVE RowsInv'
  BY <1>1, OtherStepsRows, SubmitsRows, FillRowRows, OrderStatusRows DEF TaskStep
<1>2. CASE Restart
  BY <1>2, RestartRows
<1>3. CASE UNCHANGED runnerVars
  <2>1. row' = row /\ sent' = sent /\ task' = task /\ filled' = filled /\ took' = took
    BY <1>3 DEF runnerVars, simVars, dbVars
  <2>2. \A u \in Tasks : Keeps(u)
    BY <2>1 DEF Keeps
  <2>3. ASSUME NEW o \in Orders PROVE Put(o)' \in Int /\ Put(o)' >= Put(o)
    <3>1. Unbooked(o)' = Unbooked(o) /\ SimFilled(o)' = SimFilled(o)
      BY <2>1, <2>2, HeldSame DEF SimFilled
    <3>2. Put(o) \in Int /\ Put(o)' = Put(o)
      BY <3>1, FlowIsInt DEF Put
    <3> QED
      BY <3>2
  <2>4. \A u \in Tasks : SameStatement(u)
    BY <2>2 DEF Keeps, SameStatement
  <2> QED
    BY <2>1, <2>3, <2>4, RowsUntouched
<1> QED
  BY <1>1, <1>2, <1>3, NextGrouped

LEMMA RowsInit == RunnerInit /\ RunnerInv => RowsInv
<1> SUFFICES ASSUME RunnerInit, RunnerInv PROVE RowsInv
  OBVIOUS
<1>1. ASSUME NEW t \in Tasks PROVE task[t].at = "idle" /\ task[t].fills = <<>>
  BY DEF RunnerInit, Idle
<1>2. ASSUME NEW o \in Orders PROVE row[o].status = "none" /\ row[o].done = 0
  BY DEF RunnerInit, NoRow
<1>3. ASSUME NEW o \in Orders PROVE row[o].done <= Put(o)
  <2>1. \A t \in Tasks : UnwrittenLists[t] = <<>>
    BY <1>1 DEF UnwrittenLists, ToWrite
  <2>2. Unbooked(o) = 0
    BY <2>1, HeldNone, PendingIsHeld DEF ListsAdded
  <2>3. SimFilled(o) \in Nat /\ row[o].done = 0
    BY <1>2, FlowIsInt
  <2> QED
    BY <2>2, <2>3 DEF Put
<1>4. \A o \in Orders : RowBacked(o)
  BY <1>2 DEF RowBacked
<1>5. \A t \in Tasks : Written(t)
  BY <1>1 DEF Written, At
<1> QED
  BY <1>3, <1>4, <1>5 DEF RowsInv

LEMMA RowsInvariant == RunnerSpec => [](RunnerInv /\ RowsInv)
<1>1. RunnerInit /\ RunnerInv => RowsInv
  BY RowsInit
<1>2. RunnerInv /\ RunnerInv' /\ RowsInv /\ [RunnerNext]_runnerVars => RowsInv'
  BY RowsStep
<1> QED
  BY <1>1, <1>2, RunnerSpecInvariant, PTL DEF RunnerSpec

\* Through failed writes, any interleaving of the tasks and crashes between the
\* two statements of insert_fill (db/writers.py), the fill rows of an order are
\* fills that the simulator made, and its status is backed by its fill rows.
THEOREM RowsAreBacked == RunnerSpec => []RowsBackedByFills
<1>1. RunnerInv /\ RowsInv => RowsBackedByFills
  <2> SUFFICES ASSUME RunnerInv, RowsInv, NEW o \in Orders
               PROVE  row[o].done <= SimFilled(o) /\ RowBacked(o)
    BY DEF RowsBackedByFills, RowBacked
  <2>1. row[o].done <= Put(o) /\ RowBacked(o)
    BY DEF RowsInv
  <2>2. Put(o) \in Int /\ Put(o) <= SimFilled(o) /\ SimFilled(o) \in Nat
    BY FlowIsInt
  <2>3. row[o].done \in Nat
    BY DEF RunnerInv, DataOK, RowRecord
  <2> DEFINE n == row[o].done
             p == Put(o)
             m == SimFilled(o)
  <2>4. n <= m
    <3>1. n <= p /\ n \in Nat /\ p \in Int /\ p <= m /\ m \in Nat
      BY <2>1, <2>2, <2>3
    <3> HIDE DEF n, p, m
    <3> QED
      BY <3>1
  <2> QED
    BY <2>1, <2>4
<1> QED
  BY <1>1, RowsInvariant, PTL

-----------------------------------------------------------------------------
(* RunnerTypeOK: the histories too, on which the invariant does not depend *)

HistoryOK ==
    /\ unwritten \in [Orders -> Nat] /\ stale \subseteq Orders
    /\ cleared \in [Sleeves -> SUBSET Orders]

\* Only the two statements of insert_fill can fail to write, or put it right.
LEMMA RowHistoryMoves ==
    ASSUME NEW t \in Tasks, TaskStep(t)
    PROVE  UNCHANGED rowHistory \/ FillRow(t) \/ OrderStatus(t)
<1>1. CASE Idles(t)
  BY <1>1 DEF Idles, OtherEvent, Dispatched, SignalRow, Emit
<1>2. CASE Submits(t)
  BY <1>2 DEF Submits, OrderRow, Refreshed
<1>3. CASE BuyRow(t) \/ SellRow(t)
  BY <1>3 DEF BuyRow, SellRow
<1>4. CASE \/ \E a \in Assets, price \in Prices, size \in PrintSizes : TradePrint(t, a, price, size)
           \/ \E a \in Assets, away \in SUBSET resting : BookMoved(t, a, away)
           \/ \E m \in Markets : \E winner \in Winners(m) : MarketResolved(t, m, winner)
  BY <1>4 DEF TradePrint, BookMoved, MarketResolved
<1> QED
  BY <1>1, <1>2, <1>3, <1>4 DEF TaskStep

LEMMA HistoryStep == RunnerInv /\ RunnerInv' /\ HistoryOK /\ [RunnerNext]_runnerVars => HistoryOK'
<1> SUFFICES ASSUME RunnerInv, RunnerInv', HistoryOK, [RunnerNext]_runnerVars PROVE HistoryOK'
  OBVIOUS
<1>1. CASE UNCHANGED runnerVars
  BY <1>1 DEF runnerVars, rowHistory, HistoryOK
<1>2. ASSUME RunnerNext PROVE cleared' \in [Sleeves -> SUBSET Orders]
  <2>1. \A s \in Sleeves : cleared[s] \in SUBSET Orders
    BY DEF HistoryOK
  <2>2. \A s \in Sleeves : Outstanding(s)' \in SUBSET Orders
    BY DEF Outstanding
  <2>3. cleared' = [s \in Sleeves |-> IF BelowCap(s)' THEN Outstanding(s)' ELSE cleared[s]]
    BY <1>2 DEF RunnerNext, Remember
  <2> QED
    BY <2>1, <2>2, <2>3
<1>3. ASSUME NEW t \in Tasks, TaskStep(t)
      PROVE  unwritten' \in [Orders -> Nat] /\ stale' \subseteq Orders
  <2> DEFINE f == Head(task[t].fills)
  <2>1. CASE UNCHANGED rowHistory
    BY <2>1 DEF rowHistory, HistoryOK
  <2>2. CASE FillRow(t)
    <3>1. Handling(t) /\ (UNCHANGED rowHistory \/ FillLost(f))
      BY <2>2, FillRowFacts
    <3>2. f.order \in Orders /\ f.size \in Nat
      BY <3>1, HeadFacts
    <3> HIDE DEF f
    <3>3. CASE FillLost(f)
      <4>1. unwritten' \in [Orders -> Nat]
        BY <3>2, <3>3 DEF FillLost, HistoryOK
      <4>2. stale' \subseteq Orders
        BY <3>2, <3>3 DEF FillLost, HistoryOK
      <4> QED
        BY <4>1, <4>2
    <3>4. CASE UNCHANGED rowHistory
      BY <3>4 DEF rowHistory, HistoryOK
    <3> QED
      BY <3>1, <3>3, <3>4
  <2>3. CASE OrderStatus(t)
    <3>1. /\ Handling(t) /\ unwritten' = unwritten
          /\ stale' \in {stale, stale \ {f.order}, stale \cup {f.order}}
      BY <2>3, OrderStatusFacts
    <3>2. f.order \in Orders
      BY <3>1, HeadFacts
    <3> QED
      BY <3>1, <3>2 DEF HistoryOK
  <2> QED
    BY <1>3, <2>1, <2>2, <2>3, RowHistoryMoves
<1>4. ASSUME Restart PROVE unwritten' \in [Orders -> Nat] /\ stale' \subseteq Orders
  <2>1. ASSUME NEW o \in Orders PROVE unwritten[o] + Unbooked(o) \in Nat
    BY FlowIsInt DEF HistoryOK
  <2> DEFINE more(o) == unwritten[o] + Unbooked(o)
  <2>2. unwritten' = [o \in Orders |-> more(o)]
    BY <1>4 DEF Restart
  <2>3. \A o \in Orders : more(o) \in Nat
    BY <2>1
  <2> HIDE DEF more
  <2>4. unwritten' \in [Orders -> Nat]
    BY <2>2, <2>3
  <2>5. stale' \subseteq Orders
    BY <1>4 DEF Restart, HistoryOK
  <2> QED
    BY <2>4, <2>5
<1> QED
  BY <1>1, <1>2, <1>3, <1>4, NextGrouped DEF HistoryOK

LEMMA HistoryInvariant == RunnerSpec => []HistoryOK
<1>1. RunnerInit => HistoryOK
  BY DEF RunnerInit, HistoryOK
<1>2. RunnerInv /\ RunnerInv' /\ HistoryOK /\ [RunnerNext]_runnerVars => HistoryOK'
  BY HistoryStep
<1> QED
  BY <1>1, <1>2, RunnerSpecInvariant, PTL DEF RunnerSpec

LEMMA InvariantIsTyped == RunnerInv /\ HistoryOK => RunnerTypeOK
BY DEF RunnerInv, IInv, SimInv, DataOK, Frame, RowRecord, HistoryOK, RunnerTypeOK

\* Whatever the tasks do and in whatever order, the state of the hot path is
\* well formed: every fill in a task's hands, every row and every position.
THEOREM RunnerTypeCorrect == RunnerSpec => []RunnerTypeOK
BY RunnerSpecInvariant, HistoryInvariant, InvariantIsTyped, PTL

-----------------------------------------------------------------------------
(* FillsReachTracker *)

\* The inventory of order o, as what has left the tasks for the tracker.
BroughtIsOut ==
    \A o \in Orders : \A s \in Sleeves, a \in Assets :
        /\ Brought(o, s, a) \in Int
        /\ Brought(o, s, a) =
              IF sent[o] # NoSignal /\ sent[o].sleeve = s /\ sent[o].asset = a
              THEN Signed(sent[o].side, Out(o) - forgot[o]) ELSE 0

LEMMA SignedIsInt ==
    ASSUME NEW side, NEW x \in Int
    PROVE  Signed(side, x) \in Int
BY DEF Signed

LEMMA SignedAdds ==
    ASSUME NEW side, NEW x \in Int, NEW y \in Int
    PROVE  Signed(side, x + y) = Signed(side, x) + Signed(side, y)
BY DEF Signed

LEMMA SignedZero == ASSUME NEW side PROVE Signed(side, 0) = 0
<1> DEFINE y == Signed(side, 0)
<1>1. 0 \in Int /\ 0 + 0 = 0
  OBVIOUS
<1>2. y \in Int
  BY <1>1, SignedIsInt
<1>3. y = y + y
  BY <1>1, SignedAdds
<1> HIDE DEF y
<1>4. y = 0
  BY <1>2, <1>3
<1> QED
  BY <1>4 DEF y

LEMMA BroughtFacts == RunnerInv => BroughtIsOut
<1> SUFFICES ASSUME RunnerInv, NEW o \in Orders, NEW s \in Sleeves, NEW a \in Assets
             PROVE  /\ Brought(o, s, a) \in Int
                    /\ Brought(o, s, a) =
                          IF sent[o] # NoSignal /\ sent[o].sleeve = s /\ sent[o].asset = a
                          THEN Signed(sent[o].side, Out(o) - forgot[o]) ELSE 0
  BY DEF BroughtIsOut
<1>1. Out(o) \in Int /\ Pending(o) \in Nat /\ SimFilled(o) \in Nat
  BY FlowIsInt
<1>2. forgot[o] \in Nat
  BY DEF RunnerInv, DataOK
<1>3. SimFilled(o) - forgot[o] - Pending(o) = Out(o) - forgot[o] /\ Out(o) - forgot[o] \in Int
  BY <1>1, <1>2 DEF Out
<1>4. Signed(sent[o].side, Out(o) - forgot[o]) \in Int
  BY <1>3, SignedIsInt
<1> QED
  BY <1>3, <1>4 DEF Brought

LEMMA BroughtWillBe == RunnerInv' => BroughtIsOut'
BY BroughtFacts, PTL

\* No task holds a fill of an order that has not been emitted.
LEMMA BlankIsOut ==
    ASSUME RunnerInv, NEW o \in Orders, sent[o] = NoSignal
    PROVE  Out(o) = 0 /\ forgot[o] = 0
<1>1. UntrackedLists \in Lists /\ Pending(o) = Held(UntrackedLists, o)
  BY PendingIsHeld DEF ListsAdded
<1>2. ASSUME NEW t \in Tasks PROVE SizeIn(UntrackedLists[t], o) = 0
  <2>1. TaskOK(t) /\ DataOK
    BY DEF RunnerInv, TasksInv
  <2>2. task[t].fills \in Seq(FillRecord)
    BY <2>1, FrameFacts
  <2>3. \A i \in DOMAIN task[t].fills : task[t].fills[i].order # o
    BY <2>1 DEF TaskOK, Genuine
  <2>4. UntrackedLists[t] = task[t].fills
        \/ (task[t].fills # <<>> /\ UntrackedLists[t] = Tail(task[t].fills))
    BY <2>1 DEF UntrackedLists, ToTrack, TaskOK, Handling
  <2>5. task[t].fills # <<>> => /\ Tail(task[t].fills) \in Seq(FillRecord)
                                /\ \A i \in DOMAIN Tail(task[t].fills) :
                                      Tail(task[t].fills)[i].order # o
    BY <2>2, <2>3, TailFacts
  <2> DEFINE list == UntrackedLists[t]
  <2>6. list \in Seq(FillRecord) /\ \A i \in DOMAIN list : list[i].order # o
    BY <2>2, <2>3, <2>4, <2>5
  <2> HIDE DEF list
  <2>7. SizeIn(list, o) = 0
    BY <2>6, SizeInNone
  <2> QED
    BY <2>7 DEF list
<1> DEFINE F == UntrackedLists
           f == [t \in Tasks |-> SizeIn(F[t], o)]
<1>3. \A t \in Tasks : f[t] = 0
  BY <1>2
<1>4. IsFiniteSet(Tasks)
  BY RunnerAssumption
<1>5. Held(F, o) = Sum(f, Tasks)
  BY DEF Held
<1> HIDE DEF f, F
<1>6. Held(F, o) = 0
  BY <1>3, <1>4, <1>5, SumIsZero
<1>7. filled[o] = 0 /\ took[o] = 0 /\ forgot[o] = 0
  BY DEF RunnerInv, BlankInv, Unsubmitted
<1> QED
  BY <1>1, <1>6, <1>7 DEF Out, SimFilled, F

\* A sum over the orders of what they have brought.
Total(s, a) == Sum([o \in Orders |-> Brought(o, s, a)], Orders)

LEMMA TotalIsSum ==
    ASSUME NEW s, NEW a
    PROVE  SumFunction([o \in Orders |-> Brought(o, s, a)]) = Total(s, a)
<1> DEFINE f == [o \in Orders |-> Brought(o, s, a)]
<1>1. DOMAIN f = Orders
  OBVIOUS
<1> HIDE DEF f
<1>2. SumFunction(f) = Sum(f, Orders)
  BY <1>1 DEF SumFunction, Sum
<1> QED
  BY <1>2 DEF Total, f

Account(s, a) == NetOf(s, a) + settled[s][a]

AccountsInv == \A s \in Sleeves, a \in Assets : Mode[s] = "live_full" => Account(s, a) = Total(s, a)

LEMMA AccountIsInt ==
    ASSUME RunnerInv, NEW s \in Sleeves, NEW a \in Assets
    PROVE  NetOf(s, a) \in Int /\ settled[s][a] \in Int /\ Account(s, a) \in Int
<1>1. NetOf(s, a) \in Int /\ settled[s][a] \in Int
  BY NetIsInt DEF RunnerInv, DataOK
<1> QED
  BY <1>1 DEF Account

\* A step that takes no fill from the tasks to the tracker.
Balanced ==
    /\ \A s \in Sleeves, a \in Assets : Account(s, a)' = Account(s, a)
    /\ \A o \in Orders : Out(o)' = Out(o) /\ forgot'[o] = forgot[o]
    /\ \A o \in Orders : sent'[o] = sent[o] \/ sent[o] = NoSignal

LEMMA BalancedKeeps ==
    ASSUME RunnerInv, RunnerInv', AccountsInv, Balanced
    PROVE  AccountsInv'
<1> SUFFICES ASSUME NEW s \in Sleeves, NEW a \in Assets, Mode[s] = "live_full"
             PROVE  Account(s, a)' = Total(s, a)'
  BY DEF AccountsInv
<1> DEFINE f == [o \in Orders |-> Brought(o, s, a)]
           g == [o \in Orders |-> Brought(o, s, a)']
<1>1. ASSUME NEW o \in Orders PROVE g[o] = f[o]
  <2>1. /\ Brought(o, s, a) =
              IF sent[o] # NoSignal /\ sent[o].sleeve = s /\ sent[o].asset = a
              THEN Signed(sent[o].side, Out(o) - forgot[o]) ELSE 0
        /\ Brought(o, s, a)' =
              IF sent'[o] # NoSignal /\ sent'[o].sleeve = s /\ sent'[o].asset = a
              THEN Signed(sent'[o].side, Out(o)' - forgot'[o]) ELSE 0
    BY BroughtFacts, BroughtWillBe DEF BroughtIsOut
  <2>2. Out(o)' = Out(o) /\ forgot'[o] = forgot[o]
    BY DEF Balanced
  <2>3. CASE sent'[o] = sent[o]
    BY <2>1, <2>2, <2>3
  <2>4. CASE sent[o] = NoSignal
    <3>1. Out(o) - forgot[o] = 0
      BY <2>4, BlankIsOut
    <3>2. \A side : Signed(side, 0) = 0
      BY SignedZero
    <3> QED
      BY <2>1, <2>2, <2>4, <3>1, <3>2
  <2> QED
    BY <2>3, <2>4 DEF Balanced
<1>2. IsFiniteSet(Orders)
  BY OrdersAreFinite
<1>3. Total(s, a) = Sum(f, Orders) /\ Total(s, a)' = Sum(g, Orders)
  BY DEF Total
<1> HIDE DEF f, g
<1>4. Sum(g, Orders) = Sum(f, Orders)
  BY <1>1, <1>2, SumEqual
<1>5. Account(s, a)' = Account(s, a) /\ Account(s, a) = Total(s, a)
  BY DEF Balanced, AccountsInv
<1> QED
  BY <1>3, <1>4, <1>5

\* A step in which the tracker gets the fill f, or the sleeve is kept from it.
Tracked(f) ==
    /\ Delivered(f) /\ settled' = settled /\ forgot' = forgot /\ sent' = sent
    /\ \A o \in Orders : Out(o)' = Out(o) + SizeOf(f, o)

LEMMA TrackedKeeps ==
    ASSUME RunnerInv, RunnerInv', AccountsInv,
           NEW f \in FillRecord, sent[f.order] # NoSignal, Tracked(f)
    PROVE  AccountsInv'
<1> SUFFICES ASSUME NEW s \in Sleeves, NEW a \in Assets, Mode[s] = "live_full"
             PROVE  Account(s, a)' = Total(s, a)'
  BY DEF AccountsInv
<1> DEFINE p == f.order
           sig == sent[p]
           b == [o \in Orders |-> Brought(o, s, a)]
           c == [o \in Orders |-> Brought(o, s, a)']
           mine == sig.sleeve = s /\ sig.asset = a
           d == IF mine THEN Signed(sig.side, f.size) ELSE 0
<1>1. p \in Orders /\ f.size \in Nat
  BY DEF FillRecord
<1>2. ASSUME NEW o \in Orders
      PROVE  /\ b[o] \in Int /\ c[o] \in Int
             /\ b[o] = IF sent[o] # NoSignal /\ sent[o].sleeve = s /\ sent[o].asset = a
                       THEN Signed(sent[o].side, Out(o) - forgot[o]) ELSE 0
             /\ c[o] = IF sent[o] # NoSignal /\ sent[o].sleeve = s /\ sent[o].asset = a
                       THEN Signed(sent[o].side, Out(o)' - forgot[o]) ELSE 0
  <2>1. /\ Brought(o, s, a) \in Int
        /\ Brought(o, s, a) =
              IF sent[o] # NoSignal /\ sent[o].sleeve = s /\ sent[o].asset = a
              THEN Signed(sent[o].side, Out(o) - forgot[o]) ELSE 0
    BY BroughtFacts DEF BroughtIsOut
  <2>2. /\ Brought(o, s, a)' \in Int
        /\ Brought(o, s, a)' =
              IF sent'[o] # NoSignal /\ sent'[o].sleeve = s /\ sent'[o].asset = a
              THEN Signed(sent'[o].side, Out(o)' - forgot'[o]) ELSE 0
    BY BroughtWillBe DEF BroughtIsOut
  <2>3. sent' = sent /\ forgot' = forgot
    BY DEF Tracked
  <2> QED
    BY <2>1, <2>2, <2>3
<1>3. ASSUME NEW o \in Orders, o # p PROVE c[o] = b[o]
  <2>1. Out(o)' = Out(o) + 0 /\ Out(o) \in Int
    BY <1>3, FlowIsInt DEF Tracked, SizeOf
  <2>2. Out(o)' = Out(o)
    BY <2>1
  <2> QED
    BY <1>2, <2>2
<1>4. c[p] = b[p] + d
  <2>1. Out(p)' = Out(p) + f.size /\ Out(p) \in Int /\ forgot[p] \in Nat
    BY <1>1, FlowIsInt DEF Tracked, SizeOf, RunnerInv, DataOK
  <2>2. CASE mine
    <3> DEFINE x == Out(p) - forgot[p]
               y == f.size
    <3>1. x \in Int /\ y \in Int /\ Out(p)' - forgot[p] = x + y
      BY <1>1, <2>1
    <3>2. b[p] = Signed(sig.side, x) /\ c[p] = Signed(sig.side, x + y)
      BY <1>1, <1>2, <2>2, <3>1
    <3>3. Signed(sig.side, x + y) = Signed(sig.side, x) + Signed(sig.side, y)
      BY <3>1, SignedAdds
    <3> QED
      BY <2>2, <3>2, <3>3
  <2>3. CASE ~mine
    BY <1>1, <1>2, <2>3
  <2> QED
    BY <2>2, <2>3
<1>5. d \in Int
  BY <1>1, SignedIsInt
<1>6. Account(s, a)' = Account(s, a) + d
  <2>1. NetOf(s, a) \in Int /\ settled[s][a] \in Int /\ settled' = settled
    BY AccountIsInt DEF Tracked
  <2>2. NetOf(s, a)' = NetOf(s, a) + d
    <3>1. CASE TrackedFill(f)
      BY <2>1, <3>1 DEF TrackedFill
    <3>2. CASE UNCHANGED vars /\ Mode[sig.sleeve] = "live_signal"
      <4>1. ~mine
        BY <3>2
      <4>2. NetOf(s, a)' = NetOf(s, a)
        BY <3>2 DEF vars, NetOf
      <4> QED
        BY <2>1, <4>1, <4>2
    <3> QED
      BY <3>1, <3>2 DEF Tracked, Delivered
  <2> DEFINE n == NetOf(s, a)
             m == settled[s][a]
             n1 == NetOf(s, a)'
  <2>3. n1 + m = (n + m) + d
    <3>1. n \in Int /\ m \in Int /\ n1 = n + d
      BY <2>1, <2>2
    <3> HIDE DEF n, m, n1, d
    <3> QED
      BY <1>5, <3>1
  <2> QED
    BY <2>1, <2>3 DEF Account
<1>7. IsFiniteSet(Orders)
  BY OrdersAreFinite
<1>8. Total(s, a) = Sum(b, Orders) /\ Total(s, a)' = Sum(c, Orders)
  BY DEF Total
<1>9. Account(s, a) = Total(s, a)
  BY DEF AccountsInv
<1> HIDE DEF b, c, d, p
<1>10. Sum(c, Orders) = Sum(b, Orders) + (c[p] - b[p])
  BY <1>1, <1>2, <1>3, <1>7, SumChange
<1>11. Sum(b, Orders) \in Int /\ b[p] \in Int
  BY <1>1, <1>2, <1>7, SumIsInt
<1>12. Sum(c, Orders) = Sum(b, Orders) + d
  BY <1>4, <1>5, <1>10, <1>11
<1> QED
  BY <1>6, <1>8, <1>9, <1>12

\* Every step is balanced, or the tracker gets a fill in it, or it is a crash.
LEMMA StepBalanced ==
    ASSUME RunnerInv, RunnerInv', \A o \in Orders : Out(o)' = Out(o),
           UNCHANGED <<vars, history>>,
           \A o \in Orders : sent'[o] = sent[o] \/ sent[o] = NoSignal
    PROVE  Balanced
<1>1. \A s \in Sleeves, a \in Assets : Account(s, a)' = Account(s, a)
  BY DEF Account, NetOf, vars, history
<1> QED
  BY <1>1 DEF Balanced, history

LEMMA TaskStepAccounts ==
    ASSUME RunnerInv, RunnerInv', AccountsInv, NEW t \in Tasks, TaskStep(t)
    PROVE  AccountsInv'
<1> DEFINE f == Head(task[t].fills)
<1>1. ASSUME Arrives(t), UNCHANGED <<vars, history>>,
             \A o \in Orders : sent'[o] = sent[o] \/ sent[o] = NoSignal
      PROVE  AccountsInv'
  <2>1. \A o \in Orders : Out(o)' = Out(o)
    BY <1>1, ArrivalFlow
  <2> QED
    BY <1>1, <2>1, StepBalanced, BalancedKeeps
<1>2. CASE \E a \in Assets, price \in Prices, size \in PrintSizes : TradePrint(t, a, price, size)
  <2>1. Arrives(t) /\ UNCHANGED <<vars, history>> /\ sent' = sent
    BY <1>2, TradePrintArrives DEF TradePrint
  <2> QED
    BY <1>1, <2>1
<1>3. CASE \E a \in Assets, away \in SUBSET resting : BookMoved(t, a, away)
  <2>1. Arrives(t) /\ UNCHANGED <<vars, history>> /\ sent' = sent
    BY <1>3, BookMovedArrives DEF BookMoved
  <2> QED
    BY <1>1, <2>1
<1>4. CASE \E m \in Markets : \E winner \in Winners(m) : MarketResolved(t, m, winner)
  <2>0. PICK m \in Markets : \E winner \in Winners(m) : MarketResolved(t, m, winner)
    BY <1>4
  <2>1. PICK winner \in Winners(m) : MarketResolved(t, m, winner)
    BY <2>0
  <2>2. /\ forgot' = forgot /\ sent' = sent /\ \A o \in Orders : Out(o)' = Out(o)
    BY <2>1, MarketResolvedFlow
  <2>3. \A s \in Sleeves, a \in Assets :
           NetOf(s, a)' + settled'[s][a] = NetOf(s, a) + settled[s][a]
    BY <2>1, MarketResolvedFacts
  <2>4. Balanced
    BY <2>2, <2>3 DEF Balanced, Account
  <2> QED
    BY <2>4, BalancedKeeps
<1>5. CASE Idles(t)
  <2>1. /\ Arrives(t) /\ UNCHANGED <<vars, history>>
        /\ \A o \in Orders : sent'[o] = sent[o] \/ sent[o] = NoSignal
    BY <1>5, IdlesFacts
  <2> QED
    BY <1>1, <2>1
<1>6. CASE Submits(t)
  <2>1. Arrives(t) /\ UNCHANGED <<vars, history>> /\ sent' = sent
    BY <1>6, SubmitsFacts
  <2> QED
    BY <1>1, <2>1
<1>7. ASSUME Handling(t), Delivered(f), UNCHANGED <<sent, history>>,
             \A o \in Orders : Out(o)' = Out(o) + SizeOf(f, o)
      PROVE  AccountsInv'
  <2>1. Tracked(f)
    BY <1>7 DEF Tracked, history
  <2>2. f \in FillRecord /\ sent[f.order] # NoSignal
    BY <1>7, HeadFacts
  <2> HIDE DEF f
  <2> QED
    BY <2>1, <2>2, TrackedKeeps
<1>8. CASE FillRow(t)
  <2>1. /\ Handling(t) /\ UNCHANGED <<sent, history>>
        /\ \/ UNCHANGED vars /\ \A o \in Orders : Out(o)' = Out(o)
           \/ Delivered(f) /\ \A o \in Orders : Out(o)' = Out(o) + SizeOf(f, o)
    BY <1>8, FillRowFlow
  <2>2. CASE UNCHANGED vars /\ \A o \in Orders : Out(o)' = Out(o)
    <3>1. UNCHANGED <<vars, history>> /\ sent' = sent
      BY <2>1, <2>2
    <3> QED
      BY <2>2, <3>1, StepBalanced, BalancedKeeps
  <2>3. CASE Delivered(f) /\ \A o \in Orders : Out(o)' = Out(o) + SizeOf(f, o)
    BY <1>7, <2>1, <2>3
  <2> QED
    BY <2>1, <2>2, <2>3
<1>9. CASE OrderStatus(t)
  <2>1. /\ Handling(t) /\ UNCHANGED <<sent, history>> /\ Delivered(f)
        /\ \A o \in Orders : Out(o)' = Out(o) + SizeOf(f, o)
    BY <1>9, OrderStatusFlow
  <2> QED
    BY <1>7, <2>1
<1>10. CASE BuyRow(t) \/ SellRow(t)
  <2>1. UNCHANGED <<vars, history>> /\ sent' = sent /\ \A o \in Orders : Out(o)' = Out(o)
    BY <1>10, PositionRowsFlow
  <2> QED
    BY <2>1, StepBalanced, BalancedKeeps
<1> QED
  BY <1>2, <1>3, <1>4, <1>5, <1>6, <1>8, <1>9, <1>10 DEF TaskStep

\* After a crash the tracker is empty, and what was filled is forgotten.
LEMMA RestartAccounts ==
    ASSUME RunnerInv, RunnerInv', Restart
    PROVE  AccountsInv'
<1> SUFFICES ASSUME NEW s \in Sleeves, NEW a \in Assets
             PROVE  Account(s, a)' = Total(s, a)'
  BY DEF AccountsInv
<1>1. Account(s, a)' = 0
  <2>1. <<s, a, "buy">> \in Keys /\ <<s, a, "sell">> \in Keys
    BY SideKeys
  <2>2. positions'[<<s, a, "buy">>].size = 0 /\ positions'[<<s, a, "sell">>].size = 0
    BY <2>1 DEF Restart, NoPosition
  <2>3. settled'[s][a] = 0
    BY DEF Restart
  <2> QED
    BY <2>2, <2>3 DEF Account, NetOf
<1> DEFINE g == [o \in Orders |-> Brought(o, s, a)']
<1>2. ASSUME NEW o \in Orders PROVE g[o] = 0
  <2>1. /\ Brought(o, s, a)' =
              IF sent'[o] # NoSignal /\ sent'[o].sleeve = s /\ sent'[o].asset = a
              THEN Signed(sent'[o].side, Out(o)' - forgot'[o]) ELSE 0
    BY BroughtWillBe DEF BroughtIsOut
  <2>2. Out(o)' = SimFilled(o) /\ SimFilled(o) \in Nat
    BY RestartFlow, SimFilledIsNat
  <2>3. forgot'[o] = SimFilled(o)
    BY DEF Restart, SimFilled
  <2>4. Out(o)' - forgot'[o] = 0
    BY <2>2, <2>3
  <2> QED
    BY <2>1, <2>4, SignedZero
<1>3. IsFiniteSet(Orders)
  BY OrdersAreFinite
<1>4. Total(s, a)' = Sum(g, Orders)
  BY DEF Total
<1> HIDE DEF g
<1>5. Sum(g, Orders) = 0
  BY <1>2, <1>3, SumIsZero
<1> QED
  BY <1>1, <1>4, <1>5

LEMMA AccountsStep ==
    RunnerInv /\ RunnerInv' /\ AccountsInv /\ [RunnerNext]_runnerVars => AccountsInv'
<1> SUFFICES ASSUME RunnerInv, RunnerInv', AccountsInv, [RunnerNext]_runnerVars
             PROVE  AccountsInv'
  OBVIOUS
<1>1. CASE \E t \in Tasks : TaskStep(t)
  BY <1>1, TaskStepAccounts
<1>2. CASE Restart
  BY <1>2, RestartAccounts
<1>3. CASE UNCHANGED runnerVars
  <2>1. /\ UNCHANGED <<vars, history>> /\ sent' = sent /\ task' = task
        /\ filled' = filled /\ took' = took
    BY <1>3 DEF runnerVars, simVars
  <2>2. \A u \in Tasks : Keeps(u)
    BY <2>1 DEF Keeps
  <2>3. ASSUME NEW o \in Orders PROVE Out(o)' = Out(o)
    BY <2>1, <2>2, HeldSame DEF SimFilled, Out
  <2> QED
    BY <2>1, <2>3, StepBalanced, BalancedKeeps
<1> QED
  BY <1>1, <1>2, <1>3, NextGrouped

LEMMA AccountsInit == RunnerInit /\ RunnerInv => AccountsInv
<1> SUFFICES ASSUME RunnerInit, RunnerInv, NEW s \in Sleeves, NEW a \in Assets
             PROVE  Account(s, a) = Total(s, a)
  BY DEF AccountsInv
<1>1. Account(s, a) = 0
  <2>1. <<s, a, "buy">> \in Keys /\ <<s, a, "sell">> \in Keys
    BY SideKeys
  <2>2. positions[<<s, a, "buy">>].size = 0 /\ positions[<<s, a, "sell">>].size = 0
    BY <2>1 DEF RunnerInit, Init, NoPosition
  <2>3. settled[s][a] = 0
    BY DEF RunnerInit
  <2> QED
    BY <2>2, <2>3 DEF Account, NetOf
<1> DEFINE f == [o \in Orders |-> Brought(o, s, a)]
<1>2. \A o \in Orders : f[o] = 0
  BY DEF RunnerInit, Brought
<1>3. IsFiniteSet(Orders) /\ Total(s, a) = Sum(f, Orders)
  BY OrdersAreFinite DEF Total
<1> HIDE DEF f
<1>4. Sum(f, Orders) = 0
  BY <1>2, <1>3, SumIsZero
<1> QED
  BY <1>1, <1>3, <1>4

LEMMA AccountsInvariant == RunnerSpec => []AccountsInv
<1>1. RunnerInit /\ RunnerInv => AccountsInv
  BY AccountsInit
<1>2. RunnerInv /\ RunnerInv' /\ AccountsInv /\ [RunnerNext]_runnerVars => AccountsInv'
  BY AccountsStep
<1> QED
  BY <1>1, <1>2, RunnerSpecInvariant, PTL DEF RunnerSpec

\* However the tasks interleave, whatever resolves meanwhile and whichever
\* writes fail, and from one crash of the process to the next: a live_full
\* sleeve holds or has been paid out exactly what the simulator has filled for
\* it since the process booted, less the fills that a task is still carrying.
\* _on_event and _handle_fill (main.py) lose no fill and apply none twice.
THEOREM EveryFillIsTracked == RunnerSpec => []FillsReachTracker
<1>1. AccountsInv => FillsReachTracker
  BY TotalIsSum DEF AccountsInv, Account, FillsReachTracker
<1> QED
  BY <1>1, AccountsInvariant, PTL

-----------------------------------------------------------------------------
(* RowsCatchUp *)

HasFill(fills, o) == \E i \in DOMAIN fills : fills[i].order = o
HasMark(fills, o) == \E i \in DOMAIN fills : fills[i].order = o /\ fills[i].kind = "missed"

\* A task is between the two statements of insert_fill, with a fill of o.
Awaits(t, o) == LET f == Head(task[t].fills) IN
                At(t, "order status") /\ f.order = o /\ f.kind # "missed"
StatusAwaited(o) == \E t \in Tasks : Awaits(t, o)

\* A MISSED mark of o is on its way.
MarkPending(o) == \E t \in Tasks : HasMark(ToTrack(task[t]), o)

\* The fill rows, and the fills that were lost, are the fills that were put.
AmountRight(o) == row[o].done + unwritten[o] = Put(o)

\* The status is right, but for what is still on its way or has been lost.
StatusRight(o) ==
    /\ row[o].status = "cancelled" => o \in missed
    /\ row[o].status # "none" /\ o \notin stale =>
          /\ ~StatusAwaited(o) => IF row[o].done = 0 THEN row[o].status \in {"open", "cancelled"}
                                  ELSE row[o].status = StatusOf(o, row[o].done)
          /\ o \in missed /\ row[o].done = 0 /\ ~MarkPending(o) => row[o].status = "cancelled"

CatchUpInv == \A o \in Orders : AmountRight(o) /\ StatusRight(o)

\* What a step that leaves the row of o alone has to leave of the rest.
OnItsWay(o) ==
    /\ sent'[o] = sent[o] \/ sent[o] = NoSignal
    /\ o \in stale => o \in stale'
    /\ StatusAwaited(o) => StatusAwaited(o)' \/ o \in stale'
    /\ MarkPending(o) => MarkPending(o)' \/ o \in stale'
    /\ o \in missed => o \in missed'
    /\ o \in missed' => o \in missed \/ MarkPending(o)'

LEMMA StatusStays ==
    ASSUME RunnerInv, NEW o \in Orders, StatusRight(o), row'[o] = row[o], OnItsWay(o)
    PROVE  StatusRight(o)'
<1>1. CASE row[o].status = "none"
  BY <1>1 DEF StatusRight
<1>2. CASE row[o].status # "none"
  <2>1. sent'[o] = sent[o]
    BY <1>2 DEF OnItsWay, RunnerInv, BlankInv, NoRow
  <2>2. StatusOf(o, row[o].done)' = StatusOf(o, row[o].done)
    BY <2>1 DEF StatusOf
  <2>3. row'[o].status = "cancelled" => o \in missed'
    BY DEF StatusRight, OnItsWay
  <2>4. ASSUME o \notin stale', ~StatusAwaited(o)'
        PROVE  IF row[o].done = 0 THEN row[o].status \in {"open", "cancelled"}
               ELSE row[o].status = StatusOf(o, row[o].done)
    BY <1>2, <2>4 DEF StatusRight, OnItsWay
  <2>5. ASSUME o \notin stale', o \in missed', row[o].done = 0, ~MarkPending(o)'
        PROVE  row[o].status = "cancelled"
    BY <1>2, <2>5 DEF StatusRight, OnItsWay
  <2> QED
    BY <2>2, <2>3, <2>4, <2>5 DEF StatusRight
<1> QED
  BY <1>1, <1>2

\* What the other tasks hold stays on its way in a step of task t.
LEMMA AwaitsStays ==
    ASSUME NEW t \in Tasks, Others(t), NEW o, Awaits(t, o) => Awaits(t, o)'
    PROVE  StatusAwaited(o) => StatusAwaited(o)'
<1>1. \A u \in Tasks : u # t /\ Awaits(u, o) => Awaits(u, o)'
  BY DEF Others, Keeps, Awaits, At
<1> QED
  BY <1>1 DEF StatusAwaited

LEMMA MarkStays ==
    ASSUME NEW t \in Tasks, Others(t), NEW o,
           HasMark(ToTrack(task[t]), o) => HasMark(ToTrack(task'[t]), o)
    PROVE  MarkPending(o) => MarkPending(o)'
<1>1. \A u \in Tasks : u # t => ToTrack(task'[u]) = ToTrack(task[u])
  BY DEF Others, Keeps, ToTrack
<1> QED
  BY <1>1 DEF MarkPending, HasMark

\* Handling the first fill takes none of the others away.
LEMMA MarkAfterHead ==
    ASSUME NEW fills \in Seq(FillRecord), fills # <<>>, NEW o, HasMark(fills, o),
           Head(fills).order # o \/ Head(fills).kind # "missed"
    PROVE  HasMark(Tail(fills), o)
<1> DEFINE rest == Tail(fills)
<1>1. /\ DOMAIN fills = 1 .. Len(fills) /\ Len(fills) \in Nat
      /\ Head(fills) = fills[1]
      /\ rest \in Seq(FillRecord) /\ Len(rest) = Len(fills) - 1
      /\ \A i \in DOMAIN rest : rest[i] = fills[i + 1]
  BY FillsAreFinite, TailFacts
<1>2. DOMAIN rest = 1 .. Len(rest)
  BY <1>1, FillsAreFinite
<1>3. PICK i \in DOMAIN fills : fills[i].order = o /\ fills[i].kind = "missed"
  BY DEF HasMark
<1> HIDE DEF rest
<1>4. i # 1
  BY <1>1, <1>3
<1>5. i - 1 \in DOMAIN rest /\ (i - 1) + 1 = i
  BY <1>1, <1>2, <1>3, <1>4
<1>6. rest[i - 1] = fills[i]
  BY <1>1, <1>5
<1> QED
  BY <1>3, <1>5, <1>6 DEF HasMark, rest

LEMMA NoMark == ASSUME NEW o PROVE ~HasMark(<<>>, o)
BY EmptyList DEF HasMark

\* The actions in which nothing is written of an order but its own row.
Unwriting(t) == TaskStep(t) /\ ~FillRow(t) /\ ~OrderStatus(t)

LEMMA UnwritingHistory ==
    ASSUME NEW t \in Tasks, Unwriting(t)
    PROVE  unwritten' = unwritten /\ stale' = stale
BY RowHistoryMoves DEF Unwriting, rowHistory

\* An arrival: the new fills and marks are on their way, and the old still are.
LEMMA ArrivalOnItsWay ==
    ASSUME RunnerInv, NEW t \in Tasks, Arrives(t), stale' = stale, NEW o \in Orders,
           sent'[o] = sent[o] \/ sent[o] = NoSignal,
           o \in missed => o \in missed',
           o \in missed' => o \in missed \/ HasMark(task'[t].fills, o)
    PROVE  OnItsWay(o)
<1>1. ToTrack(task[t]) = <<>> /\ ToTrack(task'[t]) = task'[t].fills /\ Others(t)
  BY DEF Arrives, Handling, ToTrack
<1>2. ~Awaits(t, o)
  BY DEF Arrives, Handling, Awaits, At
<1>3. StatusAwaited(o) => StatusAwaited(o)'
  BY <1>1, <1>2, AwaitsStays
<1>4. MarkPending(o) => MarkPending(o)'
  BY <1>1, NoMark, MarkStays
<1>5. HasMark(task'[t].fills, o) => MarkPending(o)'
  BY <1>1 DEF MarkPending
<1> QED
  BY <1>3, <1>4, <1>5 DEF OnItsWay

LEMMA PrintOnItsWay ==
    ASSUME RunnerInv, NEW t \in Tasks, stale' = stale, NEW o \in Orders,
           \E a \in Assets, price \in Prices, size \in PrintSizes : TradePrint(t, a, price, size)
    PROVE  OnItsWay(o) /\ Arrives(t) /\ row' = row
<1>1. PICK a \in Assets, price \in Prices, size \in PrintSizes : TradePrint(t, a, price, size)
  OBVIOUS
<1>2. sent' = sent /\ row' = row /\ Sim!TradePrint(a, price, size) /\ UNCHANGED <<placed, took>>
  BY <1>1 DEF TradePrint, dbVars
<1>3. missed' = missed
  BY <1>2, SimTradePrint DEF RunnerInv
<1>4. Arrives(t)
  BY <1>1, TradePrintArrives
<1> QED
  BY <1>2, <1>3, <1>4, ArrivalOnItsWay

LEMMA MoveOnItsWay ==
    ASSUME RunnerInv, NEW t \in Tasks, stale' = stale, NEW o \in Orders,
           \E a \in Assets, away \in SUBSET resting : BookMoved(t, a, away)
    PROVE  OnItsWay(o) /\ Arrives(t) /\ row' = row
<1>1. PICK a \in Assets, away \in SUBSET resting : BookMoved(t, a, away)
  OBVIOUS
<1>2. sent' = sent /\ row' = row /\ Sim!BookMoved(away) /\ UNCHANGED <<placed, took>>
  BY <1>1 DEF BookMoved, dbVars
<1>3. missed' = missed \cup away
  BY <1>2, SimBookMoved DEF RunnerInv
<1>4. PICK fills : Arrives(t) /\ Marked(fills) /\ task'[t].fills = fills
  BY <1>1, BookMovedArrives
<1>5. o \in missed' => o \in missed \/ HasMark(task'[t].fills, o)
  BY <1>4 DEF Marked, HasMark
<1> QED
  BY <1>2, <1>3, <1>4, <1>5, ArrivalOnItsWay

LEMMA IdlesOnItsWay ==
    ASSUME RunnerInv, NEW t \in Tasks, stale' = stale, NEW o \in Orders, Idles(t)
    PROVE  OnItsWay(o) /\ Arrives(t) /\ row' = row
<1>1. /\ Arrives(t) /\ row' = row /\ missed' = missed
      /\ \A p \in Orders : sent'[p] = sent[p] \/ sent[p] = NoSignal
  BY IdlesFacts DEF simVars, dbVars
<1> QED
  BY <1>1, ArrivalOnItsWay

LEMMA SubmitsOnItsWay ==
    ASSUME RunnerInv, NEW t \in Tasks, stale' = stale, NEW o \in Orders, Submits(t)
    PROVE  /\ OnItsWay(o) /\ Arrives(t)
           /\ \/ row'[o] = row[o]
              \/ /\ row'[o].status = "open" /\ row'[o].done = 0 /\ row[o].done = 0
                 /\ o \notin missed'
<1>1. PICK p : p = task[t].cur
  OBVIOUS
<1>2. /\ Arrives(t) /\ InFlight(t) /\ p \in Orders /\ sent' = sent /\ missed' = missed
  BY <1>1, SubmitsFacts
<1>3. Unsubmitted(p)
  BY <1>1, <1>2, InFlightFacts
<1>4. p \notin missed
  BY <1>3 DEF Unsubmitted, RunnerInv, SimInv, Sim!MakerTypeOK
<1>5. DataOK /\ RowOpened(p)
  BY <1>1, RowWritten DEF RunnerInv, Submits, Refreshed, RowOpened, dbVars
<1>6. /\ \A q \in Orders : q # p => row'[q] = row[q]
      /\ row' = row \/ row'[p].status = "open"
      /\ row'[p].done = row[p].done
  <2>1. row \in [Orders -> RowRecord]
    BY <1>5 DEF DataOK
  <2>2. row' = [row EXCEPT ![p].status = "open"] => row'[p].status = "open"
    BY <1>2, <2>1 DEF RowRecord
  <2> QED
    BY <1>2, <1>5, <2>2, RowOpenedFacts DEF RowOpened
<1>7. OnItsWay(o)
  BY <1>2, ArrivalOnItsWay
<1> QED
  BY <1>2, <1>3, <1>4, <1>6, <1>7 DEF Unsubmitted

LEMMA PositionRowsOnTheirWay ==
    ASSUME RunnerInv, RunnerInv', NEW t \in Tasks, stale' = stale, NEW o \in Orders,
           BuyRow(t) \/ SellRow(t)
    PROVE  OnItsWay(o) /\ row' = row /\ Put(o)' = Put(o)
<1>1. /\ Others(t) /\ row' = row /\ sent' = sent /\ missed' = missed
      /\ ToTrack(task'[t]) = ToTrack(task[t]) /\ Put(o)' = Put(o)
  BY PositionRowsFlow DEF simVars
<1>2. ~Awaits(t, o)
  BY DEF BuyRow, SellRow, Awaits, At
<1>3. StatusAwaited(o) => StatusAwaited(o)'
  BY <1>1, <1>2, AwaitsStays
<1>4. MarkPending(o) => MarkPending(o)'
  BY <1>1, MarkStays
<1> QED
  BY <1>1, <1>3, <1>4 DEF OnItsWay

LEMMA TasksKeptOnTheirWay ==
    ASSUME \A u \in Tasks : Keeps(u), stale' = stale, missed' = missed, sent' = sent, NEW o
    PROVE  OnItsWay(o)
<1>1. \A u \in Tasks : ToTrack(task'[u]) = ToTrack(task[u]) /\ (Awaits(u, o) => Awaits(u, o)')
  BY DEF Keeps, ToTrack, Awaits, At
<1> QED
  BY <1>1 DEF OnItsWay, StatusAwaited, MarkPending

LEMMA UnwritingCatchUp ==
    ASSUME RunnerInv, RunnerInv', CatchUpInv, NEW t \in Tasks, Unwriting(t)
    PROVE  CatchUpInv'
<1> SUFFICES ASSUME NEW o \in Orders PROVE AmountRight(o)' /\ StatusRight(o)'
  BY DEF CatchUpInv
<1>1. unwritten' = unwritten /\ stale' = stale
  BY UnwritingHistory
<1>2. AmountRight(o) /\ StatusRight(o)
  BY DEF CatchUpInv
<1>3. ASSUME row'[o] = row[o], Put(o)' = Put(o), OnItsWay(o)
      PROVE  AmountRight(o)' /\ StatusRight(o)'
  BY <1>1, <1>2, <1>3, StatusStays DEF AmountRight
<1>4. CASE \E a \in Assets, price \in Prices, size \in PrintSizes : TradePrint(t, a, price, size)
  <2>1. OnItsWay(o) /\ Arrives(t) /\ row' = row
    BY <1>1, <1>4, PrintOnItsWay
  <2> QED
    BY <1>3, <2>1, ArrivalFlow
<1>5. CASE \E a \in Assets, away \in SUBSET resting : BookMoved(t, a, away)
  <2>1. OnItsWay(o) /\ Arrives(t) /\ row' = row
    BY <1>1, <1>5, MoveOnItsWay
  <2> QED
    BY <1>3, <2>1, ArrivalFlow
<1>6. CASE Idles(t)
  <2>1. OnItsWay(o) /\ Arrives(t) /\ row' = row
    BY <1>1, <1>6, IdlesOnItsWay
  <2> QED
    BY <1>3, <2>1, ArrivalFlow
<1>7. CASE BuyRow(t) \/ SellRow(t)
  BY <1>1, <1>3, <1>7, PositionRowsOnTheirWay
<1>8. CASE \E m \in Markets : \E winner \in Winners(m) : MarketResolved(t, m, winner)
  <2>1. /\ \A u \in Tasks : Keeps(u)
        /\ missed' = missed /\ row' = row /\ sent' = sent /\ Put(o)' = Put(o)
    BY <1>8, MarketResolvedFlow DEF dbVars, simVars
  <2> QED
    BY <1>1, <1>3, <2>1, TasksKeptOnTheirWay
<1>9. CASE Submits(t)
  <2>1. /\ OnItsWay(o) /\ Arrives(t)
        /\ \/ row'[o] = row[o]
           \/ /\ row'[o].status = "open" /\ row'[o].done = 0 /\ row[o].done = 0
              /\ o \notin missed'
    BY <1>1, <1>9, SubmitsOnItsWay
  <2>2. Put(o)' = Put(o)
    BY <2>1, ArrivalFlow
  <2>3. CASE /\ row'[o].status = "open" /\ row'[o].done = 0 /\ row[o].done = 0
             /\ o \notin missed'
    <3>1. AmountRight(o)'
      BY <1>1, <1>2, <2>2, <2>3 DEF AmountRight
    <3>2. StatusRight(o)'
      BY <2>3 DEF StatusRight
    <3> QED
      BY <3>1, <3>2
  <2> QED
    BY <1>3, <2>1, <2>2, <2>3
<1> QED
  BY <1>4, <1>5, <1>6, <1>7, <1>8, <1>9 DEF Unwriting, TaskStep

\* insert_fill, first statement: the fill is on its row, and its status is
\* awaited; or it is lost, and with a mark the status that it should have set.
LEMMA FillRowCatchUp ==
    ASSUME RunnerInv, RunnerInv', HistoryOK, CatchUpInv, NEW t \in Tasks, FillRow(t)
    PROVE  CatchUpInv'
<1> SUFFICES ASSUME NEW o \in Orders PROVE AmountRight(o)' /\ StatusRight(o)'
  BY DEF CatchUpInv
<1> DEFINE f == Head(task[t].fills)
<1>1. /\ Handling(t) /\ Others(t) /\ sent' = sent /\ missed' = missed
      /\ SizeOf(f, o) \in Nat /\ Put(o)' = Put(o) + SizeOf(f, o)
      /\ \/ /\ FillWritten(t) /\ UNCHANGED rowHistory
            /\ task'[t].at = "order status" /\ task'[t].fills = task[t].fills
            /\ ToTrack(task[t]) = task[t].fills /\ ToTrack(task'[t]) = task[t].fills
         \/ row' = row /\ FillLost(f) /\ Inserted(t)
  BY FillRowFlow DEF simVars
<1>2. /\ f \in FillRecord /\ f.order \in Orders /\ f.size \in Nat /\ Genuine(f)
      /\ task[t].fills # <<>> /\ task[t].fills \in Seq(FillRecord)
  BY <1>1, HeadFacts
<1>3. AmountRight(o) /\ StatusRight(o) /\ ~Awaits(t, o)
  BY DEF CatchUpInv, FillRow, Awaits, At
<1>4. row[o].done \in Nat /\ Put(o) \in Int /\ unwritten[o] \in Nat
  BY FlowIsInt DEF RunnerInv, DataOK, RowRecord, HistoryOK
<1>5. StatusAwaited(o) => StatusAwaited(o)'
  BY <1>1, <1>3, AwaitsStays
<1>6. CASE /\ FillWritten(t) /\ UNCHANGED rowHistory
           /\ task'[t].at = "order status" /\ task'[t].fills = task[t].fills
           /\ ToTrack(task[t]) = task[t].fills /\ ToTrack(task'[t]) = task[t].fills
  <2>1. row'[o].done = row[o].done + SizeOf(f, o) /\ row'[o].status = row[o].status
    <3>1. CASE o = f.order
      BY <1>6, <3>1 DEF FillWritten, SizeOf
    <3>2. CASE o # f.order
      <4>1. row'[o] = row[o] /\ SizeOf(f, o) = 0
        BY <3>2, FillRowFacts DEF SizeOf
      <4> QED
        BY <1>4, <4>1
    <3> QED
      BY <3>1, <3>2
  <2>2. AmountRight(o)'
    <3> DEFINE n == row[o].done
               u == unwritten[o]
               p == Put(o)
               d == SizeOf(f, o)
    <3>1. n \in Nat /\ u \in Nat /\ p \in Int /\ d \in Nat /\ n + u = p
      BY <1>1, <1>3, <1>4 DEF AmountRight
    <3>2. (n + d) + u = p + d
      <4> HIDE DEF n, u, p, d
      <4> QED
        BY <3>1
    <3> QED
      BY <1>1, <1>6, <2>1, <3>2 DEF AmountRight, rowHistory
  <2>3. MarkPending(o) => MarkPending(o)'
    BY <1>1, <1>6, MarkStays
  <2>4. CASE SizeOf(f, o) = 0
    <3>1. row'[o].done = row[o].done
      BY <1>4, <2>1, <2>4
    <3>2. OnItsWay(o)
      BY <1>1, <1>5, <1>6, <2>3 DEF OnItsWay, rowHistory
    <3>3. row'[o] = row[o]
      <4>1. row[o] \in RowRecord /\ row'[o] \in RowRecord
        BY DEF RunnerInv, DataOK
      <4> QED
        BY <2>1, <3>1, <4>1 DEF RowRecord
    <3> QED
      BY <1>3, <2>2, <3>2, <3>3, StatusStays
  <2>5. CASE SizeOf(f, o) # 0
    <3>1. f.order = o /\ f.kind # "missed"
      BY <1>2, <2>5 DEF SizeOf, Genuine
    <3>2. Awaits(t, o)'
      BY <1>6, <3>1 DEF Awaits, At
    <3>3. row'[o].done # 0
      <4> DEFINE n == row[o].done
                 d == SizeOf(f, o)
      <4>1. n \in Nat /\ d \in Nat /\ d # 0 /\ row'[o].done = n + d
        BY <1>1, <1>4, <2>1, <2>5
      <4>2. n + d # 0
        <5> HIDE DEF n, d
        <5> QED
          BY <4>1
      <4> QED
        BY <4>1, <4>2
    <3>4. StatusAwaited(o)' /\ (row'[o].status = "cancelled" => o \in missed')
      BY <1>1, <1>3, <2>1, <3>2 DEF StatusAwaited, StatusRight
    <3> QED
      BY <2>2, <3>3, <3>4 DEF StatusRight
  <2> QED
    BY <2>4, <2>5
<1>7. CASE row' = row /\ FillLost(f) /\ Inserted(t)
  <2>1. AmountRight(o)'
    <3>1. unwritten'[o] = unwritten[o] + SizeOf(f, o)
      <4>1. unwritten \in [Orders -> Nat]
        BY DEF HistoryOK
      <4>2. CASE o = f.order
        BY <1>7, <4>1, <4>2 DEF FillLost, SizeOf
      <4>3. CASE o # f.order
        BY <1>4, <1>7, <4>1, <4>3 DEF FillLost, SizeOf
      <4> QED
        BY <4>2, <4>3
    <3> DEFINE n == row[o].done
               u == unwritten[o]
               p == Put(o)
               d == SizeOf(f, o)
    <3>2. n \in Nat /\ u \in Nat /\ p \in Int /\ d \in Nat /\ n + u = p
      BY <1>1, <1>3, <1>4 DEF AmountRight
    <3>3. n + (u + d) = p + d
      <4> HIDE DEF n, u, p, d
      <4> QED
        BY <3>2
    <3> QED
      BY <1>1, <1>7, <3>1, <3>3 DEF AmountRight
  <2>2. MarkPending(o) => MarkPending(o)' \/ o \in stale'
    <3>1. ToTrack(task[t]) = task[t].fills /\ ToTrack(task'[t]) = Tail(task[t].fills)
      BY <1>1, <1>7, InsertedFlow DEF FillRow, ToTrack, At
    <3>2. CASE f.kind = "missed" /\ f.order = o
      BY <1>7, <3>2 DEF FillLost
    <3>3. CASE f.kind # "missed" \/ f.order # o
      <4>1. HasMark(ToTrack(task[t]), o) => HasMark(ToTrack(task'[t]), o)
        BY <1>2, <3>1, <3>3, MarkAfterHead
      <4> QED
        BY <1>1, <4>1, MarkStays
    <3> QED
      BY <3>2, <3>3
  <2>3. OnItsWay(o)
    BY <1>1, <1>5, <1>7, <2>2 DEF OnItsWay, FillLost
  <2> QED
    BY <1>3, <1>7, <2>1, <2>3, StatusStays
<1> QED
  BY <1>1, <1>6, <1>7

\* insert_fill, second statement: the status follows from the fill rows, or it
\* is stale.
LEMMA OrderStatusCatchUp ==
    ASSUME RunnerInv, RunnerInv', RowsInv, CatchUpInv, NEW t \in Tasks, OrderStatus(t)
    PROVE  CatchUpInv'
<1> SUFFICES ASSUME NEW o \in Orders PROVE AmountRight(o)' /\ StatusRight(o)'
  BY DEF CatchUpInv
<1> DEFINE f == Head(task[t].fills)
<1>1. /\ Handling(t) /\ Others(t) /\ sent' = sent /\ missed' = missed
      /\ Inserted(t) /\ Put(o)' = Put(o)
  BY OrderStatusFlow DEF simVars
<1>2. /\ f \in FillRecord /\ f.order \in Orders /\ Genuine(f)
      /\ task[t].fills # <<>> /\ task[t].fills \in Seq(FillRecord)
  BY <1>1, HeadFacts
<1>3. /\ unwritten' = unwritten
      /\ \A p \in Orders : p # f.order => row'[p] = row[p]
      /\ row'[f.order].done = row[f.order].done
      /\ \/ /\ row'[f.order].status = NewStatus(f)
            /\ stale' = IF f.kind = "missed" THEN stale ELSE stale \ {f.order}
         \/ row' = row /\ stale' = stale \cup {f.order}
  BY OrderStatusFacts
<1>4. AmountRight(o) /\ StatusRight(o)
  BY DEF CatchUpInv
<1>5. AmountRight(o)'
  <2>1. row'[o].done = row[o].done
    BY <1>3
  <2> QED
    BY <1>1, <1>3, <1>4, <2>1 DEF AmountRight
<1>6. ToTrack(task[t]) = task[t].fills /\ ToTrack(task'[t]) = Tail(task[t].fills)
  BY <1>1, InsertedFlow DEF OrderStatus, ToTrack, At
<1>7. /\ f.order # o \/ f.kind = "missed" => (StatusAwaited(o) => StatusAwaited(o)')
      /\ f.order # o \/ f.kind # "missed" => (MarkPending(o) => MarkPending(o)')
  <2>1. f.order # o \/ f.kind = "missed" => ~Awaits(t, o)
    BY DEF Awaits
  <2>2. f.order # o \/ f.kind # "missed" =>
           (HasMark(ToTrack(task[t]), o) => HasMark(ToTrack(task'[t]), o))
    BY <1>2, <1>6, MarkAfterHead
  <2> QED
    BY <1>1, <2>1, <2>2, AwaitsStays, MarkStays
<1>8. CASE f.order # o
  <2>1. o \in stale <=> o \in stale'
    BY <1>3, <1>8
  <2>2. OnItsWay(o)
    BY <1>1, <1>7, <1>8, <2>1 DEF OnItsWay
  <2> QED
    BY <1>3, <1>4, <1>5, <1>8, <2>2, StatusStays
<1>9. CASE f.order = o /\ row' = row /\ stale' = stale \cup {f.order}
  <2>1. OnItsWay(o)
    BY <1>1, <1>9 DEF OnItsWay
  <2> QED
    BY <1>4, <1>5, <1>9, <2>1, StatusStays
<1>10. CASE /\ f.order = o /\ row'[o].status = NewStatus(f)
            /\ stale' = IF f.kind = "missed" THEN stale ELSE stale \ {f.order}
  <2>1. row[o].status # "none" /\ row[o].done \in Nat /\ (f.kind # "missed" => row[o].done > 0)
    BY <1>10 DEF RowsInv, Written, OrderStatus, RunnerInv, DataOK, RowRecord
  <2>2. StatusOf(o, row[o].done)' = StatusOf(o, row[o].done) /\ row'[o].done = row[o].done
    BY <1>1, <1>3, <1>10 DEF StatusOf
  <2>3. CASE f.kind # "missed"
    <3>1. row'[o].status = StatusOf(o, row[o].done) /\ row[o].done # 0
      BY <1>10, <2>1, <2>3 DEF NewStatus
    <3>2. StatusOf(o, row[o].done) # "cancelled"
      BY DEF StatusOf
    <3> QED
      BY <1>5, <2>2, <3>1, <3>2 DEF StatusRight
  <2>4. CASE f.kind = "missed"
    <3>1. /\ row'[o].status = IF row[o].status = "open" THEN "cancelled" ELSE row[o].status
          /\ stale' = stale /\ o \in missed
      BY <1>2, <1>10, <2>4 DEF NewStatus, Genuine
    <3>2. ASSUME row[o].done = 0 PROVE ~StatusAwaited(o)
      <4>1. ASSUME NEW u \in Tasks, Awaits(u, o) PROVE row[o].done > 0
        BY <4>1 DEF RowsInv, Written, Awaits
      <4> QED
        BY <3>2, <4>1 DEF StatusAwaited
    <3>3. ASSUME o \notin stale, ~StatusAwaited(o)
          PROVE  IF row[o].done = 0 THEN row'[o].status = "cancelled"
                 ELSE row'[o].status = StatusOf(o, row[o].done)
      <4>1. IF row[o].done = 0 THEN row[o].status \in {"open", "cancelled"}
                               ELSE row[o].status = StatusOf(o, row[o].done)
        BY <1>4, <2>1, <3>3 DEF StatusRight
      <4>2. row[o].done # 0 => StatusOf(o, row[o].done) # "open"
        <5>1. row[o].done # 0 => row[o].done > 0
          BY <2>1
        <5> QED
          BY <5>1 DEF StatusOf
      <4> QED
        BY <3>1, <4>1, <4>2
    <3>4. StatusAwaited(o) => StatusAwaited(o)'
      BY <1>7, <2>4
    <3> QED
      BY <1>1, <1>5, <2>2, <3>1, <3>2, <3>3, <3>4 DEF StatusRight
  <2> QED
    BY <2>3, <2>4
<1> QED
  BY <1>3, <1>8, <1>9, <1>10

\* A crash loses what is not yet written, and makes the status stale with it.
LEMMA RestartCatchUp ==
    ASSUME RunnerInv, RunnerInv', HistoryOK, CatchUpInv, Restart
    PROVE  CatchUpInv'
<1> SUFFICES ASSUME NEW o \in Orders PROVE AmountRight(o)' /\ StatusRight(o)'
  BY DEF CatchUpInv
<1>1. /\ row' = row /\ sent' = sent /\ missed' = missed
      /\ unwritten'[o] = unwritten[o] + Unbooked(o)
      /\ stale' = stale \cup {p \in Orders : \E t \in Tasks : Carries(t, p)}
  BY DEF Restart, dbVars
<1>2. AmountRight(o) /\ StatusRight(o)
  BY DEF CatchUpInv
<1>3. AmountRight(o)'
  <2> DEFINE n == row[o].done
             u == unwritten[o]
             b == Unbooked(o)
             m == SimFilled(o)
  <2>1. /\ n \in Nat /\ u \in Nat /\ b \in Nat /\ m \in Nat /\ n + u = m - b
    BY <1>2, FlowIsInt DEF AmountRight, Put, RunnerInv, DataOK, RowRecord, HistoryOK
  <2>2. n + (u + b) = m
    <3> HIDE DEF n, u, b, m
    <3> QED
      BY <2>1
  <2>3. Put(o)' = SimFilled(o)
    BY RestartFlow
  <2> QED
    BY <1>1, <2>2, <2>3 DEF AmountRight
<1>4. StatusAwaited(o) \/ MarkPending(o) => o \in stale'
  <2>1. ASSUME NEW t \in Tasks, Awaits(t, o) PROVE Carries(t, o)
    <3>1. Handling(t) /\ Head(task[t].fills).order = o /\ Untracked(t) = task[t].fills
      BY <2>1 DEF Awaits, At, Handling, Untracked
    <3>2. 1 \in DOMAIN task[t].fills /\ task[t].fills[1].order = o
      BY <3>1, HeadFacts
    <3> QED
      BY <3>1, <3>2 DEF Carries
  <2>2. ASSUME NEW t \in Tasks, HasMark(ToTrack(task[t]), o) PROVE Carries(t, o)
    BY <2>2 DEF HasMark, ToTrack, Carries, Untracked, At
  <2> QED
    BY <1>1, <2>1, <2>2 DEF StatusAwaited, MarkPending
<1>5. OnItsWay(o)
  BY <1>1, <1>4 DEF OnItsWay
<1> QED
  BY <1>1, <1>2, <1>3, <1>5, StatusStays

LEMMA CatchUpStep ==
    RunnerInv /\ RunnerInv' /\ HistoryOK /\ RowsInv /\ CatchUpInv /\ [RunnerNext]_runnerVars
        => CatchUpInv'
<1> SUFFICES ASSUME RunnerInv, RunnerInv', HistoryOK, RowsInv, CatchUpInv,
                    [RunnerNext]_runnerVars
             PROVE  CatchUpInv'
  OBVIOUS
<1>1. ASSUME NEW t \in Tasks, TaskStep(t) PROVE CatchUpInv'
  BY <1>1, FillRowCatchUp, OrderStatusCatchUp, UnwritingCatchUp DEF Unwriting
<1>2. CASE Restart
  BY <1>2, RestartCatchUp
<1>3. CASE UNCHANGED runnerVars
  <2>1. UNCHANGED <<row, sent, task, missed, filled, took, unwritten, stale>>
    BY <1>3 DEF runnerVars, simVars, dbVars, rowHistory
  <2>2. \A u \in Tasks : Keeps(u)
    BY <2>1 DEF Keeps
  <2>3. ASSUME NEW o \in Orders PROVE Put(o)' = Put(o) /\ OnItsWay(o)
    BY <2>1, <2>2, HeldSame, TasksKeptOnTheirWay DEF SimFilled, Put
  <2> QED
    BY <2>1, <2>3, StatusStays DEF CatchUpInv, AmountRight
<1> QED
  BY <1>1, <1>2, <1>3, NextGrouped

LEMMA CatchUpInit == RunnerInit /\ RunnerInv => CatchUpInv
<1> SUFFICES ASSUME RunnerInit, RunnerInv, NEW o \in Orders PROVE AmountRight(o) /\ StatusRight(o)
  BY DEF CatchUpInv
<1>1. row[o].status = "none" /\ row[o].done = 0 /\ unwritten[o] = 0
  BY DEF RunnerInit, NoRow
<1>2. \A t \in Tasks : UnwrittenLists[t] = <<>>
  BY DEF RunnerInit, Idle, UnwrittenLists, ToWrite
<1>3. Unbooked(o) = 0
  BY <1>2, HeldNone, PendingIsHeld DEF ListsAdded
<1>4. Put(o) = 0
  BY <1>3 DEF Put, SimFilled, RunnerInit, Sim!MakerInit
<1> QED
  BY <1>1, <1>4 DEF AmountRight, StatusRight

LEMMA CatchUpInvariant == RunnerSpec => []CatchUpInv
<1>1. RunnerInit /\ RunnerInv => CatchUpInv
  BY CatchUpInit
<1>2. RunnerInv /\ RunnerInv' /\ HistoryOK /\ RowsInv /\ CatchUpInv /\ [RunnerNext]_runnerVars
        => CatchUpInv'
  BY CatchUpStep
<1> QED
  BY <1>1, <1>2, RunnerSpecInvariant, RowsInvariant, HistoryInvariant, PTL DEF RunnerSpec

\* A failed write or a crash costs an order what it was about to write and no
\* more, and a later fill puts its status right again (insert_fill,
\* db/writers.py).  In whatever order the tasks wrote them, the fill rows of an
\* order whose fills have all been handled add up to what was filled, less the
\* fills whose own row was lost, and its status is the one of its fill rows.
THEOREM OrderRowsCatchUp == RunnerSpec => []RowsCatchUp
<1>1. RunnerInv /\ CatchUpInv => RowsCatchUp
  <2> SUFFICES ASSUME RunnerInv, CatchUpInv, NEW o \in Orders, ~Carried(o)
               PROVE  /\ row[o].done + unwritten[o] = SimFilled(o)
                      /\ row[o].status # "none" /\ o \notin stale =>
                            IF o \notin missed THEN row[o].status = StatusOf(o, row[o].done)
                            ELSE \/ row[o].status = "cancelled"
                                 \/ row[o].done > 0 /\ row[o].status = StatusOf(o, row[o].done)
    BY DEF RowsCatchUp
  <2>1. AmountRight(o) /\ StatusRight(o) /\ row[o].done \in Nat
    BY DEF CatchUpInv, RunnerInv, DataOK, RowRecord
  <2>2. ASSUME NEW t \in Tasks
        PROVE  \A i \in DOMAIN UntrackedLists[t] : UntrackedLists[t][i].order # o
    BY PendingIsHeld DEF ListsAdded, Carried, Carries
  <2>3. ~MarkPending(o)
    BY <2>2 DEF MarkPending, HasMark, UntrackedLists
  <2>4. ~StatusAwaited(o)
    <3> SUFFICES ASSUME NEW t \in Tasks, Awaits(t, o) PROVE FALSE
      BY DEF StatusAwaited
    <3>1. Handling(t) /\ Head(task[t].fills).order = o /\ UntrackedLists[t] = task[t].fills
      BY DEF Awaits, At, Handling, UntrackedLists, ToTrack
    <3>2. 1 \in DOMAIN task[t].fills /\ task[t].fills[1].order = o
      BY <3>1, HeadFacts
    <3> QED
      BY <2>2, <3>1, <3>2
  <2>5. Unbooked(o) = 0
    <3>1. ASSUME NEW t \in Tasks PROVE SizeIn(UnwrittenLists[t], o) = 0
      <4> DEFINE all == UntrackedLists[t]
                 some == UnwrittenLists[t]
      <4>1. all \in Seq(FillRecord) /\ some \in Seq(FillRecord)
        BY PendingIsHeld DEF ListsAdded, Lists
      <4>2. some = all \/ (all # <<>> /\ some = Tail(all))
        BY DEF UntrackedLists, UnwrittenLists, ToTrack, ToWrite,
               RunnerInv, TasksInv, TaskOK, Handling
      <4>3. \A i \in DOMAIN all : all[i].order # o
        BY <2>2
      <4> HIDE DEF all, some
      <4>4. all # <<>> => \A i \in DOMAIN Tail(all) : Tail(all)[i].order # o
        BY <4>1, <4>3, TailFacts
      <4>5. \A i \in DOMAIN some : some[i].order # o
        BY <4>2, <4>3, <4>4
      <4>6. SizeIn(some, o) = 0
        BY <4>1, <4>5, SizeInNone
      <4> QED
        BY <4>6 DEF some
    <3> DEFINE F == UnwrittenLists
               g == [t \in Tasks |-> SizeIn(F[t], o)]
    <3>2. \A t \in Tasks : g[t] = 0
      BY <3>1
    <3>3. Unbooked(o) = Sum(g, Tasks)
      BY PendingIsHeld DEF ListsAdded, Held
    <3> HIDE DEF g
    <3> QED
      BY <3>2, <3>3, SumIsZero, RunnerAssumption
  <2>6. row[o].done + unwritten[o] = SimFilled(o)
    BY <2>1, <2>5, SimFilledIsNat DEF AmountRight, Put
  <2>7. ASSUME row[o].status # "none", o \notin stale
        PROVE  IF o \notin missed THEN row[o].status = StatusOf(o, row[o].done)
               ELSE \/ row[o].status = "cancelled"
                    \/ row[o].done > 0 /\ row[o].status = StatusOf(o, row[o].done)
    <3>1. /\ row[o].status = "cancelled" => o \in missed
          /\ IF row[o].done = 0 THEN row[o].status \in {"open", "cancelled"}
                                ELSE row[o].status = StatusOf(o, row[o].done)
          /\ o \in missed /\ row[o].done = 0 => row[o].status = "cancelled"
      BY <2>1, <2>3, <2>4, <2>7 DEF StatusRight
    <3>2. CASE row[o].done # 0
      <4>1. row[o].done > 0
        BY <2>1, <3>2
      <4> QED
        BY <3>1, <3>2, <4>1
    <3>3. CASE row[o].done = 0
      <4>1. sent[o] # NoSignal
        BY <2>7 DEF RunnerInv, BlankInv, NoRow
      <4>2. sent[o].size \in Nat /\ sent[o].size # 0
        BY <4>1, SignalFacts DEF RunnerInv
      <4> DEFINE size == sent[o].size
      <4>3. StatusOf(o, 0) = IF 0 >= size THEN "filled"
                             ELSE IF 0 > 0 THEN "partially_filled" ELSE "open"
        BY DEF StatusOf
      <4>4. ~(0 >= size) /\ ~(0 > 0)
        BY <4>2
      <4>5. StatusOf(o, 0) = "open"
        BY <4>3, <4>4
      <4> QED
        BY <3>1, <3>3, <4>5
    <3> QED
      BY <3>2, <3>3
  <2> QED
    BY <2>6, <2>7
<1> QED
  BY <1>1, RunnerSpecInvariant, CatchUpInvariant, PTL

-----------------------------------------------------------------------------
(* The risk caps *)

\* A task has the order past the caps, or carries a fill of it.
Boards(frame, o) ==
    \/ frame.at \in {"order row", "refresh"} /\ frame.cur = o
    \/ HasFill(ToTrack(frame), o)
Engaged(o) == o \in resting \/ \E t \in Tasks : Boards(task[t], o)

KeysOf(set) == {KeyOf(o, sent[o].side) : o \in set}

\* The open keys of a sleeve are the few it had when it was last below its cap,
\* and keys of orders that were outstanding then.
Anchored(s) ==
    \E base : /\ IsFiniteSet(base) /\ Cardinality(base) <= MaxPositions - 1
              /\ OpenKeys(s) \subseteq base \cup KeysOf(cleared[s])

CapInv ==
    \A s \in Sleeves :
        /\ Outstanding(s) \subseteq cleared[s]
        /\ \A o \in cleared[s] : sent[o] # NoSignal
        /\ Anchored(s)

\* What a step does to a sleeve: only outstanding orders open positions, and
\* unless the sleeve is below its cap no order becomes outstanding.
CapMoves(s) ==
    /\ OpenKeys(s)' \subseteq OpenKeys(s) \cup KeysOf(Outstanding(s))
    /\ BelowCap(s)' \/ Outstanding(s)' \subseteq Outstanding(s)
SignalsKept == \A o \in Orders : sent[o] # NoSignal => sent'[o] = sent[o]

LEMMA MaxPositionsIsNat == MaxPositions \in Nat \ {0}
BY RunnerAssumption

LEMMA OutstandingIsEngaged ==
    RunnerInv => \A s : Outstanding(s) = {o \in Orders : /\ sent[o] # NoSignal
                                                          /\ sent[o].sleeve = s /\ Engaged(o)}
<1> SUFFICES ASSUME RunnerInv, NEW o \in Orders
             PROVE  Engaged(o) <=> \/ o \in resting
                                   \/ \E t \in Tasks : \/ task[t].at \in {"order row", "refresh"}
                                                          /\ task[t].cur = o
                                                       \/ Carries(t, o)
  BY DEF Outstanding
<1>1. \A t \in Tasks : ToTrack(task[t]) = Untracked(t)
  BY PendingIsHeld DEF ListsAdded, UntrackedLists
<1>2. \A t \in Tasks : HasFill(ToTrack(task[t]), o) <=> Carries(t, o)
  BY <1>1 DEF HasFill, Carries
<1> QED
  BY <1>2 DEF Engaged, Boards

LEMMA OutstandingWillBeEngaged ==
    RunnerInv' => (\A s : Outstanding(s) = {o \in Orders : /\ sent[o] # NoSignal
                                                            /\ sent[o].sleeve = s /\ Engaged(o)})'
BY OutstandingIsEngaged, PTL

\* What is resting, in flight or on its way to the tracker has a signal.
LEMMA EngagedIsSent ==
    ASSUME RunnerInv, NEW o \in Orders, Engaged(o)
    PROVE  sent[o] # NoSignal
<1>1. CASE o \in resting
  <2>1. order[o] # Sim!NoOrder
    BY <1>1 DEF RunnerInv, SimInv, Sim!MakerTypeOK
  <2> QED
    BY <2>1 DEF RunnerInv, BlankInv, Unsubmitted
<1>2. ASSUME NEW t \in Tasks, task[t].at \in {"order row", "refresh"}, task[t].cur = o
      PROVE  sent[o] # NoSignal
  BY <1>2, InFlightFacts DEF InFlight
<1>3. ASSUME NEW t \in Tasks, HasFill(ToTrack(task[t]), o)
      PROVE  sent[o] # NoSignal
  <2> DEFINE fills == task[t].fills
  <2>1. fills \in Seq(FillRecord) /\ \A i \in DOMAIN fills : Genuine(fills[i])
    BY FrameFacts DEF RunnerInv, TasksInv, TaskOK
  <2>2. PICK i \in DOMAIN ToTrack(task[t]) : ToTrack(task[t])[i].order = o
    BY <1>3 DEF HasFill
  <2>3. CASE ToTrack(task[t]) = fills
    BY <2>1, <2>2, <2>3 DEF Genuine
  <2>4. CASE ToTrack(task[t]) = Tail(fills) /\ Handling(t)
    <3>1. fills # <<>>
      BY <2>4, HeadFacts
    <3>2. i + 1 \in DOMAIN fills /\ Tail(fills)[i] = fills[i + 1]
      BY <2>1, <2>2, <2>4, <3>1, TailFacts
    <3> QED
      BY <2>1, <2>2, <2>4, <3>2 DEF Genuine
  <2> QED
    BY <2>3, <2>4 DEF ToTrack, Handling
<1> QED
  BY <1>1, <1>2, <1>3 DEF Engaged, Boards

\* The key of an order stays the one it was.
LEMMA KeysStay ==
    ASSUME SignalsKept, NEW set \in SUBSET Orders, \A o \in set : sent[o] # NoSignal
    PROVE  {KeyOf(o, sent[o].side)' : o \in set} = KeysOf(set)
<1>1. \A o \in set : KeyOf(o, sent[o].side)' = KeyOf(o, sent[o].side)
  BY DEF SignalsKept, KeyOf
<1> QED
  BY <1>1 DEF KeysOf

LEMMA KeysAreFinite ==
    ASSUME NEW set \in SUBSET Orders
    PROVE  /\ IsFiniteSet(KeysOf(set)) /\ IsFiniteSet(set)
           /\ Cardinality(KeysOf(set)) <= Cardinality(set)
<1> DEFINE keyOf == [o \in set |-> KeyOf(o, sent[o].side)]
<1>1. keyOf \in Surjection(set, KeysOf(set))
  BY DEF Surjection, KeysOf
<1>2. IsFiniteSet(set)
  BY OrdersAreFinite
<1> QED
  BY <1>1, <1>2, FS_Surjection

LEMMA CapFollows ==
    ASSUME RunnerInv, RunnerInv', HistoryOK, HistoryOK', CapInv, SignalsKept,
           NEW s \in Sleeves, CapMoves(s),
           \/ cleared'[s] = IF BelowCap(s)' THEN Outstanding(s)' ELSE cleared[s]
           \/ cleared'[s] = cleared[s] /\ Outstanding(s)' \subseteq Outstanding(s)
    PROVE  /\ Outstanding(s)' \subseteq cleared'[s]
           /\ \A o \in cleared'[s] : sent'[o] # NoSignal
           /\ Anchored(s)'
<1>1. /\ Outstanding(s) \subseteq cleared[s] /\ cleared[s] \in SUBSET Orders
      /\ \A o \in cleared[s] : sent[o] # NoSignal
  BY DEF CapInv, HistoryOK
<1>2. PICK base : /\ IsFiniteSet(base) /\ Cardinality(base) <= MaxPositions - 1
                  /\ OpenKeys(s) \subseteq base \cup KeysOf(cleared[s])
  BY DEF CapInv, Anchored
<1>3. OpenKeys(s)' \subseteq base \cup KeysOf(cleared[s])
  BY <1>1, <1>2 DEF CapMoves, KeysOf
<1>4. KeysOf(cleared[s]) = {KeyOf(o, sent[o].side)' : o \in cleared[s]}
  BY <1>1, KeysStay
<1>5. CASE cleared'[s] = cleared[s] /\ Outstanding(s)' \subseteq Outstanding(s)
  <2>1. Outstanding(s)' \subseteq cleared'[s]
    BY <1>1, <1>5
  <2>2. \A o \in cleared'[s] : sent'[o] # NoSignal
    BY <1>1, <1>5 DEF SignalsKept
  <2>3. KeysOf(cleared[s])' = KeysOf(cleared[s])
    BY <1>4, <1>5 DEF KeysOf
  <2>4. Anchored(s)'
    BY <1>2, <1>3, <2>3 DEF Anchored
  <2> QED
    BY <2>1, <2>2, <2>4
<1>6. CASE BelowCap(s)' /\ cleared'[s] = Outstanding(s)'
  <2>1. \A o \in cleared'[s] : sent'[o] # NoSignal
    BY <1>6 DEF Outstanding
  <2>2. IsFiniteSet(OpenKeys(s)')
    <3>1. IsFiniteSet(base \cup KeysOf(cleared[s]))
      BY <1>1, <1>2, KeysAreFinite, FS_Union
    <3> QED
      BY <1>3, <3>1, FS_Subset
  <2>3. Cardinality(OpenKeys(s)') \in Nat /\ Cardinality(OpenKeys(s)') < MaxPositions
    BY <1>6, <2>2, FS_CardinalityType DEF BelowCap
  <2>4. Cardinality(OpenKeys(s)') <= MaxPositions - 1
    BY <2>3, MaxPositionsIsNat
  <2>5. Anchored(s)'
    BY <2>2, <2>4 DEF Anchored
  <2> QED
    BY <1>6, <2>1, <2>5
<1> QED
  BY <1>5, <1>6 DEF CapMoves

\* Nothing comes aboard that was not engaged, in a step of task t.
NothingBoards(t) ==
    /\ resting' \subseteq {o \in Orders : Engaged(o)}
    /\ \A o \in Orders : Boards(task'[t], o) => Engaged(o)

LEMMA StaysEngaged ==
    ASSUME NEW t \in Tasks, Others(t), NEW o \in Orders, Engaged(o)',
           Boards(task'[t], o) => Engaged(o), o \in resting' => Engaged(o)
    PROVE  Engaged(o)
<1>1. \A u \in Tasks : u # t /\ Boards(task'[u], o) => Boards(task[u], o)
  BY DEF Others, Keeps, Boards, HasFill, ToTrack
<1> QED
  BY <1>1 DEF Engaged

LEMMA OutstandingShrinks ==
    ASSUME RunnerInv, RunnerInv', SignalsKept, \A o \in Orders : Engaged(o)' => Engaged(o)
    PROVE  \A s \in Sleeves : Outstanding(s)' \subseteq Outstanding(s)
<1> SUFFICES ASSUME NEW s \in Sleeves, NEW o \in Outstanding(s)' PROVE o \in Outstanding(s)
  OBVIOUS
<1>1. o \in Orders /\ sent'[o].sleeve = s /\ Engaged(o)'
  BY OutstandingWillBeEngaged
<1>2. Engaged(o) /\ sent[o] # NoSignal /\ sent'[o] = sent[o]
  BY <1>1, EngagedIsSent DEF SignalsKept
<1> QED
  BY <1>1, <1>2, OutstandingIsEngaged

\* A step in which no position opens.
LEMMA OpenKeysShrink ==
    ASSUME \A k \in Keys : Open(k)' => Open(k)
    PROVE  \A s \in Sleeves : OpenKeys(s)' \subseteq OpenKeys(s)
BY DEF OpenKeys

LEMMA CapQuiet ==
    ASSUME RunnerInv, RunnerInv', SignalsKept, NEW t \in Tasks, Others(t), NothingBoards(t),
           \A k \in Keys : Open(k)' => Open(k)
    PROVE  \A s \in Sleeves : CapMoves(s)
<1>1. \A o \in Orders : Engaged(o)' => Engaged(o)
  BY StaysEngaged DEF NothingBoards
<1> QED
  BY <1>1, OutstandingShrinks, OpenKeysShrink DEF CapMoves

-----------------------------------------------------------------------------
(* What each step does to the sleeves and their caps *)

\* The first fill of a task that is about to put it to the tracker.
LEMMA HeadIsEngaged ==
    ASSUME RunnerInv, NEW t \in Tasks, At(t, "fill row") \/ At(t, "order status")
    PROVE  LET f == Head(task[t].fills) IN
           /\ Engaged(f.order) /\ ToTrack(task[t]) = task[t].fills
           /\ \A o \in Orders : HasFill(task[t].fills, o) => Engaged(o)
           /\ \A o \in Orders : HasFill(Tail(task[t].fills), o) => Engaged(o)
<1> DEFINE fills == task[t].fills
<1>1. /\ Handling(t) /\ ToTrack(task[t]) = fills
  BY DEF At, Handling, ToTrack
<1>2. /\ fills \in Seq(FillRecord) /\ fills # <<>>
      /\ Head(fills) = fills[1] /\ 1 \in DOMAIN fills
  BY <1>1, HeadFacts
<1>3. \A o : HasFill(fills, o) => Engaged(o)
  BY <1>1 DEF Engaged, Boards
<1>4. HasFill(fills, Head(fills).order)
  BY <1>2 DEF HasFill
<1>5. ASSUME NEW o, HasFill(Tail(fills), o) PROVE HasFill(fills, o)
  <2>1. PICK i \in DOMAIN Tail(fills) : Tail(fills)[i].order = o
    BY <1>5 DEF HasFill
  <2>2. i + 1 \in DOMAIN fills /\ Tail(fills)[i] = fills[i + 1]
    BY <1>2, <2>1, TailFacts
  <2> QED
    BY <2>1, <2>2 DEF HasFill
<1> QED
  BY <1>1, <1>3, <1>4, <1>5

\* Fills arrive, of orders that were resting.
LEMMA ArrivalCap ==
    ASSUME RunnerInv, RunnerInv', NEW t \in Tasks, Others(t), UNCHANGED <<vars, sent>>,
           resting' \subseteq resting,
           \A i \in DOMAIN task'[t].fills : task'[t].fills[i].order \in resting,
           task'[t].at \in {"strategies", "fill row"}
    PROVE  SignalsKept /\ \A s \in Sleeves : CapMoves(s)
<1>1. ToTrack(task'[t]) = task'[t].fills
  BY DEF ToTrack
<1>2. resting \subseteq Orders
  BY DEF RunnerInv, SimInv, Sim!MakerTypeOK
<1>3. NothingBoards(t)
  BY <1>1, <1>2 DEF NothingBoards, Boards, HasFill, Engaged
<1>4. \A k \in Keys : Open(k)' => Open(k)
  BY DEF Open, vars
<1>5. SignalsKept
  BY DEF SignalsKept
<1> QED
  BY <1>3, <1>4, <1>5, CapQuiet

LEMMA PrintCap ==
    ASSUME RunnerInv, RunnerInv', NEW t \in Tasks, NEW a \in Assets,
           NEW price \in Prices, NEW size \in PrintSizes, TradePrint(t, a, price, size)
    PROVE  SignalsKept /\ \A s \in Sleeves : CapMoves(s)
<1>1. PICK fills : Printed(fills) /\ task'[t].fills = fills
  BY TradePrintArrives
<1>2. Others(t) /\ task'[t].at \in {"strategies", "fill row"}
  BY TradePrintArrives DEF Arrives
<1>3. UNCHANGED <<vars, sent>> /\ Sim!TradePrint(a, price, size) /\ UNCHANGED <<placed, took>>
  BY DEF TradePrint
<1>4. resting' \subseteq resting
  BY <1>3, SimTradePrint DEF RunnerInv
<1> QED
  BY <1>1, <1>2, <1>3, <1>4, ArrivalCap DEF Printed

LEMMA BookCap ==
    ASSUME RunnerInv, RunnerInv', NEW t \in Tasks, NEW a \in Assets,
           NEW away \in SUBSET resting, BookMoved(t, a, away)
    PROVE  SignalsKept /\ \A s \in Sleeves : CapMoves(s)
<1>1. PICK fills : Marked(fills) /\ task'[t].fills = fills
  BY BookMovedArrives
<1>2. Others(t) /\ task'[t].at \in {"strategies", "fill row"}
  BY BookMovedArrives DEF Arrives
<1>3. UNCHANGED <<vars, sent>> /\ Sim!BookMoved(away) /\ UNCHANGED <<placed, took>>
  BY DEF BookMoved
<1>4. resting' \subseteq resting
  BY <1>3, SimBookMoved DEF RunnerInv
<1> QED
  BY <1>1, <1>2, <1>3, <1>4, ArrivalCap DEF Marked

LEMMA ResolvedCap ==
    ASSUME RunnerInv, RunnerInv', NEW t \in Tasks, NEW m \in Markets, NEW winner \in Winners(m),
           MarketResolved(t, m, winner)
    PROVE  SignalsKept /\ \A s \in Sleeves : CapMoves(s)
<1>1. (\A u \in Tasks : Keeps(u)) /\ resting' = resting /\ sent' = sent
  BY MarketResolvedFacts DEF MarketResolved, simVars
<1>2. Others(t) /\ SignalsKept
  BY <1>1 DEF Others, SignalsKept
<1>3. \A k \in Keys : Open(k)' => Open(k)
  BY DEF MarketResolved, RedeemMarket, Open, NoPosition
<1>4. \A o \in Orders : Boards(task'[t], o) => Boards(task[t], o)
  BY <1>1 DEF Keeps, Boards, HasFill, ToTrack
<1>5. resting \subseteq Orders
  BY DEF RunnerInv, SimInv, Sim!MakerTypeOK
<1>6. NothingBoards(t)
  BY <1>1, <1>4, <1>5 DEF NothingBoards, Engaged
<1> QED
  BY <1>2, <1>3, <1>6, CapQuiet

\* A signal that passes the caps comes aboard, and its sleeve is below its cap.
LEMMA IdlesCap ==
    ASSUME RunnerInv, RunnerInv', NEW t \in Tasks, Idles(t)
    PROVE  SignalsKept /\ \A s \in Sleeves : CapMoves(s)
<1>1. /\ Others(t) /\ task'[t].fills = <<>> /\ UNCHANGED <<vars, simVars>>
      /\ \A o \in Orders : sent'[o] = sent[o] \/ sent[o] = NoSignal
      /\ InFlight(t)' \/ task'[t].at \in {"idle", "strategies"}
      /\ task'[t].at # "refresh" /\ ~Handling(t)
  BY IdlesFacts DEF Arrives
<1>2. SignalsKept /\ resting' = resting
  BY <1>1 DEF SignalsKept, simVars
<1>3. resting \subseteq Orders
  BY DEF RunnerInv, SimInv, Sim!MakerTypeOK
<1>4. \A o : ~HasFill(ToTrack(task'[t]), o)
  <2>1. ToTrack(task'[t]) = <<>>
    BY <1>1 DEF ToTrack, InFlight
  <2> QED
    BY <2>1, EmptyList DEF HasFill
<1>5. /\ \A k \in Keys : Open(k)' <=> Open(k)
      /\ \A s \in Sleeves : OpenKeys(s)' = OpenKeys(s)
  BY <1>1 DEF Open, OpenKeys, vars
<1>6. CASE task'[t].at # "order row"
  <2>1. NothingBoards(t)
    BY <1>1, <1>2, <1>3, <1>4, <1>6 DEF NothingBoards, Boards, Engaged
  <2> QED
    BY <1>1, <1>2, <1>5, <2>1, CapQuiet
<1>7. CASE task'[t].at = "order row"
  <2>1. SignalRow(t)
    <3>1. ASSUME OtherEvent(t) PROVE FALSE
      <4>1. Ticked(t, <<>>) /\ DataOK
        BY <3>1 DEF OtherEvent, RunnerInv
      <4> QED
        BY <1>7, <4>1, TickedFacts, EmptyList
    <3>2. ASSUME Dispatched(t) PROVE FALSE
      <4>1. Goto(t, Idle) /\ DataOK
        BY <3>2 DEF Dispatched, RunnerInv
      <4>2. task'[t] = Idle
        BY <4>1, IdleIsFrame, GotoFacts
      <4> QED
        BY <1>7, <4>2 DEF Idle
    <3>3. ASSUME NEW o \in Orders, NEW sig \in Signal, Emit(t, o, sig) PROVE FALSE
      <4>1. PICK i \in task[t].turn .. Len(Runners) :
               Goto(t, [task[t] EXCEPT !.at = "signal row", !.turn = i, !.cur = o])
        BY <3>3 DEF Emit
      <4> DEFINE new == [task[t] EXCEPT !.at = "signal row", !.turn = i, !.cur = o]
      <4>2. new.at = "signal row"
        BY FrameFacts DEF Frame, RunnerInv
      <4>3. task'[t] = new
        BY <4>1 DEF Goto, RunnerInv, DataOK
      <4> QED
        BY <1>7, <4>2, <4>3
    <3> QED
      BY <3>1, <3>2, <3>3 DEF Idles
  <2>2. PICK at \in {"strategies", "order row"} :
           /\ Goto(t, [task[t] EXCEPT !.at = at])
           /\ at = "order row" => WithinRiskCaps(sent[task[t].cur])
    BY <2>1 DEF SignalRow
  <2>3. /\ [task[t] EXCEPT !.at = at] \in Frame /\ [task[t] EXCEPT !.at = at].at = at
        /\ [task[t] EXCEPT !.at = at].cur = task[t].cur
    <3>1. at \in Steps
      BY DEF Steps
    <3> QED
      BY <1>1, <3>1, EmptyHands
  <2>4. task'[t].at = at /\ task'[t].cur = task[t].cur
    BY <2>2, <2>3, GotoFacts DEF RunnerInv
  <2> DEFINE c == task[t].cur
  <2>5. c \in Orders /\ sent[c] # NoSignal /\ BelowCap(sent[c].sleeve) /\ sent'[c] = sent[c]
    <3>1. InFlight(t)
      BY <2>1 DEF SignalRow, At, InFlight
    <3> QED
      BY <1>2, <1>7, <2>2, <2>4, <3>1, InFlightFacts DEF WithinRiskCaps, SignalsKept
  <2>6. ASSUME NEW o \in Orders, o # c, Engaged(o)' PROVE Engaged(o)
    <3>1. Boards(task'[t], o) => Engaged(o)
      BY <1>1, <1>4, <2>4, <2>6 DEF Boards
    <3>2. o \in resting' => Engaged(o)
      BY <1>2 DEF Engaged
    <3> QED
      BY <1>1, <2>6, <3>1, <3>2, StaysEngaged
  <2>7. ASSUME NEW s \in Sleeves PROVE CapMoves(s)
    <3>1. CASE s = sent[c].sleeve
      <4>1. BelowCap(s)'
        BY <1>5, <2>5, <3>1 DEF BelowCap
      <4> QED
        BY <1>5, <4>1 DEF CapMoves
    <3>2. CASE s # sent[c].sleeve
      <4>1. ASSUME NEW o \in Outstanding(s)' PROVE o \in Outstanding(s)
        <5>1. o \in Orders /\ sent'[o].sleeve = s /\ Engaged(o)'
          BY OutstandingWillBeEngaged
        <5>2. o # c
          BY <2>5, <3>2, <5>1
        <5>3. Engaged(o) /\ sent[o] # NoSignal /\ sent'[o] = sent[o]
          BY <1>2, <2>6, <5>1, <5>2, EngagedIsSent DEF SignalsKept
        <5> QED
          BY <5>1, <5>3, OutstandingIsEngaged
      <4> QED
        BY <1>5, <4>1 DEF CapMoves
    <3> QED
      BY <3>1, <3>2
  <2> QED
    BY <1>2, <2>7
<1> QED
  BY <1>6, <1>7

\* submit: the order that was in flight rests, is filled, or is done with.
LEMMA SubmitRests ==
    ASSUME NEW t, NEW o, Submit(t, o) PROVE resting' \subseteq resting \cup {o}
<1>1. CASE Take(t, o) \/ FindNothing(t, o)
  BY <1>1 DEF Take, FindNothing, simVars
<1>2. CASE Rest(t, o)
  BY <1>2 DEF Rest, Sim!Register
<1> QED
  BY <1>1, <1>2 DEF Submit

LEMMA SubmitsCap ==
    ASSUME RunnerInv, RunnerInv', NEW t \in Tasks, Submits(t)
    PROVE  SignalsKept /\ \A s \in Sleeves : CapMoves(s)
<1>1. PICK o : o = task[t].cur
  OBVIOUS
<1>2. /\ Others(t) /\ UNCHANGED <<vars, sent>> /\ o \in Orders
      /\ \/ Submitted(t, o)
         \/ task'[t].at = "refresh" /\ task'[t].cur = o /\ task'[t].fills = <<>>
  BY <1>1, SubmitsFacts DEF Arrives
<1>3. Engaged(o)
  BY <1>1 DEF Submits, OrderRow, Refreshed, At, Engaged, Boards
<1>4. resting' \subseteq resting \cup {o}
  <2>1. Submit(t, o) \/ UNCHANGED simVars
    BY <1>1 DEF Submits, OrderRow, Refreshed
  <2> QED
    BY <2>1, SubmitRests DEF simVars
<1>5. ASSUME NEW p \in Orders, Boards(task'[t], p) PROVE p = o
  <2>1. CASE task'[t].fills = <<>>
    <3>1. ToTrack(task'[t]) = <<>>
      <4>1. task'[t].at \in {"refresh", "strategies"}
        <5>1. \A f : <<f>> # <<>>
          BY EmptyList
        <5> QED
          BY <1>2, <2>1, <5>1 DEF Submitted
      <4> QED
        BY <2>1, <4>1 DEF ToTrack
    <3>2. ~HasFill(ToTrack(task'[t]), p)
      BY <3>1, EmptyList DEF HasFill
    <3> QED
      BY <1>2, <1>5, <3>2 DEF Boards, Submitted
  <2>2. CASE task'[t].fills # <<>>
    <3>1. PICK f \in FillRecord : /\ f.order = o /\ task'[t].fills = <<f>>
                                  /\ task'[t].at = "fill row"
      BY <1>2, <2>2 DEF Submitted
    <3>2. ToTrack(task'[t]) = <<f>>
      BY <3>1 DEF ToTrack
    <3>3. HasFill(<<f>>, p)
      BY <1>5, <3>1, <3>2 DEF Boards
    <3>4. PICK i \in DOMAIN <<f>> : <<f>>[i].order = p
      BY <3>3 DEF HasFill
    <3>5. <<f>>[i] = f
      OBVIOUS
    <3> QED
      BY <3>1, <3>4, <3>5
  <2> QED
    BY <2>1, <2>2
<1>6. resting \subseteq Orders
  BY DEF RunnerInv, SimInv, Sim!MakerTypeOK
<1>7. NothingBoards(t)
  BY <1>2, <1>3, <1>4, <1>5, <1>6 DEF NothingBoards, Engaged
<1>8. SignalsKept /\ \A k \in Keys : Open(k)' => Open(k)
  BY <1>2 DEF SignalsKept, Open, vars
<1> QED
  BY <1>2, <1>7, <1>8, CapQuiet

\* The tracker gets the first fill, or a live_signal sleeve skips it.
LEMMA InsertedCap ==
    ASSUME RunnerInv, RunnerInv', NEW t \in Tasks, Inserted(t),
           At(t, "fill row") \/ At(t, "order status"), UNCHANGED <<simVars, sent>>
    PROVE  SignalsKept /\ \A s \in Sleeves : CapMoves(s)
<1>1. PICK f : f = Head(task[t].fills)
  OBVIOUS
<1>2. Handling(t) /\ resting' = resting /\ SignalsKept
  BY DEF At, Handling, simVars, SignalsKept
<1>3. /\ f.order \in Orders /\ sent[f.order] # NoSignal /\ Engaged(f.order)
      /\ \A o \in Orders : HasFill(Tail(task[t].fills), o) => Engaged(o)
  BY <1>1, <1>2, HeadFacts, HeadIsEngaged
<1>4. /\ Others(t) /\ Delivered(f) /\ ToTrack(task'[t]) = Tail(task[t].fills)
      /\ task'[t].at # "refresh"
  BY <1>1, <1>2, InsertedFlow
<1>5. task'[t].at # "order row"
  <2>1. IInv /\ DataOK /\ TasksInv
    BY DEF RunnerInv
  <2>2. task'[t].at \in {"strategies", "fill row", "buy row"}
    BY <1>2, <2>1, InsertedFacts DEF TrackedTask
  <2> QED
    BY <2>2
<1>6. resting \subseteq Orders
  BY DEF RunnerInv, SimInv, Sim!MakerTypeOK
<1>7. NothingBoards(t)
  BY <1>2, <1>3, <1>4, <1>5, <1>6 DEF NothingBoards, Boards, Engaged
<1>8. \A s \in Sleeves : Outstanding(s)' \subseteq Outstanding(s)
  <2>1. \A o \in Orders : Engaged(o)' => Engaged(o)
    BY <1>4, <1>7, StaysEngaged DEF NothingBoards
  <2> QED
    BY <1>2, <2>1, OutstandingShrinks
<1>9. ASSUME NEW s \in Sleeves
      PROVE  OpenKeys(s)' \subseteq OpenKeys(s) \cup KeysOf(Outstanding(s))
  <2> SUFFICES ASSUME NEW k \in Keys, k[1] = s, Open(k)', ~Open(k)
               PROVE  k \in KeysOf(Outstanding(s))
    BY DEF OpenKeys
  <2>1. k = KeyOf(f.order, sent[f.order].side)
    BY <1>4 DEF Delivered, TrackedFill, Open, vars
  <2>2. sent[f.order].sleeve = s
    BY <2>1 DEF KeyOf
  <2>3. f.order \in Outstanding(s)
    BY <1>3, <2>2, OutstandingIsEngaged
  <2> QED
    BY <2>1, <2>3 DEF KeysOf
<1> QED
  BY <1>2, <1>8, <1>9 DEF CapMoves

LEMMA FillRowCap ==
    ASSUME RunnerInv, RunnerInv', NEW t \in Tasks, FillRow(t)
    PROVE  SignalsKept /\ \A s \in Sleeves : CapMoves(s)
<1>1. PICK f : f = Head(task[t].fills)
  OBVIOUS
<1>2. /\ Others(t) /\ UNCHANGED <<simVars, sent>> /\ At(t, "fill row")
      /\ \/ UNCHANGED vars /\ task'[t].at = "order status" /\ ToTrack(task'[t]) = task[t].fills
         \/ Inserted(t)
  BY <1>1, FillRowFlow DEF FillRow
<1>3. CASE Inserted(t)
  BY <1>2, <1>3, InsertedCap
<1>4. CASE UNCHANGED vars /\ task'[t].at = "order status" /\ ToTrack(task'[t]) = task[t].fills
  <2>1. \A o \in Orders : HasFill(task[t].fills, o) => Engaged(o)
    BY <1>2, HeadIsEngaged
  <2>2. resting' = resting /\ resting \subseteq Orders
    BY <1>2 DEF simVars, RunnerInv, SimInv, Sim!MakerTypeOK
  <2>3. NothingBoards(t)
    BY <1>4, <2>1, <2>2 DEF NothingBoards, Boards, Engaged
  <2>4. SignalsKept /\ \A k \in Keys : Open(k)' => Open(k)
    BY <1>2, <1>4 DEF SignalsKept, Open, vars
  <2> QED
    BY <1>2, <2>3, <2>4, CapQuiet
<1> QED
  BY <1>2, <1>3, <1>4

LEMMA OrderStatusCap ==
    ASSUME RunnerInv, RunnerInv', NEW t \in Tasks, OrderStatus(t)
    PROVE  SignalsKept /\ \A s \in Sleeves : CapMoves(s)
<1>1. Inserted(t) /\ UNCHANGED <<simVars, sent>> /\ At(t, "order status")
  BY DEF OrderStatus
<1> QED
  BY <1>1, InsertedCap

LEMMA PositionRowsCap ==
    ASSUME RunnerInv, RunnerInv', NEW t \in Tasks, BuyRow(t) \/ SellRow(t)
    PROVE  SignalsKept /\ \A s \in Sleeves : CapMoves(s)
<1>1. /\ Others(t) /\ UNCHANGED <<vars, simVars, sent>>
      /\ ToTrack(task'[t]) = ToTrack(task[t])
      /\ task'[t].at \in {"sell row", "fill row", "strategies"}
  BY PositionRowsFlow
<1>2. resting' = resting /\ resting \subseteq Orders
  BY <1>1 DEF simVars, RunnerInv, SimInv, Sim!MakerTypeOK
<1>3. NothingBoards(t)
  BY <1>1, <1>2 DEF NothingBoards, Boards, Engaged
<1>4. SignalsKept /\ \A k \in Keys : Open(k)' => Open(k)
  BY <1>1 DEF SignalsKept, Open, vars
<1> QED
  BY <1>1, <1>3, <1>4, CapQuiet

LEMMA RestartCap ==
    ASSUME RunnerInv', Restart
    PROVE  SignalsKept /\ \A s \in Sleeves : CapMoves(s)
<1>1. /\ positions' = [k \in Keys |-> NoPosition] /\ task' = [t \in Tasks |-> Idle]
      /\ resting' = {} /\ sent' = sent
  BY DEF Restart
<1>2. \A k \in Keys : ~Open(k)'
  BY <1>1 DEF Open, NoPosition
<1>3. \A o : ~Engaged(o)'
  <2>1. \A t \in Tasks : task'[t].at = "idle" /\ ToTrack(task'[t]) = <<>>
    BY <1>1 DEF Idle, ToTrack
  <2> QED
    BY <1>1, <2>1, EmptyList DEF Engaged, Boards, HasFill
<1>4. \A s : OpenKeys(s)' = {} /\ Outstanding(s)' = {}
  BY <1>2, <1>3, OutstandingWillBeEngaged DEF OpenKeys
<1> QED
  BY <1>1, <1>4 DEF SignalsKept, CapMoves

LEMMA CapStep ==
    RunnerInv /\ RunnerInv' /\ HistoryOK /\ HistoryOK' /\ CapInv /\ [RunnerNext]_runnerVars
        => CapInv'
<1> SUFFICES ASSUME RunnerInv, RunnerInv', HistoryOK, HistoryOK', CapInv, [RunnerNext]_runnerVars
             PROVE  CapInv'
  OBVIOUS
<1>1. ASSUME RunnerNext PROVE SignalsKept /\ \A s \in Sleeves : CapMoves(s)
  <2>1. ASSUME NEW t \in Tasks, TaskStep(t) PROVE SignalsKept /\ \A s \in Sleeves : CapMoves(s)
    BY <2>1, PrintCap, BookCap, ResolvedCap, IdlesCap, SubmitsCap, FillRowCap, OrderStatusCap,
       PositionRowsCap DEF TaskStep
  <2> QED
    BY <1>1, <2>1, RestartCap, NextGrouped
<1>2. CASE RunnerNext
  <2>1. \A s \in Sleeves : cleared'[s] = IF BelowCap(s)' THEN Outstanding(s)' ELSE cleared[s]
    BY <1>2 DEF RunnerNext, Remember
  <2> QED
    BY <1>1, <1>2, <2>1, CapFollows DEF CapInv
<1>3. CASE UNCHANGED runnerVars
  <2>1. /\ positions' = positions /\ resting' = resting /\ task' = task
        /\ sent' = sent /\ cleared' = cleared
    BY <1>3 DEF runnerVars, vars, simVars
  <2>2. \A s : OpenKeys(s)' = OpenKeys(s) /\ Outstanding(s)' = Outstanding(s)
    BY <2>1 DEF OpenKeys, Open, Outstanding, Carries, Untracked, At
  <2>3. SignalsKept /\ \A s \in Sleeves : CapMoves(s)
    BY <2>1, <2>2 DEF SignalsKept, CapMoves
  <2> QED
    BY <2>1, <2>2, <2>3, CapFollows DEF CapInv
<1> QED
  BY <1>2, <1>3

LEMMA CapInit == RunnerInit /\ RunnerInv => CapInv
<1> SUFFICES ASSUME RunnerInit, RunnerInv, NEW s \in Sleeves
             PROVE  /\ Outstanding(s) \subseteq cleared[s]
                    /\ \A o \in cleared[s] : sent[o] # NoSignal
                    /\ Anchored(s)
  BY DEF CapInv
<1>1. /\ positions = [k \in Keys |-> NoPosition] /\ cleared[s] = {}
      /\ \A o \in Orders : sent[o] = NoSignal
  BY DEF RunnerInit, Init
<1>2. OpenKeys(s) = {}
  BY <1>1 DEF OpenKeys, Open, NoPosition
<1>3. Outstanding(s) = {}
  BY <1>1 DEF Outstanding
<1>4. IsFiniteSet({}) /\ Cardinality({}) <= MaxPositions - 1
  BY FS_EmptySet, MaxPositionsIsNat
<1>5. Anchored(s)
  BY <1>2, <1>4 DEF Anchored
<1> QED
  BY <1>1, <1>3, <1>5

LEMMA CapInvariant == RunnerSpec => []CapInv
<1>1. RunnerInit /\ RunnerInv => CapInv
  BY CapInit
<1>2. RunnerInv /\ RunnerInv' /\ HistoryOK /\ HistoryOK' /\ CapInv /\ [RunnerNext]_runnerVars
        => CapInv'
  BY CapStep
<1> QED
  BY <1>1, <1>2, RunnerSpecInvariant, HistoryInvariant, PTL DEF RunnerSpec

\* The caps are checked before the latency and the resting (main.py:390), by
\* any number of tasks: a sleeve still holds no more positions than its cap less
\* one, and one for each of its orders that was in flight or resting, or had a
\* fill on its way, when the sleeve was last below its cap.
THEOREM OverrunIsAtMostTheFlight == RunnerSpec => []OverrunIsBounded
<1>1. RunnerInv /\ HistoryOK /\ CapInv => OverrunIsBounded
  <2> SUFFICES ASSUME RunnerInv, HistoryOK, CapInv, NEW s \in Sleeves
               PROVE  Cardinality(OpenKeys(s)) <= MaxPositions - 1 + Cardinality(cleared[s])
    BY DEF OverrunIsBounded
  <2>1. PICK base : /\ IsFiniteSet(base) /\ Cardinality(base) <= MaxPositions - 1
                    /\ OpenKeys(s) \subseteq base \cup KeysOf(cleared[s])
    BY DEF CapInv, Anchored
  <2> DEFINE image == KeysOf(cleared[s])
  <2>2. /\ IsFiniteSet(image) /\ IsFiniteSet(cleared[s])
        /\ Cardinality(image) <= Cardinality(cleared[s])
    BY KeysAreFinite DEF HistoryOK
  <2> HIDE DEF image
  <2>3. /\ IsFiniteSet(base \cup image) /\ IsFiniteSet(base \cap image)
        /\ Cardinality(base \cup image)
              = Cardinality(base) + Cardinality(image) - Cardinality(base \cap image)
    BY <2>1, <2>2, FS_Union, FS_Intersection
  <2>4. /\ IsFiniteSet(OpenKeys(s))
        /\ Cardinality(OpenKeys(s)) <= Cardinality(base \cup image)
    BY <2>1, <2>3, FS_Subset DEF image
  <2>5. /\ Cardinality(base) \in Nat /\ Cardinality(image) \in Nat
        /\ Cardinality(base \cap image) \in Nat /\ Cardinality(cleared[s]) \in Nat
        /\ Cardinality(OpenKeys(s)) \in Nat
    BY <2>1, <2>2, <2>3, <2>4, FS_CardinalityType
  <2> QED
    BY <2>1, <2>2, <2>3, <2>4, <2>5, MaxPositionsIsNat
<1> QED
  BY <1>1, RunnerSpecInvariant, HistoryInvariant, CapInvariant, PTL
=============================================================================
