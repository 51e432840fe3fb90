--------------------------- MODULE TokenUsageProofs ---------------------------
(***************************************************************************)
(* What the accounting of both agents rests on, and other sums with it: a  *)
(* sum over a finite set does not depend on the order it is taken in and   *)
(* is the sum of its parts, and filing usage in a ledger adds it to what   *)
(* the ledger holds altogether.                                            *)
(***************************************************************************)
EXTENDS TokenUsage, Functions, TLAPS, FiniteSetTheorems

-----------------------------------------------------------------------------
(***************************************************************************)
(* Induction over the natural numbers and over finite sets, for a property *)
(* that is given by the set it holds on.                                   *)
(***************************************************************************)
LEMMA LeastNumber ==
  ASSUME NEW T \in SUBSET Nat, T # {}
  PROVE  \E x \in T : \A y \in T : x <= y
<1> DEFINE R == OpToRel(<, Nat)
<1>1. IsWellFoundedOn(R, Nat)
  BY NatLessThanWellFounded
<1>2. ASSUME NEW x \in Nat, NEW y \in Nat, ~ (<<y, x>> \in R)
      PROVE  x <= y
  BY <1>2 DEF OpToRel
<1> HIDE DEF R
<1>3. PICK x \in T : \A y \in T : ~ (<<y, x>> \in R)
  BY <1>1, WFMin
<1>4. \A y \in T : x <= y
  BY <1>2, <1>3
<1> QED BY <1>4

LEMMA CountUp ==
  ASSUME NEW n \in Nat, NEW G, 0 \in G,
         \A i \in 0 .. n : i < n /\ i \in G => i + 1 \in G
  PROVE  n \in G
<1> SUFFICES ASSUME n \notin G PROVE FALSE
  OBVIOUS
<1> DEFINE T == {i \in 0 .. n : i \notin G}
<1>1. T \in SUBSET Nat /\ T # {}
  OBVIOUS
<1>2. PICK i \in T : \A j \in T : i <= j
  BY <1>1, LeastNumber
<1>3. i # 0 /\ i - 1 \in 0 .. n /\ i - 1 < n /\ (i - 1) + 1 = i
  BY <1>2
<1>4. i - 1 \in G
  BY <1>2, <1>3
<1> QED BY <1>2, <1>3, <1>4

LEMMA CountFrom ==
  ASSUME NEW a \in Nat, NEW n \in Nat, a <= n, NEW G, a \in G,
         \A i \in a .. n : i < n /\ i \in G => i + 1 \in G
  PROVE  n \in G
<1> DEFINE m == n - a
           H == {i \in 0 .. m : a + i \in G}
<1>1. m \in Nat /\ a + m = n /\ 0 \in H
  OBVIOUS
<1>2. ASSUME NEW i \in 0 .. m, i < m, i \in H PROVE i + 1 \in H
  <2>1. a + i \in a .. n /\ a + i < n /\ a + i \in G
    BY <1>2
  <2>2. (a + i) + 1 \in G
    BY <2>1
  <2>3. (a + i) + 1 = a + (i + 1) /\ i + 1 \in 0 .. m
    BY <1>2
  <2> QED BY <2>2, <2>3
<1> HIDE DEF H, m
<1>3. m \in H
  BY <1>1, <1>2, CountUp
<1> QED BY <1>1, <1>3 DEF H

\* Each subset is reached from those that are smaller by one element.
LEMMA SubsetBySubset ==
  ASSUME NEW S, IsFiniteSet(S), NEW G, {} \in G,
         \A T \in SUBSET S : T # {} /\ (\A x \in T : T \ {x} \in G) => T \in G
  PROVE  \A T \in SUBSET S : T \in G
<1> DEFINE n == Cardinality(S)
           H == {k \in 0 .. n : \A T \in SUBSET S : Cardinality(T) = k => T \in G}
<1>1. /\ n \in Nat
      /\ \A T \in SUBSET S : IsFiniteSet(T) /\ Cardinality(T) \in 0 .. n
  <2>1. n \in Nat
    BY FS_CardinalityType
  <2>2. ASSUME NEW T \in SUBSET S PROVE IsFiniteSet(T) /\ Cardinality(T) \in Nat /\ Cardinality(T) <= n
    BY FS_Subset, FS_CardinalityType
  <2> QED BY <2>1, <2>2
<1>2. 0 \in H
  BY <1>1, FS_EmptySet
<1>3. ASSUME NEW k \in 0 .. n, k < n, k \in H PROVE k + 1 \in H
  <2> SUFFICES ASSUME NEW T \in SUBSET S, Cardinality(T) = k + 1 PROVE T \in G
    BY <1>1, <1>3
  <2>1. T # {}
    BY <1>1, FS_EmptySet
  <2>2. ASSUME NEW x \in T PROVE T \ {x} \in G
    <3>1. Cardinality(T \ {x}) = k
      <4>1. Cardinality(T \ {x}) = Cardinality(T) - 1
        BY <1>1, FS_RemoveElement
      <4> QED BY <1>1, <4>1
    <3> QED BY <1>3, <3>1
  <2> QED BY <2>1, <2>2
<1> HIDE DEF H
<1>4. ASSUME NEW m \in 0 .. n PROVE m \in H
  <2>1. \A i \in 0 .. m : i < m /\ i \in H => i + 1 \in H
    BY <1>1, <1>3
  <2> HIDE DEF n
  <2>2. m \in Nat
    BY <1>1
  <2> QED BY <1>2, <2>1, <2>2, CountUp
<1> QED BY <1>1, <1>4 DEF H

-----------------------------------------------------------------------------
(***************************************************************************)
(* Total.                                                                  *)
(***************************************************************************)
Usage == [in : Int, out : Int]

LEMMA UsageIs ==
  /\ Zero \in Usage
  /\ \A a \in Int, b \in Int : Use(a, b) \in Usage /\ Use(a, b).in = a /\ Use(a, b).out = b
  /\ \A u \in Usage : /\ Plus(Zero, u) = u /\ Plus(u, Zero) = u /\ Minus(u, u) = Zero
                      /\ Minus(u, Zero) = u /\ u.in \in Int /\ u.out \in Int
                      /\ u = Use(u.in, u.out)
  /\ \A u, v \in Usage : /\ Plus(u, v) \in Usage /\ Minus(u, v) \in Usage
                         /\ Plus(u, v) = Plus(v, u) /\ Plus(u, Minus(v, u)) = v
                         /\ Minus(u, v) = Zero => u = v
  /\ \A u, v, w \in Usage : Plus(u, Plus(v, w)) = Plus(Plus(u, v), w)
<1>1. Zero \in Usage
  BY DEF Usage, Use, Zero
<1>2. \A a \in Int, b \in Int : Use(a, b) \in Usage /\ Use(a, b).in = a /\ Use(a, b).out = b
  BY DEF Usage, Use
<1>3. \A u \in Usage : u.in \in Int /\ u.out \in Int /\ u = Use(u.in, u.out)
  BY DEF Usage, Use
<1>4. \A u \in Usage : /\ Plus(Zero, u) = u /\ Plus(u, Zero) = u
                      /\ Minus(u, u) = Zero /\ Minus(u, Zero) = u
  BY <1>3 DEF Use, Zero, Plus, Minus
<1>5. \A u, v \in Usage : /\ Plus(u, v) \in Usage /\ Minus(u, v) \in Usage
                         /\ Plus(u, v) = Plus(v, u)
  BY <1>2, <1>3 DEF Plus, Minus
<1>6. \A u, v \in Usage : Plus(u, Minus(v, u)) = v
  BY <1>3 DEF Use, Plus, Minus
<1>7. \A u, v \in Usage : Minus(u, v) = Zero => u = v
  <2> SUFFICES ASSUME NEW u \in Usage, NEW v \in Usage, Minus(u, v) = Zero PROVE u = v
    OBVIOUS
  <2>1. u.in - v.in = 0 /\ u.out - v.out = 0
    BY <1>2, <1>3 DEF Minus, Zero, Use
  <2>2. u.in = v.in /\ u.out = v.out
    BY <1>3, <2>1
  <2> QED BY <1>3, <2>2
<1>8. \A u, v, w \in Usage : Plus(u, Plus(v, w)) = Plus(Plus(u, v), w)
  BY <1>3 DEF Use, Plus
<1> QED BY <1>1, <1>2, <1>3, <1>4, <1>5, <1>6, <1>7, <1>8

LEMMA PlusSwap ==
  ASSUME NEW a \in Usage, NEW b \in Usage, NEW c \in Usage
  PROVE  /\ Plus(a, Plus(b, c)) = Plus(b, Plus(a, c))
         /\ Plus(Plus(a, b), c) = Plus(Plus(a, c), b)
BY DEF Usage, Use, Plus

First(T) == CHOOSE x \in T : TRUE
SumStep(f, T, it) == IF T = {} THEN Zero ELSE Plus(f[First(T)], it[T \ {First(T)}])
Sums(it, f, S) == it = [T \in SUBSET S |-> SumStep(f, T, it)]

LEMMA SumsExist ==
  ASSUME NEW f, NEW S, IsFiniteSet(S)
  PROVE  \E it : Sums(it, f, S)
<1> DEFINE n == Cardinality(S)
           U(k) == {T \in SUBSET S : Cardinality(T) <= k}
           G == {k \in 0 .. n : \E it : it = [T \in U(k) |-> SumStep(f, T, it)]}
<1>1. n \in Nat /\ \A T \in SUBSET S : IsFiniteSet(T) /\ Cardinality(T) \in Nat /\ Cardinality(T) <= n
  BY FS_Subset, FS_CardinalityType
<1>2. \A T \in SUBSET S : T # {} => First(T) \in T /\ T \ {First(T)} \in SUBSET S
                                     /\ Cardinality(T \ {First(T)}) = Cardinality(T) - 1
  BY <1>1, FS_RemoveElement DEF First
<1>3. \A T \in SUBSET S : Cardinality(T) = 0 => T = {}
  BY <1>1, FS_EmptySet
<1>4. 0 \in G
  <2> DEFINE it == [T \in U(0) |-> Zero]
  <2>1. \A T \in U(0) : T = {}
    BY <1>1, <1>3
  <2>2. it = [T \in U(0) |-> SumStep(f, T, it)]
    BY <2>1 DEF SumStep
  <2> HIDE DEF it
  <2>3. \E i : i = [T \in U(0) |-> SumStep(f, T, i)]
    <3> HIDE DEF U
    <3> QED BY <2>2
  <2> HIDE DEF U
  <2>4. 0 \in 0 .. n
    BY <1>1
  <2> QED BY <2>3, <2>4
<1>5. ASSUME NEW k \in 0 .. n, k < n, k \in G PROVE k + 1 \in G
  <2>1. PICK old : old = [T \in U(k) |-> SumStep(f, T, old)]
    BY <1>5
  <2> DEFINE it == [T \in U(k + 1) |-> SumStep(f, T, old)]
  <2>2. ASSUME NEW T \in U(k + 1) PROVE it[T] = SumStep(f, T, it)
    <3>1. T # {} => T \ {First(T)} \in U(k) /\ T \ {First(T)} \in U(k + 1)
      <4> SUFFICES ASSUME T # {}
                   PROVE T \ {First(T)} \in U(k) /\ T \ {First(T)} \in U(k + 1)
        OBVIOUS
      <4>1. Cardinality(T) \in Nat /\ Cardinality(T) <= k + 1 /\ k \in Nat
        BY <1>1
      <4>2. T \ {First(T)} \in SUBSET S /\ Cardinality(T \ {First(T)}) = Cardinality(T) - 1
        BY <1>2
      <4> DEFINE a == Cardinality(T)
                 b == Cardinality(T \ {First(T)})
      <4>3. b <= k /\ b <= k + 1
        <5> HIDE DEF a, b
        <5>1. a \in Nat /\ a <= k + 1 /\ b = a - 1 /\ k \in Nat
          BY <4>1, <4>2 DEF a, b
        <5> QED BY <5>1
      <4> QED BY <4>2, <4>3
    <3>2. T # {} => it[T \ {First(T)}] = old[T \ {First(T)}]
      <4> SUFFICES ASSUME T # {} PROVE it[T \ {First(T)}] = old[T \ {First(T)}]
        OBVIOUS
      <4> DEFINE V == T \ {First(T)}
      <4>1. V \in U(k) /\ V \in U(k + 1)
        BY <3>1
      <4> HIDE DEF V, U
      <4>2. it[V] = SumStep(f, V, old) /\ old[V] = SumStep(f, V, old)
        BY <2>1, <4>1
      <4> QED BY <4>2 DEF V
    <3> HIDE DEF U
    <3>3. it[T] = SumStep(f, T, old)
      OBVIOUS
    <3> HIDE DEF it
    <3> QED BY <3>2, <3>3 DEF SumStep
  <2>3. it = [T \in U(k + 1) |-> it[T]]
    OBVIOUS
  <2> HIDE DEF it, U
  <2>4. it = [T \in U(k + 1) |-> SumStep(f, T, it)]
    BY <2>2, <2>3
  <2>5. k + 1 \in 0 .. n
    BY <1>1, <1>5
  <2> QED BY <2>4, <2>5
<1> HIDE DEF G
<1>6. n \in G
  <2> HIDE DEF n
  <2> QED BY <1>1, <1>4, <1>5, CountUp
<1>7. U(n) = SUBSET S
  BY <1>1
<1> HIDE DEF U, n
<1>8. \E it : it = [T \in SUBSET S |-> SumStep(f, T, it)]
  BY <1>6, <1>7 DEF G
<1> QED BY <1>8 DEF Sums

LEMMA TotalIs ==
  ASSUME NEW f, NEW S, IsFiniteSet(S)
  PROVE  \E it : Sums(it, f, S) /\ Total(f, S) = it[S]
<1> DEFINE iter[s \in SUBSET S] ==
             IF s = {} THEN Zero
             ELSE LET x == CHOOSE x \in s : TRUE
                  IN  Plus(f[x], iter[s \ {x}])
<1>1. Total(f, S) = iter[S]
  BY DEF Total, MapThenFoldSet
<1>2. iter = CHOOSE it : Sums(it, f, S)
  BY DEF Sums, SumStep, First
<1> HIDE DEF iter
<1>3. Sums(iter, f, S)
  BY <1>2, SumsExist
<1> QED BY <1>1, <1>3

LEMMA SumsAgree ==
  ASSUME NEW f, NEW S, IsFiniteSet(S), NEW R \in SUBSET S,
         NEW a, Sums(a, f, S), NEW b, Sums(b, f, R)
  PROVE  a[R] = b[R]
<1> DEFINE G == {T \in SUBSET R : a[T] = b[T]}
<1>1. \A T \in SUBSET R : /\ a[T] = SumStep(f, T, a) /\ b[T] = SumStep(f, T, b)
                          /\ (T # {} => First(T) \in T)
  BY DEF Sums, First
<1>2. {} \in G
  BY <1>1 DEF SumStep
<1>3. ASSUME NEW T \in SUBSET R, T # {}, \A x \in T : T \ {x} \in G PROVE T \in G
  BY <1>1, <1>3 DEF SumStep
<1>4. IsFiniteSet(R)
  BY FS_Subset
<1> HIDE DEF G
<1>5. R \in G
  BY <1>2, <1>3, <1>4, SubsetBySubset
<1> QED BY <1>5 DEF G

LEMMA TotalEmpty ==
  ASSUME NEW f PROVE Total(f, {}) = Zero
<1>1. IsFiniteSet({})
  BY FS_EmptySet
<1>2. PICK it : Sums(it, f, {}) /\ Total(f, {}) = it[{}]
  BY <1>1, TotalIs
<1>3. it[{}] = SumStep(f, {}, it)
  BY <1>2 DEF Sums
<1> QED BY <1>2, <1>3 DEF SumStep

LEMMA TotalFirst ==
  ASSUME NEW f, NEW S, IsFiniteSet(S), S # {}
  PROVE  First(S) \in S /\ Total(f, S) = Plus(f[First(S)], Total(f, S \ {First(S)}))
<1> DEFINE R == S \ {First(S)}
<1>1. First(S) \in S /\ R \in SUBSET S
  BY DEF First
<1>2. IsFiniteSet(R)
  BY <1>1, FS_Subset
<1>3. PICK a : Sums(a, f, S) /\ Total(f, S) = a[S]
  BY TotalIs
<1>4. a[S] = Plus(f[First(S)], a[R])
  BY <1>3 DEF Sums, SumStep
<1> HIDE DEF R
<1>5. PICK b : Sums(b, f, R) /\ Total(f, R) = b[R]
  BY <1>2, TotalIs
<1>6. a[R] = b[R]
  BY <1>1, <1>3, <1>5, SumsAgree
<1> QED BY <1>1, <1>3, <1>4, <1>5, <1>6 DEF R

LEMMA TotalType ==
  ASSUME NEW f, NEW S, IsFiniteSet(S), \A x \in S : f[x] \in Usage
  PROVE  Total(f, S) \in Usage
<1> DEFINE G == {T \in SUBSET S : Total(f, T) \in Usage}
<1>1. {} \in G
  BY TotalEmpty, UsageIs
<1>2. ASSUME NEW T \in SUBSET S, T # {}, \A x \in T : T \ {x} \in G PROVE T \in G
  <2>1. IsFiniteSet(T)
    BY FS_Subset
  <2>2. First(T) \in T /\ Total(f, T) = Plus(f[First(T)], Total(f, T \ {First(T)}))
    BY <1>2, <2>1, TotalFirst
  <2>3. T \ {First(T)} \in G
    BY <1>2, <2>2
  <2> DEFINE a == f[First(T)]
             b == Total(f, T \ {First(T)})
  <2>4. a \in Usage /\ b \in Usage
    BY <2>2, <2>3
  <2> HIDE DEF a, b
  <2>5. Plus(a, b) \in Usage
    BY <2>4, UsageIs
  <2> QED BY <2>2, <2>5 DEF a, b
<1> HIDE DEF G
<1>3. \A T \in SUBSET S : T \in G
  BY <1>1, <1>2, SubsetBySubset
<1> QED BY <1>3 DEF G

\* Whichever element is taken first.
LEMMA TotalAny ==
  ASSUME NEW f, NEW S, IsFiniteSet(S), \A x \in S : f[x] \in Usage
  PROVE  \A x \in S : Total(f, S) = Plus(f[x], Total(f, S \ {x}))
<1> DEFINE Any(T) == \A x \in T : Total(f, T) = Plus(f[x], Total(f, T \ {x}))
           G == {T \in SUBSET S : Any(T)}
<1>1. {} \in G
  OBVIOUS
<1>2. \A T \in SUBSET S : IsFiniteSet(T) /\ Total(f, T) \in Usage
  <2>1. TAKE T \in SUBSET S
  <2>2. IsFiniteSet(T)
    BY FS_Subset
  <2> QED BY <2>2, TotalType
<1>3. ASSUME NEW T \in SUBSET S, T # {}, \A x \in T : T \ {x} \in G PROVE T \in G
  <2> SUFFICES ASSUME NEW x \in T PROVE Total(f, T) = Plus(f[x], Total(f, T \ {x}))
    OBVIOUS
  <2> DEFINE c == First(T)
             R == T \ {c, x}
  <2>1. c \in T /\ Total(f, T) = Plus(f[c], Total(f, T \ {c}))
    BY <1>2, <1>3, TotalFirst
  <2> HIDE DEF c
  <2>2. CASE x = c
    BY <2>1, <2>2
  <2>3. CASE x # c
    <3>1. R = (T \ {c}) \ {x} /\ R = (T \ {x}) \ {c} /\ R \in SUBSET S
      OBVIOUS
    <3>2. Total(f, T \ {c}) = Plus(f[x], Total(f, R))
      BY <1>3, <2>1, <2>3, <3>1
    <3>3. Total(f, T \ {x}) = Plus(f[c], Total(f, R))
      BY <1>3, <2>1, <2>3, <3>1
    <3> DEFINE r == Total(f, R)
    <3>4. r \in Usage /\ f[c] \in Usage /\ f[x] \in Usage
      BY <1>2, <2>1, <3>1
    <3>5. Plus(f[c], Plus(f[x], r)) = Plus(f[x], Plus(f[c], r))
      <4> DEFINE a == f[c]
                 b == f[x]
      <4>1. a \in Usage /\ b \in Usage /\ r \in Usage
        BY <3>4
      <4> HIDE DEF a, b, r
      <4>2. Plus(a, Plus(b, r)) = Plus(b, Plus(a, r))
        BY <4>1, PlusSwap
      <4> QED BY <4>2 DEF a, b
    <3> QED BY <2>1, <3>2, <3>3, <3>5
  <2> QED BY <2>2, <2>3
<1> HIDE DEF G
<1>4. \A T \in SUBSET S : T \in G
  BY <1>1, <1>3, SubsetBySubset
<1> QED BY <1>4 DEF G

LEMMA TotalSame ==
  ASSUME NEW f, NEW g, NEW S, IsFiniteSet(S), \A x \in S : f[x] = g[x]
  PROVE  Total(f, S) = Total(g, S)
<1> DEFINE G == {T \in SUBSET S : Total(f, T) = Total(g, T)}
<1>1. {} \in G
  BY TotalEmpty
<1>2. ASSUME NEW T \in SUBSET S, T # {}, \A x \in T : T \ {x} \in G PROVE T \in G
  <2>1. IsFiniteSet(T)
    BY FS_Subset
  <2>2. /\ First(T) \in T /\ Total(f, T) = Plus(f[First(T)], Total(f, T \ {First(T)}))
        /\ Total(g, T) = Plus(g[First(T)], Total(g, T \ {First(T)}))
    BY <1>2, <2>1, TotalFirst
  <2> QED BY <1>2, <2>2
<1> HIDE DEF G
<1>3. S \in G
  BY <1>1, <1>2, SubsetBySubset
<1> QED BY <1>3 DEF G

\* What is added to one element is added to the sum.
LEMMA TotalGrows ==
  ASSUME NEW f, NEW g, NEW S, IsFiniteSet(S), \A y \in S : f[y] \in Usage,
         NEW x \in S, NEW d \in Usage, g[x] = Plus(f[x], d),
         \A y \in S : y # x => g[y] = f[y]
  PROVE  Total(g, S) = Plus(Total(f, S), d)
<1> DEFINE R == S \ {x}
           r == Total(f, R)
<1>1. IsFiniteSet(R) /\ \A y \in S : g[y] \in Usage
  <2>1. IsFiniteSet(R)
    BY FS_Subset
  <2>2. g[x] \in Usage
    <3> DEFINE a == f[x]
    <3>1. a \in Usage
      OBVIOUS
    <3> HIDE DEF a
    <3>2. Plus(a, d) \in Usage
      BY <3>1, UsageIs
    <3> QED BY <3>2 DEF a
  <2>3. \A y \in S : y # x => g[y] \in Usage
    OBVIOUS
  <2> QED BY <2>1, <2>2, <2>3
<1>2. Total(f, S) = Plus(f[x], Total(f, R)) /\ Total(g, S) = Plus(g[x], Total(g, R))
  BY <1>1, TotalAny
<1>3. Total(g, R) = r
  <2>1. \A y \in R : g[y] = f[y]
    OBVIOUS
  <2> HIDE DEF R
  <2> QED BY <1>1, <2>1, TotalSame
<1>4. r \in Usage
  BY <1>1, TotalType
<1>5. Plus(Plus(f[x], d), r) = Plus(Plus(f[x], r), d)
  <2> DEFINE a == f[x]
  <2>1. a \in Usage /\ r \in Usage
    BY <1>4
  <2> HIDE DEF a, r
  <2>2. Plus(Plus(a, d), r) = Plus(Plus(a, r), d)
    BY <2>1, PlusSwap
  <2> QED BY <2>2 DEF a
<1> QED BY <1>2, <1>3, <1>5 DEF r

LEMMA TotalNothing ==
  ASSUME NEW f, NEW S, IsFiniteSet(S), \A x \in S : f[x] = Zero
  PROVE  Total(f, S) = Zero
<1> DEFINE G == {T \in SUBSET S : Total(f, T) = Zero}
<1>1. {} \in G
  BY TotalEmpty
<1>2. ASSUME NEW T \in SUBSET S, T # {}, \A x \in T : T \ {x} \in G PROVE T \in G
  <2>1. IsFiniteSet(T)
    BY FS_Subset
  <2>2. First(T) \in T /\ Total(f, T) = Plus(f[First(T)], Total(f, T \ {First(T)}))
    BY <1>2, <2>1, TotalFirst
  <2> QED BY <1>2, <2>2, UsageIs
<1> HIDE DEF G
<1>3. S \in G
  BY <1>1, <1>2, SubsetBySubset
<1> QED BY <1>3 DEF G

-----------------------------------------------------------------------------
(***************************************************************************)
(* The ledger.                                                             *)
(***************************************************************************)
LEMMA PromptKGrows ==
  /\ \A n \in Int : PromptK(n) \in Nat
  /\ \A n \in Int, m \in Int : n <= m => PromptK(n) <= PromptK(m)
<1>1. ASSUME NEW n \in Int PROVE PromptK(n) \in Nat
  BY KAssumption DEF PromptK
<1>2. ASSUME NEW n \in Int, NEW m \in Int, n <= m PROVE PromptK(n) <= PromptK(m)
  BY <1>2, KAssumption DEF PromptK
<1> QED BY <1>1, <1>2

Ledger == [Bucket -> Usage]

LEMMA BucketFinite == IsFiniteSet(Bucket)
<1>1. IsFiniteSet(Models \cup {NoModel})
  BY ModelsAssumption, FS_AddElement
<1>2. IsFiniteSet(0 .. PromptK(MaxPrompt))
  BY MaxPromptAssumption, PromptKGrows, FS_Interval
<1> QED BY <1>1, <1>2, FS_Product DEF Bucket

LEMMA LedgerTotal ==
  /\ \A ledger \in Ledger : Total(ledger, Bucket) \in Usage
  /\ NoLedger \in Ledger /\ Total(NoLedger, Bucket) = Zero
<1>1. ASSUME NEW ledger \in Ledger PROVE Total(ledger, Bucket) \in Usage
  BY BucketFinite, TotalType DEF Ledger
<1>2. NoLedger \in Ledger /\ \A b \in Bucket : NoLedger[b] = Zero
  BY UsageIs DEF NoLedger, Ledger
<1>3. Total(NoLedger, Bucket) = Zero
  BY <1>2, BucketFinite, TotalNothing
<1> QED BY <1>1, <1>2, <1>3

\* Filing usage adds it to what the ledger sums to.
LEMMA FiledAdds ==
  ASSUME NEW ledger \in Ledger, NEW model \in Models \cup {NoModel},
         NEW prompt \in Int, prompt <= MaxPrompt, NEW u \in Usage
  PROVE  /\ Filed(ledger, model, prompt, u) \in Ledger
         /\ Total(Filed(ledger, model, prompt, u), Bucket) = Plus(Total(ledger, Bucket), u)
         /\ u = Zero => Filed(ledger, model, prompt, u) = ledger
<1> DEFINE b == <<model, PromptK(prompt)>>
           g == Filed(ledger, model, prompt, u)
<1>1. b \in Bucket
  <2>1. PromptK(prompt) \in 0 .. PromptK(MaxPrompt)
    BY MaxPromptAssumption, PromptKGrows
  <2> QED BY <2>1 DEF Bucket
<1>2. g = [ledger EXCEPT ![b] = Plus(@, u)]
  BY DEF Filed
<1> HIDE DEF b, g
<1>3. ledger[b] \in Usage
  BY <1>1 DEF Ledger
<1>4. Plus(ledger[b], u) \in Usage /\ (u = Zero => Plus(ledger[b], u) = ledger[b])
  <2> DEFINE a == ledger[b]
  <2> HIDE DEF a
  <2>1. a \in Usage
    BY <1>3 DEF a
  <2>2. Plus(a, u) \in Usage /\ (u = Zero => Plus(a, u) = a)
    BY <2>1, UsageIs
  <2> QED BY <2>2 DEF a
<1>5. g \in Ledger /\ g[b] = Plus(ledger[b], u) /\ \A y \in Bucket : y # b => g[y] = ledger[y]
  BY <1>1, <1>2, <1>4 DEF Ledger
<1>6. Total(g, Bucket) = Plus(Total(ledger, Bucket), u)
  <2>1. \A y \in Bucket : ledger[y] \in Usage
    BY DEF Ledger
  <2> QED BY <1>1, <1>5, <2>1, BucketFinite, TotalGrows
<1>7. u = Zero => g = ledger
  BY <1>2, <1>4 DEF Ledger
<1> QED BY <1>5, <1>6, <1>7 DEF g

-----------------------------------------------------------------------------
(***************************************************************************)
(* Sums of numbers over finite sets.                                       *)
(***************************************************************************)
Sum(f, S) == SumFunctionOnSet(f, S)
MoneyStep(f, T, it) == IF T = {} THEN 0 ELSE f[First(T)] + it[T \ {First(T)}]
Money(it, f, S) == it = [T \in SUBSET S |-> MoneyStep(f, T, it)]

LEMMA MoneyExists ==
  ASSUME NEW f, NEW S, IsFiniteSet(S)
  PROVE  \E it : Money(it, f, S)
<1> DEFINE g == [x \in S |-> Use(f[x], 0)]
<1>1. PICK u : Sums(u, g, S)
  BY SumsExist
<1> DEFINE it == [T \in SUBSET S |-> u[T].in]
<1>2. ASSUME NEW T \in SUBSET S PROVE it[T] = MoneyStep(f, T, it)
  <2>1. u[T] = SumStep(g, T, u) /\ it[T] = u[T].in
    BY <1>1 DEF Sums
  <2>2. CASE T = {}
    BY <2>1, <2>2 DEF SumStep, MoneyStep, Zero, Use
  <2>3. CASE T # {}
    <3> DEFINE x == First(T)
    <3>1. x \in S /\ T \ {x} \in SUBSET S
      BY <2>3 DEF First
    <3>2. u[T] = Plus(g[x], u[T \ {x}])
      BY <2>1, <2>3 DEF SumStep
    <3> HIDE DEF x
    <3>3. g[x].in = f[x] /\ it[T \ {x}] = u[T \ {x}].in
      BY <3>1 DEF Use
    <3> HIDE DEF g, it
    <3>4. Plus(g[x], u[T \ {x}]).in = g[x].in + u[T \ {x}].in
      BY DEF Plus, Use
    <3>5. it[T] = f[x] + it[T \ {x}]
      BY <2>1, <3>2, <3>3, <3>4
    <3> QED BY <2>3, <3>5 DEF MoneyStep, x
  <2> QED BY <2>2, <2>3
<1>3. it = [T \in SUBSET S |-> it[T]]
  OBVIOUS
<1> HIDE DEF it
<1>4. it = [T \in SUBSET S |-> MoneyStep(f, T, it)]
  BY <1>2, <1>3
<1> QED BY <1>4 DEF Money

LEMMA SumIs ==
  ASSUME NEW f, NEW S, IsFiniteSet(S)
  PROVE  \E it : Money(it, f, S) /\ Sum(f, S) = it[S]
<1> DEFINE iter[s \in SUBSET S] ==
             IF s = {} THEN 0
             ELSE LET x == CHOOSE x \in s : TRUE
                  IN  f[x] + iter[s \ {x}]
<1>1. Sum(f, S) = iter[S]
  BY DEF Sum, SumFunctionOnSet, FoldFunctionOnSet, MapThenFoldSet
<1>2. iter = CHOOSE it : Money(it, f, S)
  BY DEF Money, MoneyStep, First
<1> HIDE DEF iter
<1>3. Money(iter, f, S)
  BY <1>2, MoneyExists
<1> QED BY <1>1, <1>3

LEMMA MoneyAgrees ==
  ASSUME NEW f, NEW S, IsFiniteSet(S), NEW R \in SUBSET S,
         NEW a, Money(a, f, S), NEW b, Money(b, f, R)
  PROVE  a[R] = b[R]
<1> DEFINE G == {T \in SUBSET R : a[T] = b[T]}
<1>1. \A T \in SUBSET R : /\ a[T] = MoneyStep(f, T, a) /\ b[T] = MoneyStep(f, T, b)
                          /\ (T # {} => First(T) \in T)
  BY DEF Money, First
<1>2. {} \in G
  BY <1>1 DEF MoneyStep
<1>3. ASSUME NEW T \in SUBSET R, T # {}, \A x \in T : T \ {x} \in G PROVE T \in G
  BY <1>1, <1>3 DEF MoneyStep
<1>4. IsFiniteSet(R)
  BY FS_Subset
<1> HIDE DEF G
<1>5. R \in G
  BY <1>2, <1>3, <1>4, SubsetBySubset
<1> QED BY <1>5 DEF G

LEMMA SumFirst ==
  ASSUME NEW f, NEW S, IsFiniteSet(S)
  PROVE  /\ S = {} => Sum(f, S) = 0
         /\ S # {} => First(S) \in S /\ Sum(f, S) = f[First(S)] + Sum(f, S \ {First(S)})
<1> DEFINE R == S \ {First(S)}
<1>1. (S # {} => First(S) \in S) /\ R \in SUBSET S
  BY DEF First
<1>2. IsFiniteSet(R)
  BY <1>1, FS_Subset
<1>3. PICK a : Money(a, f, S) /\ Sum(f, S) = a[S]
  BY SumIs
<1>4. a[S] = IF S = {} THEN 0 ELSE f[First(S)] + a[R]
  BY <1>3 DEF Money, MoneyStep
<1> HIDE DEF R
<1>5. PICK b : Money(b, f, R) /\ Sum(f, R) = b[R]
  BY <1>2, SumIs
<1>6. a[R] = b[R]
  BY <1>1, <1>3, <1>5, MoneyAgrees
<1> QED BY <1>1, <1>3, <1>4, <1>5, <1>6 DEF R

LEMMA SumEmpty == ASSUME NEW f PROVE Sum(f, {}) = 0
BY FS_EmptySet, SumFirst

LEMMA SumType ==
  ASSUME NEW f, NEW S, IsFiniteSet(S), \A x \in S : f[x] \in Int
  PROVE  Sum(f, S) \in Int
<1> DEFINE G == {T \in SUBSET S : Sum(f, T) \in Int}
<1>1. {} \in G
  BY SumEmpty
<1>2. ASSUME NEW T \in SUBSET S, T # {}, \A x \in T : T \ {x} \in G PROVE T \in G
  <2>1. IsFiniteSet(T)
    BY FS_Subset
  <2> DEFINE c == First(T)
  <2>2. c \in T /\ Sum(f, T) = f[c] + Sum(f, T \ {c})
    BY <1>2, <2>1, SumFirst
  <2> HIDE DEF c
  <2>3. f[c] \in Int /\ Sum(f, T \ {c}) \in Int
    BY <1>2, <2>2
  <2> QED BY <2>2, <2>3
<1> HIDE DEF G
<1>3. \A T \in SUBSET S : T \in G
  BY <1>1, <1>2, SubsetBySubset
<1> QED BY <1>3 DEF G

\* Whichever element is taken first.
LEMMA SumAny ==
  ASSUME NEW f, NEW S, IsFiniteSet(S), \A x \in S : f[x] \in Int
  PROVE  \A x \in S : Sum(f, S) = f[x] + Sum(f, S \ {x})
<1> DEFINE Each(T) == \A x \in T : Sum(f, T) = f[x] + Sum(f, T \ {x})
           G == {T \in SUBSET S : Each(T)}
<1>1. \A T \in SUBSET S : IsFiniteSet(T) /\ Sum(f, T) \in Int
  <2>1. TAKE T \in SUBSET S
  <2>2. IsFiniteSet(T)
    BY FS_Subset
  <2> QED BY <2>2, SumType
<1>2. {} \in G
  OBVIOUS
<1>3. ASSUME NEW T \in SUBSET S, T # {}, \A x \in T : T \ {x} \in G PROVE T \in G
  <2> SUFFICES ASSUME NEW x \in T PROVE Sum(f, T) = f[x] + Sum(f, T \ {x})
    OBVIOUS
  <2> DEFINE c == First(T)
             R == T \ {c, x}
             r == Sum(f, R)
  <2>1. c \in T /\ Sum(f, T) = f[c] + Sum(f, T \ {c})
    BY <1>1, <1>3, SumFirst
  <2> HIDE DEF c
  <2>2. CASE x = c
    BY <2>1, <2>2
  <2>3. CASE x # c
    <3>1. R = (T \ {c}) \ {x} /\ R = (T \ {x}) \ {c} /\ R \in SUBSET S
      OBVIOUS
    <3>2. Sum(f, T \ {c}) = f[x] + Sum(f, R)
      BY <1>3, <2>1, <2>3, <3>1
    <3>3. Sum(f, T \ {x}) = f[c] + Sum(f, R)
      BY <1>3, <2>1, <2>3, <3>1
    <3>4. r \in Int /\ f[c] \in Int /\ f[x] \in Int
      BY <1>1, <2>1, <3>1
    <3> HIDE DEF r
    <3>5. f[c] + (f[x] + r) = f[x] + (f[c] + r)
      BY <3>4
    <3> QED BY <2>1, <3>2, <3>3, <3>5 DEF r
  <2> QED BY <2>2, <2>3
<1> HIDE DEF G
<1>4. \A T \in SUBSET S : T \in G
  BY <1>2, <1>3, SubsetBySubset
<1> QED BY <1>4 DEF G

LEMMA SumSame ==
  ASSUME NEW f, NEW g, NEW S, IsFiniteSet(S), \A x \in S : f[x] = g[x]
  PROVE  Sum(f, S) = Sum(g, S)
<1> DEFINE G == {T \in SUBSET S : Sum(f, T) = Sum(g, T)}
<1>1. {} \in G
  BY SumEmpty
<1>2. ASSUME NEW T \in SUBSET S, T # {}, \A x \in T : T \ {x} \in G PROVE T \in G
  <2>1. IsFiniteSet(T)
    BY FS_Subset
  <2>2. /\ First(T) \in T /\ Sum(f, T) = f[First(T)] + Sum(f, T \ {First(T)})
        /\ Sum(g, T) = g[First(T)] + Sum(g, T \ {First(T)})
    BY <1>2, <2>1, SumFirst
  <2> QED BY <1>2, <2>2
<1> HIDE DEF G
<1>3. S \in G
  BY <1>1, <1>2, SubsetBySubset
<1> QED BY <1>3 DEF G

LEMMA SumNothing ==
  ASSUME NEW f, NEW S, IsFiniteSet(S), \A x \in S : f[x] = 0
  PROVE  Sum(f, S) = 0
<1> DEFINE G == {T \in SUBSET S : Sum(f, T) = 0}
<1>1. {} \in G
  BY SumEmpty
<1>2. ASSUME NEW T \in SUBSET S, T # {}, \A x \in T : T \ {x} \in G PROVE T \in G
  <2>1. IsFiniteSet(T)
    BY FS_Subset
  <2>2. First(T) \in T /\ Sum(f, T) = f[First(T)] + Sum(f, T \ {First(T)})
    BY <1>2, <2>1, SumFirst
  <2>3. f[First(T)] = 0 /\ Sum(f, T \ {First(T)}) = 0
    BY <1>2, <2>2
  <2> QED BY <2>2, <2>3
<1> HIDE DEF G
<1>3. S \in G
  BY <1>1, <1>2, SubsetBySubset
<1> QED BY <1>3 DEF G

LEMMA SumOne ==
  ASSUME NEW f, NEW x, f[x] \in Int
  PROVE  Sum(f, {x}) = f[x]
<1>1. IsFiniteSet({x}) /\ {x} \ {x} = {}
  BY FS_Singleton
<1>2. Sum(f, {x}) = f[x] + Sum(f, {x} \ {x})
  BY <1>1, SumAny
<1>3. Sum(f, {x} \ {x}) = 0
  BY <1>1, SumEmpty
<1> QED BY <1>2, <1>3

LEMMA Removed == ASSUME NEW S, IsFiniteSet(S), NEW x PROVE IsFiniteSet(S \ {x})
BY FS_RemoveElement, FS_Subset

\* What is added to one element is added to the sum.
LEMMA SumGrows ==
  ASSUME NEW f, NEW g, NEW S, IsFiniteSet(S), \A y \in S : f[y] \in Int,
         NEW x \in S, NEW d \in Int, g[x] = f[x] + d,
         \A y \in S : y # x => g[y] = f[y]
  PROVE  Sum(g, S) = Sum(f, S) + d
<1> DEFINE R == S \ {x}
           r == Sum(f, R)
<1>1. IsFiniteSet(R) /\ f[x] \in Int /\ g[x] \in Int /\ \A y \in S : g[y] \in Int
  <2>1. f[x] \in Int /\ g[x] \in Int
    OBVIOUS
  <2> QED BY <2>1, Removed
<1>2. Sum(f, S) = f[x] + Sum(f, R) /\ Sum(g, S) = g[x] + Sum(g, R)
  BY <1>1, SumAny
<1>3. Sum(g, R) = r
  <2>1. \A y \in R : g[y] = f[y]
    OBVIOUS
  <2> HIDE DEF R
  <2> QED BY <1>1, <2>1, SumSame
<1>4. r \in Int
  BY <1>1, SumType
<1> HIDE DEF r, R
<1> QED BY <1>1, <1>2, <1>3, <1>4 DEF r

\* The whole is the sum of its parts.
LEMMA SumOfParts ==
  ASSUME NEW f, NEW S, IsFiniteSet(S), \A x \in S : f[x] \in Int,
         NEW B, IsFiniteSet(B), NEW h, \A x \in S : h[x] \in B
  PROVE  Sum(f, S) = Sum([b \in B |-> Sum(f, {x \in S : h[x] = b})], B)
<1> DEFINE P(T) == [b \in B |-> Sum(f, {x \in T : h[x] = b})]
           G == {T \in SUBSET S : Sum(f, T) = Sum(P(T), B)}
<1>1. \A T \in SUBSET S : IsFiniteSet(T) /\ Sum(f, T) \in Int
  <2>1. TAKE T \in SUBSET S
  <2>2. IsFiniteSet(T)
    BY FS_Subset
  <2> QED BY <2>2, SumType
<1>2. {} \in G
  <2>1. \A b \in B : P({})[b] = 0
    <3>1. TAKE b \in B
    <3>2. {x \in {} : h[x] = b} = {}
      OBVIOUS
    <3>3. P({})[b] = Sum(f, {x \in {} : h[x] = b})
      OBVIOUS
    <3> QED BY <3>2, <3>3, SumEmpty
  <2> DEFINE p == P({})
  <2>2. Sum(p, B) = 0
    <3> HIDE DEF p
    <3>1. \A b \in B : p[b] = 0
      BY <2>1 DEF p
    <3> QED BY <3>1, SumNothing
  <2>3. Sum(f, {}) = 0
    BY SumEmpty
  <2> QED BY <2>2, <2>3
<1>3. ASSUME NEW T \in SUBSET S, T # {}, \A x \in T : T \ {x} \in G PROVE T \in G
  <2> PICK x \in T : TRUE
    BY <1>3
  <2> DEFINE b == h[x]
             R == T \ {x}
             p == P(R)
             q == P(T)
             part(U, c) == {y \in U : h[y] = c}
  <2>1. R \in G /\ b \in B /\ f[x] \in Int /\ Sum(f, T) = f[x] + Sum(f, R) /\ Sum(f, R) \in Int
    <3>1. Sum(f, T) = f[x] + Sum(f, R)
      BY <1>1, SumAny
    <3>2. R \in G /\ R \in SUBSET S
      BY <1>3
    <3> QED BY <1>1, <3>1, <3>2
  <2>2. ASSUME NEW c \in B PROVE p[c] = Sum(f, part(R, c)) /\ q[c] = Sum(f, part(T, c)) /\ p[c] \in Int
    <3>1. p[c] = Sum(f, part(R, c)) /\ q[c] = Sum(f, part(T, c)) /\ part(R, c) \in SUBSET S
      OBVIOUS
    <3> HIDE DEF p, q, part, R
    <3> QED BY <1>1, <3>1
  <2>3. ASSUME NEW c \in B, c # b PROVE q[c] = p[c]
    <3>1. part(R, c) = part(T, c)
      BY <2>3
    <3> HIDE DEF p, q, part
    <3> QED BY <2>2, <3>1
  <2>4. q[b] = p[b] + f[x]
    <3> DEFINE U == part(T, b)
    <3>1. part(R, b) = U \ {x} /\ x \in U /\ U \in SUBSET S
      OBVIOUS
    <3>2. Sum(f, U) = f[x] + Sum(f, U \ {x})
      <4> HIDE DEF U
      <4>1. IsFiniteSet(U) /\ \A y \in U : f[y] \in Int
        BY <1>1, <3>1
      <4> QED BY <3>1, <4>1, SumAny
    <3>3. p[b] = Sum(f, part(R, b)) /\ q[b] = Sum(f, U) /\ p[b] \in Int
      <4> HIDE DEF p, q, part, R, b
      <4> QED BY <2>1, <2>2
    <3>4. p[b] = Sum(f, U \ {x})
      <4> HIDE DEF p, part, U, R
      <4> QED BY <3>1, <3>3
    <3>5. f[x] \in Int
      BY <2>1
    <3> DEFINE v == f[x]
               w == Sum(f, U \ {x})
    <3>6. q[b] = v + w /\ p[b] = w /\ v \in Int /\ w \in Int
      <4> HIDE DEF p, q, U, b
      <4> QED BY <3>2, <3>3, <3>4, <3>5
    <3> HIDE DEF v, w, p, q, b
    <3>7. q[b] = p[b] + v
      BY <3>6
    <3> QED BY <3>7 DEF v
  <2>5. Sum(q, B) = Sum(p, B) + f[x]
    <3> HIDE DEF p, q, b, part, R
    <3> QED BY <2>1, <2>2, <2>3, <2>4, SumGrows
  <2>6. Sum(f, R) = Sum(p, B)
    BY <2>1
  <2>7. Sum(f, T) = Sum(q, B)
    <3> HIDE DEF p, q, b, R
    <3> QED BY <2>1, <2>5, <2>6
  <2> QED BY <2>7
<1> HIDE DEF G
<1>4. S \in G
  BY <1>2, <1>3, SubsetBySubset
<1> QED BY <1>4 DEF G

LEMMA SumByParts ==
  ASSUME NEW f, NEW S, IsFiniteSet(S), \A x \in S : f[x] \in Int,
         NEW B, IsFiniteSet(B), NEW h, \A x \in S : h[x] \in B,
         NEW p, \A b \in B : p[b] = Sum(f, {x \in S : h[x] = b})
  PROVE  Sum(f, S) = Sum(p, B)
<1> DEFINE q == [b \in B |-> Sum(f, {x \in S : h[x] = b})]
<1>1. Sum(f, S) = Sum(q, B)
  BY SumOfParts
<1>2. \A b \in B : q[b] = p[b]
  OBVIOUS
<1> HIDE DEF q
<1>3. Sum(q, B) = Sum(p, B)
  BY <1>2, SumSame
<1> QED BY <1>1, <1>3

LEMMA SumOfImage ==
  ASSUME NEW f, NEW g, NEW S, IsFiniteSet(S), \A x \in S : f[x] \in Int,
         NEW r, \A x, y \in S : r[x] = r[y] => x = y, \A x \in S : g[r[x]] = f[x]
  PROVE  IsFiniteSet({r[x] : x \in S}) /\ Sum(g, {r[x] : x \in S}) = Sum(f, S)
<1> DEFINE I(T) == {r[x] : x \in T}
           G == {T \in SUBSET S : IsFiniteSet(I(T)) /\ Sum(g, I(T)) = Sum(f, T)}
<1>1. \A T \in SUBSET S : IsFiniteSet(T)
  BY FS_Subset
<1>2. {} \in G
  <2>1. I({}) = {}
    OBVIOUS
  <2> HIDE DEF I
  <2> QED BY <2>1, SumEmpty, FS_EmptySet
<1>3. ASSUME NEW T \in SUBSET S, T # {}, \A x \in T : T \ {x} \in G PROVE T \in G
  <2> PICK x \in T : TRUE
    BY <1>3
  <2> DEFINE y == r[x]
             R == T \ {x}
  <2>1. I(T) \ {y} = I(R) /\ I(T) = I(R) \cup {y} /\ y \in I(T)
    OBVIOUS
  <2>2. R \in G /\ IsFiniteSet(I(R)) /\ Sum(g, I(R)) = Sum(f, R)
    BY <1>3
  <2>3. \A z \in I(T) : g[z] \in Int
    OBVIOUS
  <2>4. Sum(f, T) = f[x] + Sum(f, R)
    BY <1>1, SumAny
  <2>5. g[y] = f[x]
    OBVIOUS
  <2> HIDE DEF I, y, R
  <2>6. IsFiniteSet(I(T))
    BY <2>1, <2>2, FS_AddElement
  <2>7. Sum(g, I(T)) = g[y] + Sum(g, I(T) \ {y})
    BY <2>1, <2>3, <2>6, SumAny
  <2>8. Sum(g, I(T)) = Sum(f, T)
    BY <2>1, <2>2, <2>4, <2>5, <2>7
  <2> QED BY <2>6, <2>8
<1> HIDE DEF G
<1>4. \A T \in SUBSET S : T \in G
  BY <1>2, <1>3, SubsetBySubset
<1> QED BY <1>4 DEF G

LEMMA SumFunctionIs == ASSUME NEW S, NEW f, DOMAIN f = S PROVE SumFunction(f) = Sum(f, S)
BY DEF SumFunction, Sum
=============================================================================
