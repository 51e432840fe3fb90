-------------------------- MODULE SubagentsProofs --------------------------
(***************************************************************************)
(* What a poll of a session's children may tell, for any children, kinds,  *)
(* parents and faults: no child is shown as ended before its end is on     *)
(* record, none that was comes back to life, and whoever waits behind a    *)
(* running child is not idle, over any number of generations.  And what a  *)
(* poll must tell when no read of it fails: everything that is on disk.    *)
(***************************************************************************)
EXTENDS Subagents, TLAPS, FiniteSetTheorems

-----------------------------------------------------------------------------
\* A set of natural numbers that has an element has a least one.
LEMMA LeastElement ==
  ASSUME NEW T \in SUBSET Nat, T # {}
  PROVE  \E x \in T : \A y \in T : x <= y
<1> DEFINE R == OpToRel(<, Nat)
<1>1. IsWellFoundedOn(R, Nat)
  BY NatLessThanWellFounded
<1>2. ASSUME NEW x \in Nat, NEW y \in Nat, ~ (<<y, x>> \in R)
      PROVE  x <= y
  BY <1>2 DEF OpToRel
<1> HIDE DEF R
<1>3. PICK x \in T : \A y \in T : ~ (<<y, x>> \in R)
  BY <1>1, WFMin
<1>4. \A y \in T : x <= y
  BY <1>2, <1>3
<1> QED BY <1>4

\* A property of zero that passes from each number to the next has no first
\* number up to n that it fails for: it is given here by the set it holds on.
LEMMA UpTo ==
  ASSUME NEW n \in Nat, NEW S, 0 \in S,
         \A i \in 0 .. n : i < n /\ i \in S => i + 1 \in S
  PROVE  n \in S
<1> SUFFICES ASSUME n \notin S PROVE FALSE
  OBVIOUS
<1> DEFINE T == {i \in 0 .. n : i \notin S}
<1>1. T \in SUBSET Nat /\ T # {}
  OBVIOUS
<1>2. PICK i \in T : \A j \in T : i <= j
  BY <1>1, LeastElement
<1>3. i # 0 /\ i - 1 \in 0 .. n /\ i - 1 < n /\ (i - 1) + 1 = i
  BY <1>2
<1>4. i - 1 \in S
  BY <1>2, <1>3
<1> QED BY <1>2, <1>3, <1>4

\* The greatest of some of the first n numbers, as the community modules'
\* Max has it.
LEMMA MaxIs ==
  ASSUME NEW n \in Nat, NEW T \in SUBSET (1 .. n), T # {}
  PROVE  Max(T) \in T /\ \A y \in T : Max(T) >= y
<1> DEFINE B == {n - x : x \in T}
<1>1. B \in SUBSET Nat /\ B # {}
  <2>1. \A x \in T : n - x \in Nat
    OBVIOUS
  <2> QED BY <2>1
<1>2. PICK a \in B : \A b \in B : a <= b
  BY <1>1, LeastElement
<1>3. PICK x \in T : a = n - x
  BY <1>2
<1>4. ASSUME NEW y \in T PROVE x >= y
  <2>1. n - y \in B
    OBVIOUS
  <2>2. a <= n - y
    BY <1>2, <2>1
  <2> QED BY <1>3, <2>2
<1>5. \E z \in T : \A y \in T : z >= y
  BY <1>4
<1> QED BY <1>5 DEF Max

-----------------------------------------------------------------------------
(***************************************************************************)
(* The ancestors of a child.  Up: those at most n generations above it.    *)
(***************************************************************************)
Above(S, parent, c, n, f) ==
  IF n = 0 THEN {} ELSE f[n - 1] \cup ({parent[x] : x \in f[n - 1] \cup {c}} \cap S)

Climbs(f, m, S, parent, c) == f = [n \in 0 .. m |-> Above(S, parent, c, n, f)]

\* There is a function that satisfies the recursion of Ancestors.
LEMMA ClimbExists ==
  ASSUME NEW S, NEW parent, NEW c, NEW m \in Nat
  PROVE  \E f : Climbs(f, m, S, parent, c)
<1> DEFINE G == {k \in 0 .. m : \E f : f = [n \in 0 .. k |-> Above(S, parent, c, n, f)]}
<1>1. 0 \in G
  <2> DEFINE g == [n \in 0 .. 0 |-> {}]
  <2>1. g = [n \in 0 .. 0 |-> Above(S, parent, c, n, g)]
    BY DEF Above
  <2> QED BY <2>1
<1>2. ASSUME NEW i \in 0 .. m, i < m, i \in G PROVE i + 1 \in G
  <2>1. PICK f : f = [n \in 0 .. i |-> Above(S, parent, c, n, f)]
    BY <1>2
  <2> DEFINE g == [n \in 0 .. i + 1 |->
                     IF n = i + 1 THEN Above(S, parent, c, n, f) ELSE f[n]]
  <2>2. ASSUME NEW n \in 0 .. i + 1 PROVE g[n] = Above(S, parent, c, n, g)
    <3>1. CASE n = i + 1
      <4>1. n # 0 /\ n - 1 = i /\ i \in 0 .. i + 1 /\ i # i + 1
        BY <3>1
      <4>2. g[n - 1] = f[n - 1] /\ g[n] = Above(S, parent, c, n, f)
        BY <3>1, <4>1
      <4> HIDE DEF g
      <4> QED BY <4>1, <4>2 DEF Above
    <3>2. CASE n # i + 1 /\ n # 0
      <4>1. n \in 0 .. i /\ n - 1 \in 0 .. i + 1 /\ n - 1 # i + 1
        BY <3>2
      <4>2. g[n] = f[n] /\ g[n - 1] = f[n - 1]
        BY <3>2, <4>1
      <4>3. f[n] = Above(S, parent, c, n, f)
        BY <2>1, <4>1
      <4> HIDE DEF g
      <4> QED BY <3>2, <4>2, <4>3 DEF Above
    <3>3. CASE n # i + 1 /\ n = 0
      <4>1. g[n] = f[n] /\ f[n] = Above(S, parent, c, n, f)
        BY <2>1, <3>3
      <4> QED BY <3>3, <4>1 DEF Above
    <3> QED BY <3>1, <3>2, <3>3
  <2>3. g = [n \in 0 .. i + 1 |-> g[n]]
    OBVIOUS
  <2> HIDE DEF g
  <2>4. g = [n \in 0 .. i + 1 |-> Above(S, parent, c, n, g)]
    BY <2>2, <2>3
  <2>5. i + 1 \in 0 .. m
    BY <1>2
  <2>6. \E h : h = [n \in 0 .. i + 1 |-> Above(S, parent, c, n, h)]
    BY <2>4
  <2> HIDE DEF g
  <2> QED BY <2>5, <2>6
<1> HIDE DEF G
<1>3. m \in G
  BY <1>1, <1>2, UpTo
<1> QED BY <1>3 DEF G, Climbs

LEMMA AncestorsAre ==
  ASSUME NEW S, IsFiniteSet(S), NEW parent, NEW c
  PROVE  \E f : /\ Climbs(f, Cardinality(S), S, parent, c)
                /\ Ancestors(S, parent, c) = f[Cardinality(S)] \ {c}
<1> DEFINE N == Cardinality(S)
           up[n \in 0 .. N] ==
             IF n = 0 THEN {} ELSE up[n - 1] \cup ({parent[x] : x \in up[n - 1] \cup {c}} \cap S)
<1>1. Ancestors(S, parent, c) = up[N] \ {c}
  BY DEF Ancestors
<1>2. up = CHOOSE f : Climbs(f, N, S, parent, c)
  BY DEF Climbs, Above
<1>3. N \in Nat
  BY FS_CardinalityType
<1> HIDE DEF up, N
<1>4. \E f : Climbs(f, N, S, parent, c)
  BY <1>3, ClimbExists
<1>5. Climbs(up, N, S, parent, c)
  BY <1>2, <1>4
<1> QED BY <1>1, <1>5 DEF N

LEMMA ClimbSteps ==
  ASSUME NEW m \in Nat, NEW S, NEW parent, NEW c, NEW f, Climbs(f, m, S, parent, c)
  PROVE  /\ f[0] = {}
         /\ \A n \in 0 .. m :
              n < m => f[n + 1] = f[n] \cup ({parent[x] : x \in f[n] \cup {c}} \cap S)
<1>1. \A n \in 0 .. m : f[n] = Above(S, parent, c, n, f)
  BY DEF Climbs
<1>2. f[0] = {}
  <2>1. f[0] = Above(S, parent, c, 0, f)
    BY <1>1
  <2> QED BY <2>1 DEF Above
<1>3. ASSUME NEW n \in 0 .. m, n < m
      PROVE  f[n + 1] = f[n] \cup ({parent[x] : x \in f[n] \cup {c}} \cap S)
  <2>1. n + 1 \in 0 .. m /\ n + 1 # 0 /\ (n + 1) - 1 = n
    BY <1>3
  <2> QED BY <1>1, <2>1 DEF Above
<1> QED BY <1>2, <1>3

\* The parent of whoever is in A, or of c, is in A, if it is known.
ClosedAbove(A, S, parent, c) == {parent[x] : x \in A \cup {c}} \cap S \subseteq A

\* There are no more generations than there are children: after as many steps
\* as these number, nobody is left to be found.
LEMMA ClimbsToTheTop ==
  ASSUME NEW S, IsFiniteSet(S), NEW parent, NEW c,
         NEW f, Climbs(f, Cardinality(S), S, parent, c)
  PROVE  f[Cardinality(S)] \subseteq S /\ ClosedAbove(f[Cardinality(S)], S, parent, c)
<1> DEFINE N == Cardinality(S)
           G == {n \in 0 .. N : /\ f[n] \subseteq S
                                /\ \/ ClosedAbove(f[n], S, parent, c)
                                   \/ Cardinality(f[n]) >= n}
<1>1. N \in Nat
  BY FS_CardinalityType
<1>2. /\ f[0] = {}
      /\ \A n \in 0 .. N :
           n < N => f[n + 1] = f[n] \cup ({parent[x] : x \in f[n] \cup {c}} \cap S)
  BY <1>1, ClimbSteps
<1>3. 0 \in G
  <2>1. f[0] = {}
    BY <1>2
  <2>2. Cardinality(f[0]) = 0
    BY <2>1, FS_EmptySet
  <2> QED BY <1>1, <2>1, <2>2
<1>4. ASSUME NEW n \in 0 .. N, n < N, n \in G PROVE n + 1 \in G
  <2> DEFINE more == {parent[x] : x \in f[n] \cup {c}} \cap S
  <2>1. n + 1 \in 0 .. N
    BY <1>1, <1>4
  <2>2. f[n + 1] = f[n] \cup more
    BY <1>2, <1>4
  <2>3. f[n] \subseteq S /\ f[n + 1] \subseteq S
    BY <1>4, <2>2
  <2>4. CASE ClosedAbove(f[n], S, parent, c)
    <3>1. f[n + 1] = f[n]
      BY <2>2, <2>4 DEF ClosedAbove
    <3> QED BY <2>1, <2>3, <2>4, <3>1
  <2>5. CASE ~ClosedAbove(f[n], S, parent, c)
    <3>1. PICK y \in more : y \notin f[n]
      BY <2>5 DEF ClosedAbove
    <3>2. Cardinality(f[n]) >= n
      BY <1>4, <2>5
    <3>3. IsFiniteSet(f[n]) /\ IsFiniteSet(f[n + 1])
      BY <2>3, FS_Subset
    <3>4. Cardinality(f[n] \cup {y}) = Cardinality(f[n]) + 1
      BY <3>1, <3>3, FS_AddElement
    <3>5. f[n] \cup {y} \in SUBSET f[n + 1]
      BY <2>2, <3>1
    <3>6. Cardinality(f[n] \cup {y}) <= Cardinality(f[n + 1])
      BY <3>3, <3>5, FS_Subset
    <3>7. Cardinality(f[n]) \in Nat /\ Cardinality(f[n + 1]) \in Nat
      BY <3>3, FS_CardinalityType
    <3>8. Cardinality(f[n + 1]) >= n + 1
      BY <1>1, <3>2, <3>4, <3>6, <3>7
    <3> QED BY <2>1, <2>3, <3>8
  <2> QED BY <2>4, <2>5
<1> HIDE DEF G
<1>5. N \in G
  BY <1>1, <1>3, <1>4, UpTo
<1>6. f[N] \subseteq S
  BY <1>5 DEF G
<1>7. CASE Cardinality(f[N]) >= N
  <2>1. f[N] \in SUBSET S
    BY <1>6
  <2>2. IsFiniteSet(f[N]) /\ Cardinality(f[N]) <= Cardinality(S)
    BY <2>1, FS_Subset
  <2>3. Cardinality(f[N]) \in Nat
    BY <2>2, FS_CardinalityType
  <2>4. Cardinality(S) = Cardinality(f[N])
    BY <1>1, <1>7, <2>2, <2>3
  <2>5. f[N] = S
    BY <2>1, <2>4, FS_Subset
  <2> QED BY <2>5 DEF ClosedAbove
<1> QED BY <1>5, <1>6, <1>7 DEF G

\* The ancestors of an ancestor are ancestors, unless they are the child
\* itself, which a cycle of parents can make its own ancestor.
LEMMA AncestorsOfAncestors ==
  ASSUME NEW S, IsFiniteSet(S), NEW parent, NEW r, NEW x \in Ancestors(S, parent, r)
  PROVE  Ancestors(S, parent, x) \subseteq Ancestors(S, parent, r) \cup {r}
<1> DEFINE N == Cardinality(S)
<1>1. N \in Nat
  BY FS_CardinalityType
<1>2. PICK f : Climbs(f, N, S, parent, r) /\ Ancestors(S, parent, r) = f[N] \ {r}
  BY AncestorsAre
<1>3. PICK g : Climbs(g, N, S, parent, x) /\ Ancestors(S, parent, x) = g[N] \ {x}
  BY AncestorsAre
<1>4. ClosedAbove(f[N], S, parent, r)
  BY <1>2, ClimbsToTheTop
<1>5. /\ g[0] = {}
      /\ \A n \in 0 .. N :
           n < N => g[n + 1] = g[n] \cup ({parent[y] : y \in g[n] \cup {x}} \cap S)
  BY <1>1, <1>3, ClimbSteps
<1> HIDE DEF N
<1> DEFINE G == {n \in 0 .. N : g[n] \subseteq f[N]}
<1>6. 0 \in G
  BY <1>1, <1>5
<1>7. ASSUME NEW n \in 0 .. N, n < N, n \in G PROVE n + 1 \in G
  <2>1. n + 1 \in 0 .. N
    BY <1>1, <1>7
  <2>2. g[n + 1] = g[n] \cup ({parent[y] : y \in g[n] \cup {x}} \cap S)
    BY <1>5, <1>7
  <2>3. x \in f[N]
    BY <1>2
  <2>4. g[n + 1] \subseteq f[N]
    BY <1>4, <1>7, <2>2, <2>3 DEF ClosedAbove
  <2> QED BY <2>1, <2>4
<1> HIDE DEF G
<1>8. N \in G
  BY <1>1, <1>6, <1>7, UpTo
<1> QED BY <1>2, <1>3, <1>8 DEF G

-----------------------------------------------------------------------------
(***************************************************************************)
(* What is read of a transcript.                                           *)
(***************************************************************************)
End == {Done, Failed}
Row == [is : {"work", "call", "return", "result"}, of : Child \cup {0}, ts : Nat]

\* Only a child's result speaks of a child.
Sound(s) == s \in Seq(Row) /\ \A i \in 1 .. Len(s) : s[i].is = "result" => s[i].of \in Child
ResultsOf(s) == {s[i].of : i \in {j \in 1 .. Len(s) : s[j].is = "result"}}

LEMMA AppliedIs ==
  ASSUME NEW k \in ChildState, NEW row \in Row, row.is = "result" => row.of \in Child
  PROVE  /\ Applied(k, row) \in ChildState
         /\ \A c \in Applied(k, row).results :
              c \in k.results \/ (row.is = "result" /\ c = row.of)
<1>1. row.ts \in Nat
  BY DEF Row
<1>2. Applied(k, row) \in ChildState
  <2> DEFINE activity == IF row.ts > k.activity THEN row.ts ELSE k.activity
             start    == IF k.start = 0 THEN row.ts ELSE k.start
             usage    == IF row.is = "work" THEN k.usage + 1 ELSE k.usage
             pending  == IF row.is = "call" THEN 1 ELSE IF row.is = "return" THEN 0 ELSE k.pending
             results  == IF row.is = "result" THEN k.results \cup {row.of} ELSE k.results
  <2>1. /\ k.activity \in Nat /\ k.start \in Nat /\ k.usage \in Nat /\ k.pending \in Nat
        /\ k.results \in SUBSET Child
    BY DEF ChildState
  <2>2. activity \in Nat /\ start \in Nat /\ usage \in Nat /\ pending \in Nat
    BY <1>1, <2>1
  <2>3. results \in SUBSET Child
    BY <2>1
  <2>4. Applied(k, row) =
          [k EXCEPT !.activity = activity, !.start = start, !.usage = usage,
                    !.pending = pending, !.results = results]
    BY DEF Applied
  <2> HIDE DEF activity, start, usage, pending, results
  <2> QED BY <2>2, <2>3, <2>4 DEF ChildState
<1>3. Applied(k, row).results =
        IF row.is = "result" THEN k.results \cup {row.of} ELSE k.results
  BY DEF Applied, ChildState
<1> QED BY <1>2, <1>3

\* What FoldLeft applies to every set of rows, the last of them last.
OneMore(t, g, base, s) ==
  IF t = {} THEN base ELSE Applied(g[t \ {Max(t)}], s[Max(t)])

Accumulates(g, D, base, s) == g = [t \in SUBSET D |-> OneMore(t, g, base, s)]

LEMMA AccumulatorExists ==
  ASSUME NEW base, NEW s, NEW m \in Nat
  PROVE  \E g : Accumulates(g, 1 .. m, base, s)
<1> DEFINE G == {k \in 0 .. m : \E g : g = [t \in SUBSET (1 .. k) |-> OneMore(t, g, base, s)]}
<1>1. 0 \in G
  <2> DEFINE g == [t \in SUBSET (1 .. 0) |-> base]
  <2>1. \A t \in SUBSET (1 .. 0) : t = {}
    OBVIOUS
  <2>2. g = [t \in SUBSET (1 .. 0) |-> OneMore(t, g, base, s)]
    BY <2>1 DEF OneMore
  <2> HIDE DEF g
  <2>3. \E h : h = [t \in SUBSET (1 .. 0) |-> OneMore(t, h, base, s)]
    BY <2>2
  <2> QED BY <2>3
<1>2. ASSUME NEW i \in 0 .. m, i < m, i \in G PROVE i + 1 \in G
  <2>1. PICK f : f = [t \in SUBSET (1 .. i) |-> OneMore(t, f, base, s)]
    BY <1>2
  <2> DEFINE g == [t \in SUBSET (1 .. i + 1) |->
                     IF i + 1 \in t THEN OneMore(t, f, base, s) ELSE f[t]]
  <2>2. ASSUME NEW t \in SUBSET (1 .. i + 1) PROVE g[t] = OneMore(t, g, base, s)
    <3>1. CASE t = {}
      <4>1. t \in SUBSET (1 .. i) /\ i + 1 \notin t
        BY <3>1
      <4>2. g[t] = OneMore(t, f, base, s)
        BY <2>1, <4>1
      <4> HIDE DEF g
      <4> QED BY <3>1, <4>2 DEF OneMore
    <3>2. CASE t # {}
      <4> DEFINE rest == t \ {Max(t)}
      <4>1. Max(t) \in t /\ \A y \in t : Max(t) >= y
        BY <3>2, MaxIs
      <4>2. i + 1 \notin rest /\ rest \in SUBSET (1 .. i + 1) /\ rest \in SUBSET (1 .. i)
        <5>1. ASSUME NEW y \in rest PROVE y \in 1 .. i
          <6>1. y \in 1 .. i + 1 /\ Max(t) \in 1 .. i + 1 /\ y # Max(t) /\ Max(t) >= y
            BY <4>1
          <6> QED BY <6>1
        <5>2. i + 1 \notin 1 .. i
          OBVIOUS
        <5>3. rest \in SUBSET (1 .. i + 1)
          OBVIOUS
        <5> HIDE DEF rest
        <5> QED BY <5>1, <5>2, <5>3
      <4>3. g[rest] = f[rest]
        BY <4>2
      <4>4. g[t] = OneMore(t, f, base, s)
        <5>1. CASE i + 1 \in t
          BY <5>1
        <5>2. CASE i + 1 \notin t
          <6>1. t \in SUBSET (1 .. i)
            BY <5>2
          <6> QED BY <2>1, <5>2, <6>1
        <5> QED BY <5>1, <5>2
      <4> HIDE DEF g
      <4> QED BY <3>2, <4>3, <4>4 DEF OneMore
    <3> QED BY <3>1, <3>2
  <2>3. g = [t \in SUBSET (1 .. i + 1) |-> g[t]]
    OBVIOUS
  <2> HIDE DEF g
  <2>4. g = [t \in SUBSET (1 .. i + 1) |-> OneMore(t, g, base, s)]
    BY <2>2, <2>3
  <2>5. i + 1 \in 0 .. m
    BY <1>2
  <2>6. \E h : h = [t \in SUBSET (1 .. i + 1) |-> OneMore(t, h, base, s)]
    BY <2>4
  <2> QED BY <2>5, <2>6
<1> HIDE DEF G
<1>3. m \in G
  BY <1>1, <1>2, UpTo
<1> QED BY <1>3 DEF G, Accumulates

LEMMA FoldIs ==
  ASSUME NEW base, NEW s \in Seq(Row)
  PROVE  \E g : /\ Accumulates(g, 1 .. Len(s), base, s)
                /\ FoldLeft(Applied, base, s) = g[1 .. Len(s)]
<1> DEFINE D == DOMAIN s
           iter[t \in SUBSET D] ==
             IF t = {} THEN base ELSE Applied(iter[t \ {Max(t)}], s[Max(t)])
<1>1. FoldLeft(Applied, base, s) = iter[D]
  BY DEF FoldLeft, MapThenFoldSet
<1>2. iter = CHOOSE g : Accumulates(g, D, base, s)
  BY DEF Accumulates, OneMore
<1>3. D = 1 .. Len(s) /\ Len(s) \in Nat
  OBVIOUS
<1> HIDE DEF iter, D
<1>4. \E g : Accumulates(g, D, base, s)
  BY <1>3, AccumulatorExists
<1>5. Accumulates(iter, D, base, s)
  BY <1>2, <1>4
<1> QED BY <1>1, <1>3, <1>5

\* Reading rows leaves a child's state one, and the results it knows of are
\* those it knew and those in the rows.
LEMMA FoldResults ==
  ASSUME NEW base \in ChildState, NEW s, Sound(s)
  PROVE  /\ FoldLeft(Applied, base, s) \in ChildState
         /\ FoldLeft(Applied, base, s).results \subseteq base.results \cup ResultsOf(s)
<1>1. s \in Seq(Row) /\ Len(s) \in Nat /\ \A i \in 1 .. Len(s) : s[i] \in Row
  BY DEF Sound
<1>2. PICK g : /\ Accumulates(g, 1 .. Len(s), base, s)
               /\ FoldLeft(Applied, base, s) = g[1 .. Len(s)]
  BY <1>1, FoldIs
<1>3. \A t \in SUBSET (1 .. Len(s)) : g[t] = OneMore(t, g, base, s)
  BY <1>2 DEF Accumulates
<1> DEFINE G == {n \in 0 .. Len(s) : /\ g[1 .. n] \in ChildState
                                     /\ g[1 .. n].results \subseteq base.results \cup ResultsOf(s)}
<1>4. 0 \in G
  <2>1. 1 .. 0 = {} /\ 1 .. 0 \in SUBSET (1 .. Len(s)) /\ 0 \in 0 .. Len(s)
    BY <1>1
  <2>2. g[1 .. 0] = base
    BY <1>3, <2>1 DEF OneMore
  <2> QED BY <2>1, <2>2
<1>5. ASSUME NEW n \in 0 .. Len(s), n < Len(s), n \in G PROVE n + 1 \in G
  <2> DEFINE t == 1 .. n + 1
  <2>1. n + 1 \in 1 .. Len(s) /\ n + 1 \in 0 .. Len(s) /\ t \in SUBSET (1 .. Len(s))
    BY <1>1, <1>5
  <2>2. n + 1 \in t /\ t # {}
    <3>1. n + 1 \in 1 .. n + 1
      OBVIOUS
    <3> QED BY <3>1
  <2>3. Max(t) \in t /\ \A y \in t : Max(t) >= y
    <3>1. n + 1 \in Nat /\ t \in SUBSET (1 .. n + 1)
      OBVIOUS
    <3> HIDE DEF t
    <3> QED BY <2>2, <3>1, MaxIs
  <2>4. Max(t) = n + 1
    <3>1. Max(t) >= n + 1 /\ Max(t) \in 1 .. n + 1
      BY <2>2, <2>3
    <3> QED BY <3>1
  <2>5. t \ {n + 1} = 1 .. n
    OBVIOUS
  <2>6. g[t] = Applied(g[1 .. n], s[n + 1])
    <3>1. g[t] = OneMore(t, g, base, s)
      BY <1>3, <2>1
    <3> HIDE DEF t
    <3> QED BY <2>2, <2>4, <2>5, <3>1 DEF OneMore
  <2>7. s[n + 1] \in Row /\ (s[n + 1].is = "result" => s[n + 1].of \in Child)
    BY <1>1, <2>1 DEF Sound
  <2>8. g[1 .. n] \in ChildState /\ g[1 .. n].results \subseteq base.results \cup ResultsOf(s)
    BY <1>5
  <2>9. /\ Applied(g[1 .. n], s[n + 1]) \in ChildState
        /\ \A c \in Applied(g[1 .. n], s[n + 1]).results :
             c \in g[1 .. n].results \/ (s[n + 1].is = "result" /\ c = s[n + 1].of)
    <3> DEFINE k == g[1 .. n]
               row == s[n + 1]
    <3>1. k \in ChildState /\ row \in Row /\ (row.is = "result" => row.of \in Child)
      BY <2>7, <2>8
    <3> HIDE DEF k, row
    <3>2. /\ Applied(k, row) \in ChildState
          /\ \A c \in Applied(k, row).results :
               c \in k.results \/ (row.is = "result" /\ c = row.of)
      BY <3>1, AppliedIs
    <3> QED BY <3>2 DEF k, row
  <2>10. s[n + 1].is = "result" => s[n + 1].of \in ResultsOf(s)
    BY <2>1 DEF ResultsOf
  <2>11. g[t] \in ChildState /\ g[t].results \subseteq base.results \cup ResultsOf(s)
    BY <2>6, <2>8, <2>9, <2>10
  <2> QED BY <2>1, <2>11
<1> HIDE DEF G
<1>6. Len(s) \in G
  BY <1>1, <1>4, <1>5, UpTo
<1> QED BY <1>2, <1>6 DEF G

-----------------------------------------------------------------------------
(***************************************************************************)
(* The inductive invariant.  Over: c's end is on record.  The properties   *)
(* speak of what is shown, which is made of what the tracker has kept,     *)
(* which was read from the files: each of the three is as sound as the one *)
(* before.                                                                 *)
(***************************************************************************)
Over(c) == c \in Child /\ ended[c] # Unknown
Entry == [type : {"started"} \cup End, of : Child]

Types ==
  /\ now \in Nat /\ read \in Nat
  /\ rows \in [Child -> Seq(Row)] /\ gen \in [Child -> Nat]
  /\ journal \in Seq(Entry)
  /\ answered \subseteq Child /\ resulted \subseteq Child
  /\ notified \in [Child -> End \cup {Unknown}]
  /\ ended \in [Child -> End \cup {Unknown}]
  /\ notifications \in [Child -> End \cup {Unknown}]
  /\ terminal \in [Child -> End \cup {Unknown}]
  /\ children \in [Child -> ChildState \cup {Unknown}]

\* Only the acknowledgement of a background child is written before its end.
World ==
  /\ \A c \in answered : Kind[c] # "background" => Over(c)
  /\ \A c \in Child : \A i \in 1 .. Len(rows[c]) :
       rows[c][i].is = "result" => Over(rows[c][i].of)
  /\ \A c \in Child : notified[c] # Unknown => Over(c)
  /\ \A i \in 1 .. Len(journal) : journal[i].type # "started" => Over(journal[i].of)

Tracker ==
  /\ \A c \in resulted : Kind[c] # "background" => Over(c)
  /\ \A c \in Child : children[c] # Unknown => \A x \in children[c].results : Over(x)
  /\ \A c \in Child : notifications[c] # Unknown => notified[c] # Unknown
  /\ \A c \in Child : terminal[c] # Unknown => Over(c)

Shown ==
  /\ DOMAIN shown.status \subseteq Child
  /\ \A c \in DOMAIN shown.status :
       Ended(shown.status[c]) => Verdict(c, resulted, notifications, terminal) # Unknown

Inv == Types /\ World /\ Tracker /\ Shown

LEMMA Constants ==
  /\ Child \subseteq Nat /\ 0 \notin Child /\ IsFiniteSet(Child)
  /\ Unknown \notin Status /\ Unknown \notin End /\ End \subseteq Status
<1>1. Child \subseteq Nat /\ 0 \notin Child /\ IsFiniteSet(Child)
  BY ChildAssumption
<1>2. Unknown \notin Status /\ Unknown \notin End /\ End \subseteq Status
  BY UnknownAssumption DEF Status, End
<1> QED BY <1>1, <1>2

\* The rows behind a tail are rows of the file.
LEMMA Behind ==
  ASSUME NEW S, NEW s \in Seq(S), NEW a \in Nat
  PROVE  /\ SubSeq(s, a + 1, Len(s)) \in Seq(S)
         /\ \A i \in 1 .. Len(SubSeq(s, a + 1, Len(s))) :
              \E j \in 1 .. Len(s) : SubSeq(s, a + 1, Len(s))[i] = s[j]
<1> DEFINE t == SubSeq(s, a + 1, Len(s))
<1>1. Len(s) \in Nat /\ a + 1 \in Nat
  OBVIOUS
<1>2. CASE a + 1 <= Len(s)
  <2>1. t \in Seq(S) /\ Len(t) = Len(s) - a /\ \A i \in 1 .. Len(t) : t[i] = s[i + a]
    BY <1>1, <1>2
  <2>2. \A i \in 1 .. Len(t) : i + a \in 1 .. Len(s)
    BY <1>1, <2>1
  <2> QED BY <2>1, <2>2
<1>3. CASE ~(a + 1 <= Len(s))
  <2>1. t = <<>>
    BY <1>1, <1>3
  <2> QED BY <2>1
<1> QED BY <1>2, <1>3

-----------------------------------------------------------------------------
(***************************************************************************)
(* One read of a child's transcript, and of the journal.                   *)
(***************************************************************************)
\* A child's state that knows of no result that is not on record.
Knows(k) == k \in ChildState /\ \A x \in k.results : Over(x)

LEMMA ObservedKnows ==
  ASSUME Types, NEW c \in Child, NEW k, Knows(k)
  PROVE  Knows(Observed(k, c))
<1> DEFINE growth == IF k.inode # 0 /\ (k.size # Len(rows[c]) \/ k.inode # gen[c])
                     THEN now ELSE k.growth
           size == Len(rows[c])
           inode == gen[c]
<1>1. size \in Nat /\ inode \in Nat /\ now \in Nat
  BY DEF Types
<1>2. growth \in Nat
  BY <1>1 DEF Knows, ChildState
<1>3. Observed(k, c) = [k EXCEPT !.growth = growth, !.size = size, !.inode = inode]
  BY DEF Observed
<1> HIDE DEF growth, size, inode
<1>4. Observed(k, c) \in ChildState /\ Observed(k, c).results = k.results
  BY <1>1, <1>2, <1>3 DEF Knows, ChildState
<1> QED BY <1>4 DEF Knows

LEMMA TailedKnows ==
  ASSUME Types, World, NEW c \in Child, NEW k, Knows(k)
  PROVE  Knows(Tailed(k, c))
<1> DEFINE again == k.tailInode # 0 /\ k.tailInode # gen[c]
           from == IF again THEN 0 ELSE k.offset
           base == IF again THEN Reset(k) ELSE k
           new  == SubSeq(rows[c], from + 1, Len(rows[c]))
           all  == FoldLeft(Applied, base, new)
<1>1. Tailed(k, c) = [all EXCEPT !.offset = Len(rows[c]), !.tailInode = gen[c]]
  BY DEF Tailed
<1>2. from \in Nat
  BY DEF Knows, ChildState
<1>3. base \in ChildState /\ base.results = k.results
  <2>1. Reset(k) \in ChildState /\ Reset(k).results = k.results
    BY DEF Knows, ChildState, Reset
  <2> QED BY <2>1 DEF Knows
<1>4. rows[c] \in Seq(Row) /\ Len(rows[c]) \in Nat /\ gen[c] \in Nat
  BY DEF Types
<1> HIDE DEF again, from, base
<1>5. /\ new \in Seq(Row)
      /\ \A i \in 1 .. Len(new) : \E j \in 1 .. Len(rows[c]) : new[i] = rows[c][j]
  BY <1>2, <1>4, Behind
<1> HIDE DEF new
<1>6. \A i \in 1 .. Len(new) : new[i].is = "result" => Over(new[i].of)
  BY <1>5 DEF World
<1>7. Sound(new) /\ \A x \in ResultsOf(new) : Over(x)
  BY <1>5, <1>6 DEF Sound, ResultsOf, Over
<1>8. all \in ChildState /\ all.results \subseteq base.results \cup ResultsOf(new)
  BY <1>3, <1>7, FoldResults
<1> HIDE DEF all
<1>9. Tailed(k, c) \in ChildState /\ Tailed(k, c).results = all.results
  BY <1>1, <1>4, <1>8 DEF ChildState
<1> QED BY <1>3, <1>7, <1>8, <1>9 DEF Knows

LEMMA ReadChildKnows ==
  ASSUME Types, World, NEW c \in Child, NEW k, Knows(k), NEW fault
  PROVE  Knows(ReadChild(k, c, fault))
<1>1. Knows(Observed(k, c))
  BY ObservedKnows
<1>2. Knows(Tailed(Observed(k, c), c))
  <2> DEFINE o == Observed(k, c)
  <2>1. Knows(o)
    BY <1>1
  <2> HIDE DEF o
  <2>2. Knows(Tailed(o, c))
    BY <2>1, TailedKnows
  <2> QED BY <2>2 DEF o
<1> QED BY <1>1, <1>2 DEF ReadChild

LEMMA NewKnows == Knows(New)
BY DEF Knows, New, ChildState

LEMMA ScannedKnows ==
  ASSUME Types, World, Tracker, NEW fault
  PROVE  /\ Scanned(fault) \in [Child -> ChildState \cup {Unknown}]
         /\ \A c \in Child :
              /\ Scanned(fault)[c] # Unknown => Knows(Scanned(fault)[c])
              /\ InWorkflow(c) /\ fault.at = "workflows" => Scanned(fault)[c] = Unknown
<1>1. \A c \in Child : children[c] # Unknown => Knows(children[c])
  BY DEF Types, Tracker, Knows
<1>2. \A c \in Child : children[c] # Unknown => Knows(ReadChild(children[c], c, fault))
  BY <1>1, ReadChildKnows
<1>3. \A c \in Child : Knows(ReadChild(New, c, fault))
  BY NewKnows, ReadChildKnows
<1>4. ASSUME NEW c \in Child
      PROVE  /\ Scanned(fault)[c] = Unknown \/ Knows(Scanned(fault)[c])
             /\ InWorkflow(c) /\ fault.at = "workflows" => Scanned(fault)[c] = Unknown
  BY <1>2, <1>3 DEF Scanned
<1>5. \A c \in Child : Scanned(fault)[c] \in ChildState \cup {Unknown}
  BY <1>4 DEF Knows
<1>6. Scanned(fault) = [c \in Child |-> Scanned(fault)[c]]
  BY DEF Scanned
<1>7. Scanned(fault) \in [Child -> ChildState \cup {Unknown}]
  BY <1>5, <1>6
<1> QED BY <1>4, <1>7

\* Facts read are never forgotten, and new ones are of records.
LEMMA DecodedIs ==
  ASSUME NEW known \in [Child -> End \cup {Unknown}], NEW records \in Seq(Entry)
  PROVE  /\ Decoded(known, records) \in [Child -> End \cup {Unknown}]
         /\ \A c \in Child :
              /\ known[c] # Unknown => Decoded(known, records)[c] # Unknown
              /\ Decoded(known, records)[c] # Unknown =>
                   \/ known[c] # Unknown
                   \/ \E i \in 1 .. Len(records) : records[i].of = c /\ records[i].type # "started"
<1> DEFINE ends(c) == {i \in DOMAIN records : records[i].of = c /\ records[i].type # "started"}
<1>1. ASSUME NEW c \in Child, ends(c) # {}
      PROVE  Max(ends(c)) \in ends(c)
  <2>1. Len(records) \in Nat /\ ends(c) \in SUBSET (1 .. Len(records))
    OBVIOUS
  <2> HIDE DEF ends
  <2> QED BY <1>1, <2>1, MaxIs
<1>2. ASSUME NEW c \in Child
      PROVE  Decoded(known, records)[c] = IF ends(c) = {} THEN known[c] ELSE records[Max(ends(c))].type
  BY DEF Decoded
<1>3. ASSUME NEW c \in Child, NEW i \in ends(c)
      PROVE  /\ i \in 1 .. Len(records) /\ records[i].of = c /\ records[i].type # "started"
             /\ records[i].type \in End
  <2>1. i \in 1 .. Len(records) /\ records[i].of = c /\ records[i].type # "started"
    OBVIOUS
  <2>2. records[i] \in Entry
    BY <2>1
  <2> QED BY <2>1, <2>2 DEF Entry
<1> HIDE DEF ends
<1>4. ASSUME NEW c \in Child
      PROVE  /\ Decoded(known, records)[c] \in End \cup {Unknown}
             /\ known[c] # Unknown => Decoded(known, records)[c] # Unknown
             /\ Decoded(known, records)[c] # Unknown =>
                  \/ known[c] # Unknown
                  \/ \E i \in 1 .. Len(records) : records[i].of = c /\ records[i].type # "started"
  BY <1>1, <1>2, <1>3, Constants
<1>5. Decoded(known, records) = [c \in Child |-> Decoded(known, records)[c]]
  BY DEF Decoded
<1>6. Decoded(known, records) \in [Child -> End \cup {Unknown}]
  BY <1>4, <1>5
<1> QED BY <1>4, <1>6

LEMMA JournalIs ==
  ASSUME Types, World, Tracker, NEW fault
  PROVE  /\ Journal(fault).read \in Nat
         /\ Journal(fault).terminal \in [Child -> End \cup {Unknown}]
         /\ \A c \in Child :
              /\ Journal(fault).terminal[c] # Unknown => Over(c)
              /\ fault.at # "workflows" /\ terminal[c] # Unknown =>
                   Journal(fault).terminal[c] # Unknown
<1>1. CASE fault.at = "workflows"
  BY <1>1 DEF Journal, NoTerminal
<1>2. CASE fault.at # "workflows" /\ fault.at = "journal"
  BY <1>2 DEF Journal, Types, Tracker
<1>3. CASE fault.at # "workflows" /\ fault.at # "journal"
  <2> DEFINE new == SubSeq(journal, read + 1, Len(journal))
             facts == Decoded(terminal, new)
  <2>1. Journal(fault) = [read |-> Len(journal), terminal |-> facts]
    BY <1>3 DEF Journal
  <2>2. journal \in Seq(Entry) /\ Len(journal) \in Nat /\ read \in Nat
        /\ terminal \in [Child -> End \cup {Unknown}]
    BY DEF Types
  <2>3. /\ new \in Seq(Entry)
        /\ \A i \in 1 .. Len(new) : \E j \in 1 .. Len(journal) : new[i] = journal[j]
    BY <2>2, Behind
  <2> HIDE DEF new
  <2>4. \A i \in 1 .. Len(new) : new[i].type # "started" => Over(new[i].of)
    BY <2>3 DEF World
  <2>5. /\ facts \in [Child -> End \cup {Unknown}]
        /\ \A c \in Child :
             /\ terminal[c] # Unknown => facts[c] # Unknown
             /\ facts[c] # Unknown =>
                  \/ terminal[c] # Unknown
                  \/ \E i \in 1 .. Len(new) : new[i].of = c /\ new[i].type # "started"
    BY <2>2, <2>3, DecodedIs
  <2> HIDE DEF facts
  <2>6. \A c \in Child : facts[c] # Unknown => Over(c)
    BY <2>4, <2>5 DEF Tracker
  <2> QED BY <2>1, <2>2, <2>5, <2>6
<1> QED BY <1>1, <1>2, <1>3

-----------------------------------------------------------------------------
(***************************************************************************)
(* What is shown.  Shows: the status is propagated from one that each of   *)
(* the children S was told, ended exactly where there is a verdict.        *)
(***************************************************************************)
Shows(what, S, st, res, notes, term) ==
  /\ S \subseteq Child /\ st \in [S -> Status]
  /\ what.status = Propagated(S, Parent, st)
  /\ what.run = RunStatus({what.status[c] : c \in {x \in S : InWorkflow(x)}})
  /\ \A c \in S : Ended(st[c]) <=> Verdict(c, res, notes, term) # Unknown

\* Propagation changes nobody but the idle, and these to running.
LEMMA PropagatedIs ==
  ASSUME NEW S, NEW st \in [S -> Status]
  PROVE  /\ DOMAIN Propagated(S, Parent, st) = S
         /\ \A c \in S : /\ Propagated(S, Parent, st)[c] \in Status
                         /\ \/ Propagated(S, Parent, st)[c] = st[c]
                            \/ st[c] = Idle /\ Propagated(S, Parent, st)[c] = Running
BY DEF Propagated, Status

LEMMA EndedAsTold ==
  ASSUME NEW what, NEW S, NEW st, NEW res, NEW notes, NEW term,
         Shows(what, S, st, res, notes, term)
  PROVE  /\ DOMAIN what.status = S
         /\ \A c \in S : Ended(what.status[c]) <=> Verdict(c, res, notes, term) # Unknown
<1>1. \A c \in S : Ended(what.status[c]) <=> Ended(st[c])
  BY PropagatedIs DEF Shows, Ended, Idle, Running, Done, Failed
<1> QED BY <1>1, PropagatedIs DEF Shows

\* Whoever was told to be running, or waits behind one, runs; and so does
\* whoever waits behind these.
LEMMA NobodyWaitsIdle ==
  ASSUME NEW S \in SUBSET Child, NEW st \in [S -> Status],
         NEW c \in S, Propagated(S, Parent, st)[c] = Running,
         NEW a \in S, a \in Ancestors(S, Parent, c)
  PROVE  Propagated(S, Parent, st)[a] # Idle
<1>1. IsFiniteSet(S)
  BY Constants, FS_Subset
<1>2. PICK r \in S : st[r] = Running /\ (a = r \/ a \in Ancestors(S, Parent, r))
  <2>1. CASE st[c] = Running
    BY <2>1
  <2>2. CASE st[c] # Running
    <3>1. PICK r \in S : st[r] = Running /\ c \in Ancestors(S, Parent, r)
      BY <2>2 DEF Propagated
    <3>2. a \in Ancestors(S, Parent, r) \cup {r}
      BY <1>1, <3>1, AncestorsOfAncestors
    <3> QED BY <3>1, <3>2
  <2> QED BY <2>1, <2>2
<1> QED BY <1>2 DEF Propagated, Running, Idle

\* UnfinishedShows, of whatever is shown.
Unfinished(what) ==
  LET S == DOMAIN what.status IN
  /\ \A c \in S : what.status[c] = Running =>
       \A a \in Ancestors(S, Parent, c) : what.status[a] # Idle
  /\ Ended(what.run) => \A c \in S : InWorkflow(c) => Ended(what.status[c])

LEMMA ShowsUnfinished ==
  ASSUME NEW what, NEW S, NEW st, NEW res, NEW notes, NEW term, Shows(what, S, st, res, notes, term)
  PROVE  Unfinished(what)
<1>1. S \subseteq Child /\ st \in [S -> Status] /\ what.status = Propagated(S, Parent, st)
  BY DEF Shows
<1>2. DOMAIN what.status = S /\ \A c \in S : what.status[c] \in Status
  BY <1>1, PropagatedIs
<1>3. ASSUME NEW c \in S, what.status[c] = Running,
             NEW a \in Ancestors(S, Parent, c)
      PROVE  what.status[a] # Idle
  <2>1. a \in S
    <3>1. IsFiniteSet(S)
      BY <1>1, Constants, FS_Subset
    <3>2. PICK f : /\ Climbs(f, Cardinality(S), S, Parent, c)
                   /\ Ancestors(S, Parent, c) = f[Cardinality(S)] \ {c}
      BY <3>1, AncestorsAre
    <3>3. f[Cardinality(S)] \subseteq S
      BY <3>1, <3>2, ClimbsToTheTop
    <3> QED BY <3>2, <3>3
  <2> QED BY <1>1, <1>3, <2>1, NobodyWaitsIdle
<1>4. ASSUME Ended(what.run), NEW c \in S, InWorkflow(c) PROVE Ended(what.status[c])
  <2> DEFINE all == {what.status[x] : x \in {y \in S : InWorkflow(y)}}
  <2>1. what.status[c] \in all
    BY <1>4
  <2>2. Running \notin all /\ Idle \notin all
    <3>1. what.run = RunStatus(all)
      BY DEF Shows
    <3> HIDE DEF all
    <3> QED BY <1>4, <2>1, <3>1 DEF RunStatus, Ended, Running, Idle, Done, Failed
  <2>3. what.status[c] # Running /\ what.status[c] # Idle
    BY <2>1, <2>2
  <2> QED BY <1>2, <2>3 DEF Ended, Status
<1> QED BY <1>2, <1>3, <1>4 DEF Unfinished

-----------------------------------------------------------------------------
(***************************************************************************)
(* A poll.                                                                 *)
(***************************************************************************)
\* A verdict is an end, and that of somebody whose end is on record.
LEMMA VerdictIs ==
  ASSUME NEW c \in Child, NEW res,
         NEW notes \in [Child -> End \cup {Unknown}],
         NEW term \in [Child -> End \cup {Unknown}]
  PROVE  Verdict(c, res, notes, term) \in End \cup {Unknown}
BY DEF Verdict, End

LEMMA VerdictIsOver ==
  ASSUME Inv, NEW c \in Child, Verdict(c, resulted, notifications, terminal) # Unknown
  PROVE  Over(c)
<1>1. \A x \in Child : notifications[x] # Unknown => Over(x)
  BY DEF Inv, World, Tracker
<1>2. c \in resulted /\ Kind[c] # "background" => Over(c)
  BY DEF Inv, Tracker
<1>3. terminal[c] # Unknown => Over(c)
  BY DEF Inv, Tracker
<1> QED BY <1>1, <1>2, <1>3 DEF Verdict

\* Collect's part about what is shown, with what the tracker is then.
LEMMA SnapshotShows ==
  ASSUME NEW kids \in [Child -> ChildState \cup {Unknown}], NEW res,
         NEW notes \in [Child -> End \cup {Unknown}],
         NEW term \in [Child -> End \cup {Unknown}], NEW what,
         what = Snapshot(Told(kids, res, notes, term), kids)
  PROVE  \E st : Shows(what, {c \in Child : kids[c] # Unknown}, st, res, notes, term)
<1> DEFINE S  == {c \in Child : kids[c] # Unknown}
           st == [c \in S |-> IF Verdict(c, res, notes, term) # Unknown
                              THEN Verdict(c, res, notes, term) ELSE Inferred(kids[c])]
<1>1. \A c \in S : Verdict(c, res, notes, term) \in End \cup {Unknown}
  BY VerdictIs
<1>2. \A c \in S : Inferred(kids[c]) \in {Running, Idle}
  BY DEF Inferred
<1>3. \A c \in S : st[c] \in Status /\ (Ended(st[c]) <=> Verdict(c, res, notes, term) # Unknown)
  BY <1>1, <1>2, Constants DEF End, Ended, Status, Running, Idle, Done, Failed
<1>4. Told(kids, res, notes, term) = Propagated(S, Parent, st)
  BY DEF Told
<1>5. st \in [S -> Status]
  BY <1>3
<1> HIDE DEF st
<1>6. DOMAIN Propagated(S, Parent, st) = S
  BY <1>5, PropagatedIs
<1>7. /\ what.status = Propagated(S, Parent, st)
      /\ what.run = RunStatus({what.status[c] : c \in {x \in S : InWorkflow(x)}})
  BY <1>4, <1>6 DEF Snapshot
<1>8. Shows(what, S, st, res, notes, term)
  BY <1>3, <1>5, <1>7 DEF Shows
<1> QED BY <1>8

\* What a poll leaves the tracker with, and what it shows.
Collected(S, st) ==
  /\ Types' /\ World' /\ Tracker'
  /\ Shows(shown', S, st, resulted', notifications', terminal')
  /\ \A c \in S : Verdict(c, resulted, notifications, terminal) # Unknown =>
                    Verdict(c, resulted', notifications', terminal') # Unknown

LEMMA CollectIs ==
  ASSUME Inv, NEW fault, Collect(fault)
  PROVE  \E S, st : Collected(S, st)
<1> DEFINE kids == Scanned(fault)
           j    == Journal(fault)
           res  == resulted \cup answered
                     \cup UNION {kids[c].results : c \in {x \in Child : kids[x] # Unknown}}
           S    == {c \in Child : kids[c] # Unknown}
<1>1. /\ children' = kids /\ resulted' = res /\ notifications' = notified
      /\ read' = j.read /\ terminal' = j.terminal
      /\ shown' = Snapshot(Told(kids, res, notified, j.terminal), kids)
      /\ UNCHANGED <<now, world>>
  BY DEF Collect
<1>2. Types /\ World /\ Tracker
  BY DEF Inv
<1>3. /\ kids \in [Child -> ChildState \cup {Unknown}]
      /\ \A c \in Child :
           /\ kids[c] # Unknown => Knows(kids[c])
           /\ InWorkflow(c) /\ fault.at = "workflows" => kids[c] = Unknown
  BY <1>2, ScannedKnows
<1>4. /\ j.read \in Nat
      /\ j.terminal \in [Child -> End \cup {Unknown}]
      /\ \A c \in Child :
           /\ j.terminal[c] # Unknown => Over(c)
           /\ fault.at # "workflows" /\ terminal[c] # Unknown => j.terminal[c] # Unknown
  BY <1>2, JournalIs
<1>5. /\ res \subseteq Child /\ resulted \subseteq res /\ answered \subseteq res
      /\ \A c \in res : Kind[c] # "background" => Over(c)
  <2>1. \A c \in Child : kids[c] # Unknown => \A x \in kids[c].results : Over(x)
    BY <1>3 DEF Knows
  <2>2. \A x \in res : x \in resulted \/ x \in answered \/ Over(x)
    BY <2>1
  <2>3. resulted \subseteq Child /\ answered \subseteq Child
    BY <1>2 DEF Types
  <2>4. resulted \subseteq res /\ answered \subseteq res
    OBVIOUS
  <2> HIDE DEF res
  <2> QED BY <1>2, <2>2, <2>3, <2>4 DEF World, Tracker, Over
<1> HIDE DEF res, j, kids
<1>6. Types'
  <2>1. /\ now' = now /\ rows' = rows /\ gen' = gen /\ journal' = journal
        /\ answered' = answered /\ notified' = notified /\ ended' = ended
    BY <1>1 DEF world
  <2> QED BY <1>1, <1>2, <1>3, <1>4, <1>5, <2>1 DEF Types
<1>7. /\ answered' = answered /\ rows' = rows /\ journal' = journal
      /\ notified' = notified /\ ended' = ended
  BY <1>1 DEF world
<1>8. \A c : Over(c) <=> Over(c)'
  BY <1>7 DEF Over
<1>9. World'
  BY <1>2, <1>7, <1>8 DEF World
<1>10. Tracker'
  <2>1. \A c \in resulted' : Kind[c] # "background" => Over(c)'
    BY <1>1, <1>5, <1>8
  <2>2. \A c \in Child : children'[c] # Unknown => \A x \in children'[c].results : Over(x)'
    BY <1>1, <1>3, <1>8 DEF Knows
  <2>3. \A c \in Child : notifications'[c] # Unknown => notified'[c] # Unknown
    BY <1>1, <1>7
  <2>4. \A c \in Child : terminal'[c] # Unknown => Over(c)'
    BY <1>1, <1>4, <1>8
  <2> QED BY <2>1, <2>2, <2>3, <2>4 DEF Tracker
<1>11. PICK st : Shows(shown', {c \in Child : kids[c] # Unknown}, st, res, notified, j.terminal)
  <2>1. notified \in [Child -> End \cup {Unknown}]
    BY <1>2 DEF Types
  <2> DEFINE what == shown'
             term == j.terminal
  <2>2. what = Snapshot(Told(kids, res, notified, term), kids) /\ term \in [Child -> End \cup {Unknown}]
    BY <1>1, <1>4
  <2> HIDE DEF what, term
  <2>3. \E st : Shows(what, {c \in Child : kids[c] # Unknown}, st, res, notified, term)
    BY <1>3, <2>1, <2>2, SnapshotShows
  <2> QED BY <2>3 DEF what, term
<1>12. Shows(shown', S, st, resulted', notifications', terminal')
  BY <1>1, <1>11
<1>13. \A c \in S : Verdict(c, resulted, notifications, terminal) # Unknown =>
                      Verdict(c, resulted', notifications', terminal') # Unknown
  <2> SUFFICES ASSUME NEW c \in S, Verdict(c, resulted, notifications, terminal) # Unknown
               PROVE  Verdict(c, res, notified, j.terminal) # Unknown
    BY <1>1
  <2>1. CASE InWorkflow(c)
    <3>1. fault.at # "workflows"
      BY <1>3, <2>1
    <3>2. terminal[c] # Unknown
      BY <2>1 DEF Verdict
    <3>3. j.terminal[c] # Unknown
      BY <1>4, <3>1, <3>2
    <3> QED BY <2>1, <3>3 DEF Verdict
  <2>2. CASE ~InWorkflow(c) /\ Kind[c] = "background"
    <3>1. notifications[c] # Unknown
      BY <2>2 DEF Verdict
    <3>2. notified[c] # Unknown
      BY <1>2, <3>1 DEF Tracker
    <3> QED BY <2>2, <3>2 DEF Verdict
  <2>3. CASE ~InWorkflow(c) /\ Kind[c] # "background"
    <3>1. c \in resulted
      BY <2>3 DEF Verdict
    <3>2. c \in res /\ Done # Unknown
      BY <1>5, <3>1, Constants DEF End
    <3> QED BY <2>3, <3>2 DEF Verdict
  <2> QED BY <2>1, <2>2, <2>3
<1>14. Collected(S, st)
  BY <1>6, <1>9, <1>10, <1>12, <1>13 DEF Collected
<1> HIDE DEF S
<1> QED BY <1>14

EndsStay ==
  \A c \in DOMAIN shown.status :
    Ended(shown.status[c]) /\ c \in DOMAIN shown'.status => Ended(shown'.status[c])

LEMMA CollectKeeps ==
  ASSUME Inv, NEW fault, Collect(fault)
  PROVE  Inv' /\ EndsStay /\ UnfinishedShows'
<1>1. PICK S, st : Collected(S, st)
  BY CollectIs
<1>2. Shows(shown', S, st, resulted', notifications', terminal') /\ S \subseteq Child
  BY <1>1 DEF Collected, Shows
<1>3. /\ DOMAIN shown'.status = S
      /\ \A c \in S : Ended(shown'.status[c]) <=>
                        Verdict(c, resulted', notifications', terminal') # Unknown
  <2> DEFINE what == shown'
             res  == resulted'
             notes == notifications'
             term == terminal'
  <2>1. Shows(what, S, st, res, notes, term)
    BY <1>2
  <2> HIDE DEF what, res, notes, term
  <2>2. /\ DOMAIN what.status = S
        /\ \A c \in S : Ended(what.status[c]) <=> Verdict(c, res, notes, term) # Unknown
    BY <2>1, EndedAsTold
  <2> QED BY <2>2 DEF what, res, notes, term
<1>4. Shown'
  BY <1>2, <1>3 DEF Shown, Verdict, Ended, InWorkflow
<1>5. EndsStay
  <2>1. \A c \in DOMAIN shown.status :
          Ended(shown.status[c]) => Verdict(c, resulted, notifications, terminal) # Unknown
    BY DEF Inv, Shown
  <2> QED BY <1>1, <1>3, <2>1 DEF EndsStay, Collected
<1>6. UnfinishedShows'
  <2> DEFINE what == shown'
             res  == resulted'
             notes == notifications'
             term == terminal'
  <2>1. Shows(what, S, st, res, notes, term)
    BY <1>2
  <2> HIDE DEF what, res, notes, term
  <2>2. Unfinished(what)
    BY <2>1, ShowsUnfinished
  <2> QED BY <2>2 DEF what, Unfinished, UnfinishedShows
<1> QED BY <1>1, <1>4, <1>5, <1>6 DEF Inv, Collected

-----------------------------------------------------------------------------
(***************************************************************************)
(* The other steps leave what is shown as it is, and put ends on record.   *)
(***************************************************************************)
LEMMA InitHolds == Init => Inv /\ UnfinishedShows
<1> SUFFICES ASSUME Init PROVE Inv /\ UnfinishedShows
  OBVIOUS
<1> DEFINE none == [c \in {} |-> Idle]
<1>1. /\ now = 1 /\ read = 0 /\ journal = <<>> /\ answered = {} /\ resulted = {}
      /\ rows = [c \in Child |-> <<>>] /\ gen = [c \in Child |-> 0]
      /\ notified = NoTerminal /\ ended = NoTerminal /\ notifications = NoTerminal
      /\ terminal = NoTerminal /\ children = NoTerminal
      /\ shown = Snapshot(none, children)
  BY DEF Init
<1>2. Types
  BY <1>1 DEF Types, NoTerminal
<1>3. World /\ Tracker
  BY <1>1 DEF World, Tracker, NoTerminal
<1>4. DOMAIN shown.status = {} /\ shown.run = RunStatus({})
  <2>1. shown.status = none
    BY <1>1 DEF Snapshot
  <2>2. shown.run = RunStatus({none[c] : c \in {x \in DOMAIN none : InWorkflow(x)}})
    BY <1>1 DEF Snapshot
  <2>3. {none[c] : c \in {x \in DOMAIN none : InWorkflow(x)}} = {}
    OBVIOUS
  <2>4. DOMAIN none = {}
    OBVIOUS
  <2> HIDE DEF none
  <2> QED BY <2>1, <2>2, <2>3, <2>4
<1>5. Shown
  BY <1>4 DEF Shown
<1>6. UnfinishedShows
  BY <1>4 DEF UnfinishedShows
<1> QED BY <1>2, <1>3, <1>5, <1>6 DEF Inv

\* The files' steps leave the tracker and what is shown alone, and take no end
\* from the record.
OnRecord ==
  /\ Types' /\ World'
  /\ UNCHANGED <<tracker, shown>>
  /\ \A c \in Child : /\ ended[c] # Unknown => ended'[c] # Unknown
                      /\ notified[c] # Unknown => notified'[c] # Unknown

LEMMA OnRecordKeeps ==
  ASSUME Inv, OnRecord
  PROVE  Inv' /\ EndsStay
<1>1. /\ children' = children /\ resulted' = resulted /\ notifications' = notifications
      /\ read' = read /\ terminal' = terminal /\ shown' = shown
  BY DEF OnRecord, tracker
<1>2. \A c : Over(c) => Over(c)'
  BY DEF OnRecord, Over
<1>3. Tracker'
  BY <1>1, <1>2 DEF Inv, Tracker, OnRecord
<1>4. Shown'
  BY <1>1 DEF Inv, Shown, Verdict
<1>5. EndsStay
  BY <1>1 DEF EndsStay
<1> QED BY <1>3, <1>4, <1>5 DEF Inv, OnRecord

\* A row that grows a transcript is a row, and tells of an end on record only.
LEMMA GrowIs ==
  ASSUME Types, NEW c \in Child, NEW row \in Row, Grow(c, row)
  PROVE  /\ rows' \in [Child -> Seq(Row)] /\ gen' \in [Child -> Nat]
         /\ \A d \in Child : \A i \in 1 .. Len(rows'[d]) :
              rows'[d][i] = row \/ (i \in 1 .. Len(rows[d]) /\ rows'[d][i] = rows[d][i])
<1>1. rows \in [Child -> Seq(Row)] /\ gen \in [Child -> Nat]
  BY DEF Types
<1>2. /\ rows' = [rows EXCEPT ![c] = Append(rows[c], row)]
      /\ gen' = [gen EXCEPT ![c] = IF gen[c] = 0 THEN 1 ELSE gen[c]]
  BY DEF Grow
<1>3. rows[c] \in Seq(Row) /\ Append(rows[c], row) \in Seq(Row)
  BY <1>1
<1>4. rows' \in [Child -> Seq(Row)] /\ gen' \in [Child -> Nat]
  BY <1>1, <1>2, <1>3
<1>5. ASSUME NEW d \in Child, NEW i \in 1 .. Len(rows'[d])
      PROVE  rows'[d][i] = row \/ (i \in 1 .. Len(rows[d]) /\ rows'[d][i] = rows[d][i])
  <2>1. CASE d = c
    <3>1. rows'[d] = Append(rows[c], row)
      BY <1>1, <1>2, <2>1
    <3>2. i \in 1 .. Len(rows[c]) + 1
      BY <1>3, <3>1
    <3>3. i = Len(rows[c]) + 1 \/ i \in 1 .. Len(rows[c])
      BY <1>3, <3>2
    <3> QED BY <1>3, <2>1, <3>1, <3>3
  <2>2. CASE d # c
    <3>1. rows'[d] = rows[d]
      BY <1>1, <1>2, <2>2
    <3> QED BY <3>1
  <2> QED BY <2>1, <2>2
<1> QED BY <1>4, <1>5

LEMMA SpawnKeeps ==
  ASSUME Inv, NEW c \in Child, Spawn(c) PROVE OnRecord
<1>1. /\ answered' = IF Kind[c] = "background" THEN answered \cup {c} ELSE answered
      /\ UNCHANGED <<now, rows, gen, notified, journal, ended, tracker, shown>>
  BY DEF Spawn
<1>2. Types'
  BY <1>1 DEF Inv, Types, tracker
<1>3. World'
  BY <1>1 DEF Inv, World, Over
<1> QED BY <1>1, <1>2, <1>3 DEF OnRecord

LEMMA WorkKeeps ==
  ASSUME Inv, NEW c \in Child, Work(c) PROVE OnRecord
<1>1. PICK is \in {"work", "call", "return"} : Grow(c, [is |-> is, of |-> 0, ts |-> now])
  BY DEF Work
<1>2. UNCHANGED <<now, meta, answered, notified, journal, ended, tracker, shown>>
  BY DEF Work
<1> DEFINE row == [is |-> is, of |-> 0, ts |-> now]
<1>3. row \in Row /\ row.is # "result"
  BY DEF Inv, Types, Row
<1>4. Grow(c, row)
  BY <1>1
<1> HIDE DEF row
<1>5. /\ rows' \in [Child -> Seq(Row)] /\ gen' \in [Child -> Nat]
      /\ \A d \in Child : \A i \in 1 .. Len(rows'[d]) :
           rows'[d][i] = row \/ (i \in 1 .. Len(rows[d]) /\ rows'[d][i] = rows[d][i])
  BY <1>3, <1>4, GrowIs DEF Inv
<1>6. Types'
  BY <1>2, <1>5 DEF Inv, Types, tracker
<1>7. \A d \in Child : \A i \in 1 .. Len(rows'[d]) :
        rows'[d][i].is = "result" => Over(rows'[d][i].of)
  <2> SUFFICES ASSUME NEW d \in Child, NEW i \in 1 .. Len(rows'[d]), rows'[d][i].is = "result"
               PROVE  Over(rows'[d][i].of)
    OBVIOUS
  <2>1. i \in 1 .. Len(rows[d]) /\ rows'[d][i] = rows[d][i]
    BY <1>3, <1>5
  <2> QED BY <2>1 DEF Inv, World
<1>8. ended' = ended /\ answered' = answered /\ notified' = notified /\ journal' = journal
  BY <1>2
<1>9. World'
  BY <1>7, <1>8 DEF Inv, World, Over
<1> QED BY <1>2, <1>6, <1>9 DEF OnRecord

LEMMA RewriteKeeps ==
  ASSUME Inv, NEW c \in Child, Rewrite(c) PROVE OnRecord
<1>1. /\ gen' = [gen EXCEPT ![c] = gen[c] + 1] /\ rows' = [rows EXCEPT ![c] = <<>>]
      /\ UNCHANGED <<now, meta, answered, notified, journal, ended, tracker, shown>>
  BY DEF Rewrite
<1>2. rows \in [Child -> Seq(Row)] /\ gen \in [Child -> Nat]
  BY DEF Inv, Types
<1>3. rows' \in [Child -> Seq(Row)] /\ gen' \in [Child -> Nat]
  BY <1>1, <1>2
<1>4. Types'
  BY <1>1, <1>3 DEF Inv, Types, tracker
<1>5. \A d \in Child : rows'[d] = rows[d] \/ rows'[d] = <<>>
  BY <1>1, <1>2
<1>6. World'
  BY <1>1, <1>5 DEF Inv, World, Over
<1> QED BY <1>1, <1>4, <1>6 DEF OnRecord

LEMMA AnswerKeeps ==
  ASSUME Inv, NEW c \in Child, Answer(c) PROVE OnRecord
<1>1. /\ ended' = [ended EXCEPT ![c] = Done]
      /\ UNCHANGED <<now, meta, notified, journal, tracker, shown>>
      /\ \/ Spawner(c) = 0 /\ answered' = answered \cup {c} /\ UNCHANGED <<rows, gen>>
         \/ /\ Spawner(c) # 0 /\ UNCHANGED answered
            /\ Grow(Spawner(c), [is |-> "result", of |-> c, ts |-> now])
  BY DEF Answer
<1>2. ended \in [Child -> End \cup {Unknown}] /\ Done \in End /\ Done # Unknown
  BY Constants DEF Inv, Types, End
<1>3. ended' \in [Child -> End \cup {Unknown}]
  BY <1>1, <1>2
<1>4. \A d : Over(d) => Over(d)'
  BY <1>1, <1>2 DEF Over
<1>5. Over(c)'
  BY <1>1, <1>2 DEF Over
<1>6. CASE Spawner(c) = 0
  <2>1. answered' = answered \cup {c} /\ UNCHANGED <<rows, gen>>
    BY <1>1, <1>6
  <2>2. Types'
    BY <1>1, <1>3, <2>1 DEF Inv, Types, tracker
  <2>3. World'
    BY <1>1, <1>4, <1>5, <2>1 DEF Inv, World
  <2> QED BY <1>1, <1>4, <2>2, <2>3 DEF OnRecord, Over
<1>7. CASE Spawner(c) # 0
  <2> DEFINE row == [is |-> "result", of |-> c, ts |-> now]
             p   == Spawner(c)
  <2>1. row \in Row /\ row.of = c
    BY DEF Inv, Types, Row
  <2>2. p \in Child
    BY <1>7 DEF Spawner
  <2>3. Grow(p, row) /\ answered' = answered
    BY <1>1, <1>7
  <2> HIDE DEF row, p
  <2>4. /\ rows' \in [Child -> Seq(Row)] /\ gen' \in [Child -> Nat]
        /\ \A d \in Child : \A i \in 1 .. Len(rows'[d]) :
             rows'[d][i] = row \/ (i \in 1 .. Len(rows[d]) /\ rows'[d][i] = rows[d][i])
    BY <2>1, <2>2, <2>3, GrowIs DEF Inv
  <2>5. Types'
    BY <1>1, <1>3, <2>3, <2>4 DEF Inv, Types, tracker
  <2>6. World'
    BY <1>1, <1>4, <1>5, <2>1, <2>3, <2>4 DEF Inv, World
  <2> QED BY <1>1, <1>4, <2>5, <2>6 DEF OnRecord, Over
<1> QED BY <1>6, <1>7

LEMMA NotifyKeeps ==
  ASSUME Inv, NEW c \in Child, Notify(c) PROVE OnRecord
<1>1. PICK st \in {Done, Failed} : /\ notified' = [notified EXCEPT ![c] = st]
                                   /\ ended' = [ended EXCEPT ![c] = st]
  BY DEF Notify
<1>2. UNCHANGED <<now, meta, rows, gen, answered, journal, tracker, shown>>
  BY DEF Notify
<1>3. /\ ended \in [Child -> End \cup {Unknown}] /\ notified \in [Child -> End \cup {Unknown}]
      /\ st \in End /\ st # Unknown
  BY Constants DEF Inv, Types, End
<1>4. Types'
  BY <1>1, <1>2, <1>3 DEF Inv, Types, tracker
<1>5. \A d : Over(d) => Over(d)'
  BY <1>1, <1>3 DEF Over
<1>6. \A d \in Child : /\ notified[d] # Unknown => notified'[d] # Unknown
                       /\ notified'[d] # Unknown => notified[d] # Unknown \/ Over(d)'
  BY <1>1, <1>3 DEF Over
<1>7. World'
  BY <1>2, <1>5, <1>6 DEF Inv, World
<1> QED BY <1>2, <1>4, <1>5, <1>6, <1>7 DEF OnRecord, Over

LEMMA RecordKeeps ==
  ASSUME Inv, NEW c \in Child, Record(c) PROVE OnRecord
<1>1. PICK type \in {"started", Done, Failed} :
        /\ journal' = Append(journal, [type |-> type, of |-> c])
        /\ ended' = IF type = "started" THEN ended ELSE [ended EXCEPT ![c] = type]
  BY DEF Record
<1>2. UNCHANGED <<now, meta, rows, gen, answered, notified, tracker, shown>>
  BY DEF Record
<1> DEFINE e == [type |-> type, of |-> c]
<1>3. e \in Entry /\ e.type = type /\ e.of = c
  BY DEF Entry, End
<1>4. journal' = Append(journal, e) /\ journal \in Seq(Entry) /\ Len(journal) \in Nat
  BY <1>1 DEF Inv, Types
<1> HIDE DEF e
<1>5. /\ ended \in [Child -> End \cup {Unknown}]
      /\ type # "started" => type \in End /\ type # Unknown
  BY Constants DEF Inv, Types, End
<1>6. ended' \in [Child -> End \cup {Unknown}]
  BY <1>1, <1>5
<1>7. (\A d : Over(d) => Over(d)') /\ (type # "started" => Over(c)')
  BY <1>1, <1>5 DEF Over
<1>8. /\ journal' \in Seq(Entry)
      /\ \A i \in 1 .. Len(journal') :
           journal'[i] = e \/ (i \in 1 .. Len(journal) /\ journal'[i] = journal[i])
  <2>1. journal' \in Seq(Entry) /\ Len(journal') = Len(journal) + 1
    BY <1>3, <1>4
  <2>2. ASSUME NEW i \in 1 .. Len(journal')
        PROVE  journal'[i] = e \/ (i \in 1 .. Len(journal) /\ journal'[i] = journal[i])
    <3>1. i = Len(journal) + 1 \/ i \in 1 .. Len(journal)
      BY <1>4, <2>1
    <3> QED BY <1>4, <3>1
  <2> QED BY <2>1, <2>2
<1>9. Types'
  BY <1>2, <1>6, <1>8 DEF Inv, Types, tracker
<1>10. World'
  BY <1>2, <1>3, <1>7, <1>8 DEF Inv, World
<1> QED BY <1>2, <1>7, <1>9, <1>10 DEF OnRecord, Over

LEMMA PollFailsKeeps ==
  ASSUME Inv, PollFails PROVE Inv' /\ EndsStay
<1>1. /\ resulted' = resulted \cup answered /\ notifications' = notified
      /\ now' = now /\ rows' = rows /\ gen' = gen /\ answered' = answered
      /\ notified' = notified /\ journal' = journal /\ ended' = ended
      /\ children' = children /\ read' = read /\ terminal' = terminal /\ shown' = shown
  BY DEF PollFails, world
<1>2. Types'
  BY <1>1 DEF Inv, Types
<1>3. World' /\ Tracker'
  BY <1>1 DEF Inv, World, Tracker, Over
<1>4. ASSUME NEW c \in Child, Verdict(c, resulted, notifications, terminal) # Unknown
      PROVE  Verdict(c, resulted', notifications', terminal') # Unknown
  <2>1. notifications[c] # Unknown => notified[c] # Unknown
    BY DEF Inv, Tracker
  <2>2. c \in resulted => c \in resulted'
    BY <1>1
  <2> QED BY <1>1, <1>4, <2>1, <2>2, Constants DEF Verdict, End
<1>5. Shown'
  BY <1>1, <1>4 DEF Inv, Shown
<1>6. EndsStay
  BY <1>1 DEF EndsStay
<1> QED BY <1>2, <1>3, <1>5, <1>6 DEF Inv

LEMMA StepHolds ==
  ASSUME Inv, UnfinishedShows, [Next]_vars
  PROVE  Inv' /\ UnfinishedShows' /\ EndsStay
<1>1. ASSUME shown' = shown PROVE UnfinishedShows'
  BY <1>1 DEF UnfinishedShows
<1>2. ASSUME OnRecord PROVE Inv' /\ UnfinishedShows' /\ EndsStay
  BY <1>1, <1>2, OnRecordKeeps DEF OnRecord
<1>3. CASE Tick
  <2>1. /\ now' = now + 1 /\ rows' = rows /\ gen' = gen /\ answered' = answered
        /\ notified' = notified /\ journal' = journal /\ ended' = ended
        /\ UNCHANGED <<tracker, shown>>
    BY <1>3 DEF Tick, world
  <2>2. Types'
    BY <2>1 DEF Inv, Types, tracker
  <2>3. World'
    BY <2>1 DEF Inv, World, Over
  <2>4. OnRecord
    BY <2>1, <2>2, <2>3 DEF OnRecord
  <2> QED BY <1>2, <2>4
<1>4. CASE \E c \in Child : Spawn(c) \/ Work(c) \/ Rewrite(c) \/ Answer(c) \/ Notify(c) \/ Record(c)
  <2>1. OnRecord
    BY <1>4, SpawnKeeps, WorkKeeps, RewriteKeeps, AnswerKeeps, NotifyKeeps, RecordKeeps
  <2> QED BY <1>2, <2>1
<1>5. CASE Poll \/ PollWithFault
  <2>1. PICK fault : Collect(fault)
    BY <1>5 DEF Poll, PollWithFault
  <2> QED BY <2>1, CollectKeeps
<1>6. CASE PollFails
  <2>1. shown' = shown
    BY <1>6 DEF PollFails
  <2> QED BY <1>1, <1>6, <2>1, PollFailsKeeps
<1>7. CASE UNCHANGED vars
  <2>1. /\ now' = now /\ rows' = rows /\ gen' = gen /\ answered' = answered
        /\ notified' = notified /\ journal' = journal /\ ended' = ended
        /\ UNCHANGED <<tracker, shown>>
    BY <1>7 DEF vars, world
  <2>2. Types'
    BY <2>1 DEF Inv, Types, tracker
  <2>3. World'
    BY <2>1 DEF Inv, World, Over
  <2>4. OnRecord
    BY <2>1, <2>2, <2>3 DEF OnRecord
  <2> QED BY <1>2, <2>4
<1> QED BY <1>3, <1>4, <1>5, <1>6, <1>7 DEF Next

LEMMA Always == Spec => []Inv /\ []UnfinishedShows
<1>1. Init => Inv /\ UnfinishedShows
  BY InitHolds
<1>2. Inv /\ UnfinishedShows /\ [Next]_vars => Inv' /\ UnfinishedShows'
  BY StepHolds
<1> QED BY <1>1, <1>2, PTL DEF Spec

\* Whoever waits behind a running child is not shown as idle over any number
\* of generations, cycles of parents included, nor a workflow as over while one
\* of its agents is not (propagateRunning, summariseWorkflows): the ancestors
\* are looked for as many generations up as there are children, which is far
\* enough.
THEOREM WaitingOnesShow == Spec => []UnfinishedShows
BY Always, PTL

\* No child is shown as ended before its end is on record, in whatever order
\* the evidence comes and whatever read fails (subagentOf): a verdict is made
\* of evidence the tracker has kept, and it keeps none that was not written.
THEOREM SilenceEndsNobody == Spec => []SilenceIsNoEnd
<1>1. Inv => SilenceIsNoEnd
  BY VerdictIsOver DEF Inv, Shown, SilenceIsNoEnd, Over
<1> QED BY <1>1, Always, PTL

\* A child once shown as ended stays so for as long as it is listed: no late
\* record, failed read or rewritten transcript takes the evidence away, and a
\* workflow directory that cannot be read takes the children with the evidence
\* (scanAgents, readJournal, takeTaskResults).
THEOREM EndedOnesStay == Spec => EndStays
<1>1. Inv /\ UnfinishedShows /\ [Next]_vars => EndsStay
  BY StepHolds
<1>2. [][EndsStay]_vars <=> EndStays
  BY DEF EndsStay, EndStays
<1> QED BY <1>1, <1>2, Always, PTL DEF Spec

-----------------------------------------------------------------------------
(***************************************************************************)
(* The order of the listing.  A strict total order is given as the set of  *)
(* its pairs.                                                              *)
(***************************************************************************)
Precedes(R, S) ==
  /\ \A x \in S : <<x, x>> \notin R
  /\ \A x, y \in S : x # y => <<x, y>> \in R \/ <<y, x>> \in R
  /\ \A x, y, z \in S : <<x, y>> \in R /\ <<y, z>> \in R => <<x, z>> \in R

InOrder(s, R, S) ==
  /\ s \in [1 .. Cardinality(S) -> S]
  /\ \A i, j \in 1 .. Cardinality(S) : i < j => <<s[i], s[j]>> \in R

\* s has each element of S once.
Lists(s, S) ==
  /\ s \in Seq(S) /\ Len(s) = Cardinality(S)
  /\ \A x \in S : \E i \in 1 .. Len(s) : s[i] = x

\* A finite set has an order: each element stands at the place that those
\* before it leave it.
LEMMA OrderExists ==
  ASSUME NEW S, IsFiniteSet(S), NEW R, Precedes(R, S)
  PROVE  \E s : InOrder(s, R, S)
<1> DEFINE N == Cardinality(S)
           Less(x) == {y \in S : <<y, x>> \in R}
           rank == [x \in S |-> Cardinality(Less(x)) + 1]
<1>1. N \in Nat
  BY FS_CardinalityType
<1>2. ASSUME NEW x \in S
      PROVE  IsFiniteSet(Less(x)) /\ Cardinality(Less(x)) \in Nat /\ Less(x) \subseteq S
  BY FS_Subset, FS_CardinalityType
<1>3. ASSUME NEW x \in S, NEW y \in S, <<x, y>> \in R
      PROVE  rank[x] < rank[y]
  <2>1. x \notin Less(x) /\ Less(x) \cup {x} \in SUBSET Less(y)
    BY <1>3 DEF Precedes
  <2> HIDE DEF Less
  <2>2. Cardinality(Less(x) \cup {x}) = Cardinality(Less(x)) + 1
    BY <1>2, <2>1, FS_AddElement
  <2>3. Cardinality(Less(x) \cup {x}) <= Cardinality(Less(y))
    BY <1>2, <2>1, FS_Subset
  <2>4. Cardinality(Less(x)) \in Nat /\ Cardinality(Less(y)) \in Nat
    BY <1>2
  <2> QED BY <2>2, <2>3, <2>4
<1>4. ASSUME NEW x \in S PROVE rank[x] \in 1 .. N
  <2>1. x \notin Less(x) /\ Less(x) \cup {x} \in SUBSET S
    BY DEF Precedes
  <2> HIDE DEF Less
  <2>2. Cardinality(Less(x) \cup {x}) = Cardinality(Less(x)) + 1
    BY <1>2, <2>1, FS_AddElement
  <2>3. Cardinality(Less(x) \cup {x}) <= N
    BY <2>1, FS_Subset
  <2> HIDE DEF N
  <2> QED BY <1>1, <1>2, <2>2, <2>3
<1>5. DOMAIN rank = S
  OBVIOUS
<1>6. rank \in [S -> 1 .. N]
  <2>1. rank = [x \in S |-> rank[x]]
    OBVIOUS
  <2> HIDE DEF rank, N
  <2> QED BY <1>4, <2>1
<1> HIDE DEF rank
<1>7. rank \in Injection(S, 1 .. N)
  <2>1. ASSUME NEW x \in S, NEW y \in S, rank[x] = rank[y] PROVE x = y
    <3>1. rank[x] \in Int /\ rank[y] \in Int
      BY <1>1, <1>4
    <3>2. ~(rank[x] < rank[y]) /\ ~(rank[y] < rank[x])
      BY <2>1, <3>1
    <3>3. <<x, y>> \notin R /\ <<y, x>> \notin R
      BY <1>3, <3>2
    <3> QED BY <3>3 DEF Precedes
  <2> QED BY <1>6, <2>1 DEF Injection, IsInjective
<1>8. IsFiniteSet(1 .. N) /\ Cardinality(1 .. N) = N
  <2> HIDE DEF N
  <2>1. 1 \in Int /\ N \in Int
    BY <1>1
  <2>2. IsFiniteSet(1 .. N) /\ Cardinality(1 .. N) = IF 1 > N THEN 0 ELSE N - 1 + 1
    BY <2>1, FS_Interval
  <2> QED BY <1>1, <2>2
<1>9. rank \in Surjection(S, 1 .. N)
  BY <1>7, <1>8, FS_Injection
<1> DEFINE s == [i \in 1 .. N |-> CHOOSE x \in S : rank[x] = i]
<1>10. ASSUME NEW i \in 1 .. N PROVE s[i] \in S /\ rank[s[i]] = i
  <2>1. \E x \in S : rank[x] = i
    BY <1>9 DEF Surjection
  <2> QED BY <2>1
<1>11. ASSUME NEW i \in 1 .. N, NEW j \in 1 .. N, i < j PROVE <<s[i], s[j]>> \in R
  <2>1. s[i] \in S /\ s[j] \in S /\ rank[s[i]] = i /\ rank[s[j]] = j
    BY <1>10
  <2> HIDE DEF s
  <2>2. i \in Int /\ j \in Int
    BY <1>1
  <2>3. s[i] # s[j] /\ ~(j < i)
    BY <1>11, <2>1, <2>2
  <2>4. <<s[j], s[i]>> \notin R
    BY <1>3, <2>1, <2>3
  <2> QED BY <2>1, <2>3, <2>4 DEF Precedes
<1>12. s \in [1 .. N -> S]
  BY <1>10
<1> HIDE DEF s
<1>13. InOrder(s, R, S)
  BY <1>11, <1>12 DEF InOrder
<1> QED BY <1>13

LEMMA InOrderLists ==
  ASSUME NEW S, IsFiniteSet(S), NEW R, Precedes(R, S), NEW s, InOrder(s, R, S)
  PROVE  Lists(s, S)
<1> DEFINE N == Cardinality(S)
<1>1. N \in Nat
  BY FS_CardinalityType
<1>2. s \in [1 .. N -> S] /\ \A i, j \in 1 .. N : i < j => <<s[i], s[j]>> \in R
  BY DEF InOrder
<1>3. s \in Seq(S) /\ Len(s) = N
  <2> HIDE DEF N
  <2> QED BY <1>1, <1>2
<1>4. s \in Injection(1 .. N, S)
  <2>1. ASSUME NEW i \in 1 .. N, NEW j \in 1 .. N, s[i] = s[j] PROVE i = j
    <3>1. s[i] \in S /\ <<s[i], s[i]>> \notin R
      BY <1>2 DEF Precedes
    <3>2. i \in Int /\ j \in Int
      BY <1>1
    <3>3. ~(i < j) /\ ~(j < i)
      BY <1>2, <2>1, <3>1
    <3> QED BY <3>2, <3>3
  <2> QED BY <1>2, <2>1 DEF Injection, IsInjective
<1>5. IsFiniteSet(1 .. N) /\ Cardinality(1 .. N) = N
  <2> HIDE DEF N
  <2>1. 1 \in Int /\ N \in Int
    BY <1>1
  <2>2. IsFiniteSet(1 .. N) /\ Cardinality(1 .. N) = IF 1 > N THEN 0 ELSE N - 1 + 1
    BY <2>1, FS_Interval
  <2> QED BY <1>1, <2>2
<1>6. s \in Surjection(1 .. N, S)
  BY <1>4, <1>5, FS_Injection
<1>7. \A x \in S : \E i \in 1 .. N : s[i] = x
  BY <1>6 DEF Surjection
<1> QED BY <1>3, <1>7 DEF Lists

LEMMA OrderedLists ==
  ASSUME NEW S, IsFiniteSet(S), NEW R, Precedes(R, S)
  PROVE  Lists(Ordered(S, R), S)
<1>1. PICK s : InOrder(s, R, S)
  BY OrderExists
<1>2. InOrder(Ordered(S, R), R, S)
  BY <1>1 DEF Ordered, InOrder
<1> QED BY <1>2, InOrderLists

LEMMA BeforeOrders ==
  ASSUME NEW start, NEW x \in Nat, NEW y \in Nat, NEW z \in Nat,
         start[x] \in Nat, start[y] \in Nat, start[z] \in Nat
  PROVE  /\ ~Before(start, x, x)
         /\ x # y => Before(start, x, y) \/ Before(start, y, x)
         /\ Before(start, x, y) /\ Before(start, y, z) => Before(start, x, z)
BY DEF Before

\* Ordered by start and then id, children are listed once each.
LEMMA SortedLists ==
  ASSUME NEW S \in SUBSET Nat, IsFiniteSet(S), NEW start, \A x \in S : start[x] \in Nat
  PROVE  Lists(Sorted(S, start), S)
<1> DEFINE R == {p \in S \X S : Before(start, p[1], p[2])}
<1>1. \A x, y \in S : <<x, y>> \in R <=> Before(start, x, y)
  OBVIOUS
<1>2. Sorted(S, start) = Ordered(S, R)
  BY DEF Sorted
<1> HIDE DEF R
<1>3. Precedes(R, S)
  BY <1>1, BeforeOrders DEF Precedes
<1> QED BY <1>2, <1>3, OrderedLists

\* treeOrder starts from everybody who is nobody's child, then from all.
LEMMA VisitedFromLists ==
  ASSUME NEW S \in SUBSET Nat, IsFiniteSet(S), NEW parent, NEW workflow,
         NEW start, \A x \in S : start[x] \in Nat
  PROVE  \E tops : /\ Lists(tops, {x \in S : ~IsChild(S, parent, workflow, x)})
                   /\ VisitedFrom(S, parent, workflow, start) = tops \o Sorted(S, start)
<1> DEFINE from == {x \in S : ~IsChild(S, parent, workflow, x)}
           agents(w) == {x \in S : workflow[x] = w}
           first(w) == Sorted(agents(w), start)[1]
           before(x, y) ==
             IF workflow[x] = workflow[y] THEN Before(start, x, y)
             ELSE \/ workflow[x] = NoWorkflow
                  \/ /\ workflow[y] # NoWorkflow
                     /\ Before(start, first(workflow[x]), first(workflow[y]))
           R == {p \in from \X from : before(p[1], p[2])}
<1>1. VisitedFrom(S, parent, workflow, start) = Ordered(from, R) \o Sorted(S, start)
  BY DEF VisitedFrom
<1>2. ASSUME NEW x \in S
      PROVE  first(workflow[x]) \in S /\ workflow[first(workflow[x])] = workflow[x]
  <2> DEFINE A == agents(workflow[x])
  <2>1. A \in SUBSET Nat /\ IsFiniteSet(A) /\ x \in A /\ \A y \in A : start[y] \in Nat
    BY FS_Subset
  <2>2. \A y \in A : y \in S /\ workflow[y] = workflow[x]
    OBVIOUS
  <2>3. first(workflow[x]) = Sorted(A, start)[1]
    OBVIOUS
  <2> HIDE DEF A, first
  <2>4. Lists(Sorted(A, start), A)
    BY <2>1, SortedLists
  <2>5. Sorted(A, start)[1] \in A
    BY <2>1, <2>4 DEF Lists
  <2> QED BY <2>2, <2>3, <2>5
<1>3. \A x, y \in from : <<x, y>> \in R <=> before(x, y)
  OBVIOUS
<1>4. from \in SUBSET S /\ IsFiniteSet(from)
  BY FS_Subset
<1> HIDE DEF R, from, first
<1>5. Precedes(R, from)
  <2>1. ASSUME NEW x \in from PROVE ~before(x, x)
    BY <1>4, BeforeOrders
  <2>2. ASSUME NEW x \in from, NEW y \in from, x # y PROVE before(x, y) \/ before(y, x)
    <3>1. CASE workflow[x] = workflow[y]
      BY <1>4, <2>2, <3>1, BeforeOrders
    <3>2. CASE workflow[x] # workflow[y]
      <4>1. first(workflow[x]) # first(workflow[y])
        BY <1>2, <1>4, <3>2
      <4>2. \/ Before(start, first(workflow[x]), first(workflow[y]))
            \/ Before(start, first(workflow[y]), first(workflow[x]))
        <5>1. /\ first(workflow[x]) \in Nat /\ start[first(workflow[x])] \in Nat
              /\ first(workflow[y]) \in Nat /\ start[first(workflow[y])] \in Nat
          BY <1>2, <1>4
        <5> QED BY <4>1, <5>1, BeforeOrders
      <4> QED BY <3>2, <4>2
    <3> QED BY <3>1, <3>2
  <2>3. ASSUME NEW x \in from, NEW y \in from, NEW z \in from, before(x, y), before(y, z)
        PROVE  before(x, z)
    <3>1. /\ x \in Nat /\ y \in Nat /\ z \in Nat
          /\ start[x] \in Nat /\ start[y] \in Nat /\ start[z] \in Nat
      BY <1>4
    <3>2. CASE workflow[x] = workflow[y] /\ workflow[y] = workflow[z]
      BY <2>3, <3>1, <3>2, BeforeOrders
    <3>3. CASE workflow[x] # workflow[y] /\ workflow[y] # workflow[z]
      <4> DEFINE a == first(workflow[x])
                 b == first(workflow[y])
                 c == first(workflow[z])
      <4>1. /\ a \in Nat /\ b \in Nat /\ c \in Nat
            /\ start[a] \in Nat /\ start[b] \in Nat /\ start[c] \in Nat
        BY <1>2, <1>4
      <4>2. workflow[z] # NoWorkflow
        BY <2>3, <3>3
      <4>3. CASE workflow[x] = NoWorkflow
        BY <3>3, <4>2, <4>3
      <4>4. CASE workflow[x] # NoWorkflow
        <5>1. workflow[y] # NoWorkflow /\ Before(start, a, b) /\ Before(start, b, c)
          BY <2>3, <3>3, <4>4
        <5> HIDE DEF a, b, c
        <5>2. Before(start, a, c) /\ ~Before(start, a, a)
          BY <4>1, <5>1, BeforeOrders
        <5> USE DEF a, c
        <5>3. workflow[x] # workflow[z]
          BY <5>2
        <5> QED BY <4>2, <5>2, <5>3
      <4> QED BY <4>3, <4>4
    <3>4. CASE workflow[x] = workflow[y] /\ workflow[y] # workflow[z]
      BY <2>3, <3>4
    <3>5. CASE workflow[x] # workflow[y] /\ workflow[y] = workflow[z]
      BY <2>3, <3>5
    <3> QED BY <3>2, <3>3, <3>4, <3>5
  <2> HIDE DEF before
  <2> QED BY <1>3, <2>1, <2>2, <2>3 DEF Precedes
<1>6. Lists(Ordered(from, R), from)
  BY <1>4, <1>5, OrderedLists
<1> QED BY <1>1, <1>6 DEF from

-----------------------------------------------------------------------------
(***************************************************************************)
(* The visits of treeOrder: K are the children of S, P their parents and   *)
(* kids their lists.  What is to be done is a front and, behind it, all of *)
(* S once more, for those that a cycle hides.                              *)
(***************************************************************************)
Among(s, x) == \E i \in 1 .. Len(s) : s[i] = x
InFront(s, N, x) == \E i \in 1 .. Len(s) - N : s[i] = x

Family(S, K, P, kids) ==
  /\ IsFiniteSet(S) /\ K \subseteq S
  /\ \A x \in K : P[x] \in S
  /\ \A x \in S : Lists(kids[x], {y \in K : P[y] = x})

ListedOnce(out) == \A i, j \in 1 .. Len(out) : out[i] = out[j] => i = j

BehindParent(out, K, P) ==
  \A j \in 1 .. Len(out) : out[j] \in K => \E i \in 1 .. Len(out) : i < j /\ out[i] = P[out[j]]

Visiting(S, K, P, todo, out) ==
  LET N == Cardinality(S) IN
  /\ todo \in Seq(S) /\ out \in Seq(S)
  /\ ListedOnce(out) /\ BehindParent(out, K, P)
  /\ \A x \in K : InFront(todo, N, x) => Among(out, P[x])
  /\ \A x \in S : x \notin K => Among(out, x) \/ InFront(todo, N, x)
  /\ \A x \in K : Among(out, P[x]) => Among(out, x) \/ InFront(todo, N, x)

\* As many visits are left as this allows for.
Left(S, todo, out, n) ==
  todo = <<>> \/ Len(todo) + Cardinality(S) * (Cardinality(S) - Len(out)) <= n

\* No child is an ancestor of its own.
Acyclic(S, K, P) ==
  \E f \in [S -> Nat] : \A x \in K : f[P[x]] < f[x]

LEMMA SeqTail ==
  ASSUME NEW S, NEW s \in Seq(S), s # <<>>
  PROVE  /\ Head(s) \in S /\ Tail(s) \in Seq(S) /\ Len(Tail(s)) = Len(s) - 1
         /\ Len(s) \in Nat \ {0} /\ Head(s) = s[1]
         /\ \A i \in 1 .. Len(s) - 1 : Tail(s)[i] = s[i + 1]
OBVIOUS

LEMMA SeqConcat ==
  ASSUME NEW S, NEW s \in Seq(S), NEW t \in Seq(S)
  PROVE  /\ s \o t \in Seq(S) /\ Len(s \o t) = Len(s) + Len(t)
         /\ Len(s) \in Nat /\ Len(t) \in Nat
         /\ \A i \in 1 .. Len(s) : (s \o t)[i] = s[i]
         /\ \A i \in 1 .. Len(t) : (s \o t)[Len(s) + i] = t[i]
OBVIOUS

LEMMA SeqAppend ==
  ASSUME NEW S, NEW s \in Seq(S), NEW x \in S
  PROVE  /\ Append(s, x) \in Seq(S) /\ Len(Append(s, x)) = Len(s) + 1
         /\ Len(s) \in Nat
         /\ Append(s, x)[Len(s) + 1] = x
         /\ \A i \in 1 .. Len(s) : Append(s, x)[i] = s[i]
OBVIOUS

\* Once nobody is left in front, everybody is listed: the child of smallest
\* rank that is not would have a parent that is.
LEMMA NobodyLeft ==
  ASSUME NEW S, NEW K, NEW P, NEW todo, NEW out, Visiting(S, K, P, todo, out), Acyclic(S, K, P),
         K \subseteq S, \A x \in K : P[x] \in S,
         \A x \in S : ~InFront(todo, Cardinality(S), x),
         NEW x \in S
  PROVE  Among(out, x)
<1> SUFFICES ASSUME ~Among(out, x) PROVE FALSE
  OBVIOUS
<1> DEFINE rest == {y \in S : ~Among(out, y)}
<1>1. PICK f \in [S -> Nat] : \A y \in K : f[P[y]] < f[y]
  BY DEF Acyclic
<1> DEFINE T == {f[y] : y \in rest}
<1>2. T \in SUBSET Nat /\ T # {}
  OBVIOUS
<1>3. PICK a \in T : \A b \in T : a <= b
  BY <1>2, LeastElement
<1>4. PICK y \in rest : a = f[y]
  BY <1>3
<1>5. y \in K
  BY <1>4 DEF Visiting
<1>6. P[y] \in S /\ f[P[y]] < f[y] /\ f[P[y]] \in Nat /\ f[y] \in Nat
  BY <1>1, <1>5
<1>7. P[y] \notin rest
  BY <1>3, <1>4, <1>6
<1>8. Among(out, P[y])
  BY <1>6, <1>7
<1> QED BY <1>4, <1>5, <1>8 DEF Visiting

LEMMA SkipKeeps ==
  ASSUME NEW S, NEW K, NEW P, NEW todo, NEW out, NEW n \in Int,
         IsFiniteSet(S), Visiting(S, K, P, todo, out), Left(S, todo, out, n),
         todo # <<>>, Head(todo) \in ToSet(out)
  PROVE  Visiting(S, K, P, Tail(todo), out) /\ Left(S, Tail(todo), out, n - 1)
<1> DEFINE N == Cardinality(S)
<1>1. N \in Nat
  BY FS_CardinalityType
<1>2. /\ todo \in Seq(S) /\ out \in Seq(S)
      /\ ListedOnce(out) /\ BehindParent(out, K, P)
      /\ \A x \in K : InFront(todo, N, x) => Among(out, P[x])
      /\ \A x \in S : x \notin K => Among(out, x) \/ InFront(todo, N, x)
      /\ \A x \in K : Among(out, P[x]) => Among(out, x) \/ InFront(todo, N, x)
  BY DEF Visiting
<1>3. /\ Head(todo) \in S /\ Tail(todo) \in Seq(S) /\ Len(Tail(todo)) = Len(todo) - 1
      /\ Len(todo) \in Nat \ {0} /\ Head(todo) = todo[1]
      /\ \A i \in 1 .. Len(todo) - 1 : Tail(todo)[i] = todo[i + 1]
  BY <1>2, SeqTail
<1>4. Among(out, Head(todo))
  BY <1>2 DEF ToSet, Among
<1>5. Left(S, Tail(todo), out, n - 1)
  <2>1. Len(todo) + N * (N - Len(out)) <= n
    BY DEF Left
  <2>2. N * (N - Len(out)) \in Int
    BY <1>1, <1>2
  <2> QED BY <1>3, <2>1, <2>2 DEF Left
<1> HIDE DEF N
<1>6. ASSUME NEW x, InFront(Tail(todo), N, x) PROVE InFront(todo, N, x)
  <2>1. PICK i \in 1 .. Len(Tail(todo)) - N : Tail(todo)[i] = x
    BY <1>6 DEF InFront
  <2>2. i + 1 \in 1 .. Len(todo) - N /\ i \in 1 .. Len(todo) - 1
    BY <1>1, <1>3
  <2> QED BY <1>3, <2>1, <2>2 DEF InFront
<1>7. ASSUME NEW x, InFront(todo, N, x) PROVE InFront(Tail(todo), N, x) \/ x = Head(todo)
  <2>1. PICK i \in 1 .. Len(todo) - N : todo[i] = x
    BY <1>7 DEF InFront
  <2>2. CASE i # 1
    <3>1. i - 1 \in 1 .. Len(Tail(todo)) - N /\ i - 1 \in 1 .. Len(todo) - 1 /\ (i - 1) + 1 = i
      BY <1>1, <1>3, <2>2
    <3> QED BY <1>3, <2>1, <3>1 DEF InFront
  <2> QED BY <1>3, <2>1, <2>2
<1>8. Visiting(S, K, P, Tail(todo), out)
  BY <1>2, <1>3, <1>4, <1>6, <1>7 DEF Visiting, N
<1> QED BY <1>5, <1>8

\* A child is listed, and its children come next.
LEMMA ListKeeps ==
  ASSUME NEW S, NEW K, NEW P, NEW kids, Family(S, K, P, kids),
         NEW todo, NEW out, NEW n \in Int,
         Visiting(S, K, P, todo, out), Left(S, todo, out, n), Acyclic(S, K, P),
         todo # <<>>, Head(todo) \notin ToSet(out)
  PROVE  /\ Visiting(S, K, P, kids[Head(todo)] \o Tail(todo), Append(out, Head(todo)))
         /\ Left(S, kids[Head(todo)] \o Tail(todo), Append(out, Head(todo)), n - 1)
<1> DEFINE N == Cardinality(S)
           h == Head(todo)
           mine == kids[h]
           rest == mine \o Tail(todo)
           more == Append(out, h)
           of == {y \in K : P[y] = h}
<1>1. N \in Nat /\ IsFiniteSet(S) /\ K \subseteq S /\ \A x \in K : P[x] \in S
  BY FS_CardinalityType DEF Family
<1>2. /\ todo \in Seq(S) /\ out \in Seq(S)
      /\ ListedOnce(out) /\ BehindParent(out, K, P)
      /\ \A x \in K : InFront(todo, N, x) => Among(out, P[x])
      /\ \A x \in S : x \notin K => Among(out, x) \/ InFront(todo, N, x)
      /\ \A x \in K : Among(out, P[x]) => Among(out, x) \/ InFront(todo, N, x)
  BY DEF Visiting
<1>3. /\ h \in S /\ Tail(todo) \in Seq(S) /\ Len(Tail(todo)) = Len(todo) - 1
      /\ Len(todo) \in Nat \ {0} /\ h = todo[1]
      /\ \A i \in 1 .. Len(todo) - 1 : Tail(todo)[i] = todo[i + 1]
  BY <1>2, SeqTail
<1>4. /\ mine \in Seq(S) /\ Len(mine) \in Nat /\ Len(mine) <= N
      /\ \A i \in 1 .. Len(mine) : mine[i] \in of
      /\ \A x \in of : \E i \in 1 .. Len(mine) : mine[i] = x
  <2>1. Lists(mine, of)
    BY <1>3 DEF Family
  <2>2. of \in SUBSET S
    BY <1>1
  <2> HIDE DEF mine, of
  <2>3. IsFiniteSet(of) /\ Cardinality(of) <= N /\ Cardinality(of) \in Nat
    BY <1>1, <2>2, FS_Subset, FS_CardinalityType
  <2>4. mine \in Seq(of) /\ Len(mine) = Cardinality(of)
    BY <2>1 DEF Lists
  <2>5. mine \in Seq(S) /\ \A i \in 1 .. Len(mine) : mine[i] \in of
    BY <2>2, <2>4
  <2> QED BY <2>1, <2>3, <2>4, <2>5 DEF Lists
<1>5. ~Among(out, h)
  BY <1>2 DEF ToSet, Among
<1>6. Len(todo) - N >= 1
  <2> SUFFICES ASSUME ~(Len(todo) - N >= 1) PROVE FALSE
    OBVIOUS
  <2>1. \A x \in S : ~InFront(todo, N, x)
    BY <1>1, <1>3 DEF InFront
  <2> QED BY <1>1, <1>3, <1>5, <2>1, NobodyLeft
<1> HIDE DEF h, mine
<1>7. /\ rest \in Seq(S) /\ Len(rest) = Len(mine) + (Len(todo) - 1)
      /\ \A i \in 1 .. Len(mine) : rest[i] = mine[i]
      /\ \A i \in 1 .. Len(todo) - 1 : rest[Len(mine) + i] = todo[i + 1]
  BY <1>3, <1>4, SeqConcat
<1>8. /\ more \in Seq(S) /\ Len(more) = Len(out) + 1 /\ Len(out) \in Nat
      /\ more[Len(out) + 1] = h /\ \A i \in 1 .. Len(out) : more[i] = out[i]
  BY <1>2, <1>3, SeqAppend
<1>9. Left(S, rest, more, n - 1)
  <2>1. Len(todo) + N * (N - Len(out)) <= n
    BY DEF Left
  <2>2. N * (N - Len(out)) \in Int /\ N * (N - (Len(out) + 1)) = N * (N - Len(out)) - N
    BY <1>1, <1>8
  <2>3. Len(rest) + N * (N - Len(more)) <= n - 1
    BY <1>1, <1>3, <1>4, <1>7, <1>8, <2>1, <2>2
  <2> QED BY <2>3 DEF Left
<1> HIDE DEF N, rest, more
<1>10. ASSUME NEW x PROVE Among(more, x) <=> Among(out, x) \/ x = h
  BY <1>8 DEF Among
<1>11. ASSUME NEW x, InFront(rest, N, x) PROVE x \in of \/ InFront(todo, N, x)
  <2>1. PICK i \in 1 .. Len(rest) - N : rest[i] = x
    BY <1>11 DEF InFront
  <2>2. CASE i <= Len(mine)
    <3>1. i \in 1 .. Len(mine)
      BY <1>4, <2>2
    <3> QED BY <1>4, <1>7, <2>1, <3>1
  <2>3. CASE ~(i <= Len(mine))
    <3>1. /\ i - Len(mine) \in 1 .. Len(todo) - 1
          /\ (i - Len(mine)) + 1 \in 1 .. Len(todo) - N
          /\ Len(mine) + (i - Len(mine)) = i
      BY <1>1, <1>3, <1>4, <1>7, <2>3
    <3> QED BY <1>7, <2>1, <3>1 DEF InFront
  <2> QED BY <2>2, <2>3
<1>12. ASSUME NEW x \in of PROVE InFront(rest, N, x)
  <2>1. PICK i \in 1 .. Len(mine) : mine[i] = x
    BY <1>4
  <2>2. i \in 1 .. Len(rest) - N
    BY <1>1, <1>3, <1>4, <1>6, <1>7
  <2> QED BY <1>7, <2>1, <2>2 DEF InFront
<1>13. ASSUME NEW x, InFront(todo, N, x) PROVE InFront(rest, N, x) \/ x = h
  <2>1. PICK i \in 1 .. Len(todo) - N : todo[i] = x
    BY <1>13 DEF InFront
  <2>2. CASE i # 1
    <3>1. /\ i - 1 \in 1 .. Len(todo) - 1 /\ (i - 1) + 1 = i
          /\ Len(mine) + (i - 1) \in 1 .. Len(rest) - N
      BY <1>1, <1>3, <1>4, <1>7, <2>2
    <3> QED BY <1>7, <2>1, <3>1 DEF InFront
  <2> QED BY <1>3, <2>1, <2>2
<1>14. ListedOnce(more)
  <2>1. ASSUME NEW i \in 1 .. Len(more), NEW j \in 1 .. Len(more), more[i] = more[j]
        PROVE  i = j
    <3>1. \A k \in 1 .. Len(out) : out[k] # h
      BY <1>5 DEF Among
    <3>2. \A k \in 1 .. Len(more) : k = Len(out) + 1 \/ k \in 1 .. Len(out)
      BY <1>8
    <3> QED BY <1>2, <1>8, <2>1, <3>1, <3>2 DEF ListedOnce
  <2> QED BY <2>1 DEF ListedOnce
<1>15. BehindParent(more, K, P)
  <2>1. ASSUME NEW j \in 1 .. Len(more), more[j] \in K
        PROVE  \E i \in 1 .. Len(more) : i < j /\ more[i] = P[more[j]]
    <3>1. CASE j = Len(out) + 1
      <4>1. h \in K
        BY <1>8, <2>1, <3>1
      <4>2. InFront(todo, N, h)
        BY <1>1, <1>3, <1>6 DEF InFront
      <4>3. PICK i \in 1 .. Len(out) : out[i] = P[h]
        BY <1>2, <4>1, <4>2 DEF Among
      <4>4. i \in 1 .. Len(more) /\ i < j
        BY <1>8, <3>1
      <4> QED BY <1>8, <3>1, <4>3, <4>4
    <3>2. CASE j # Len(out) + 1
      <4>1. j \in 1 .. Len(out) /\ more[j] = out[j]
        BY <1>8, <3>2
      <4>2. PICK i \in 1 .. Len(out) : i < j /\ out[i] = P[out[j]]
        BY <1>2, <2>1, <4>1 DEF BehindParent
      <4>3. i \in 1 .. Len(more) /\ more[i] = out[i]
        BY <1>8
      <4> QED BY <4>1, <4>2, <4>3
    <3> QED BY <3>1, <3>2
  <2> QED BY <2>1 DEF BehindParent
<1>16. \A x \in K : InFront(rest, N, x) => Among(more, P[x])
  BY <1>2, <1>10, <1>11
<1>17. \A x \in S : x \notin K => Among(more, x) \/ InFront(rest, N, x)
  BY <1>2, <1>10, <1>13
<1>18. \A x \in K : Among(more, P[x]) => Among(more, x) \/ InFront(rest, N, x)
  BY <1>2, <1>10, <1>12, <1>13
<1>19. Visiting(S, K, P, rest, more)
  BY <1>7, <1>8, <1>14, <1>15, <1>16, <1>17, <1>18 DEF Visiting, N
<1> QED BY <1>9, <1>19 DEF rest, more, mine, h

\* The recursion of treeOrder.
Visited(S, parent, workflow, start, from, n, g) ==
  IF n = 0 THEN [todo |-> from, out |-> <<>>]
  ELSE Visit(S, parent, workflow, start, g[n - 1])

Visits(g, m, S, parent, workflow, start, from) ==
  g = [n \in 0 .. m |-> Visited(S, parent, workflow, start, from, n, g)]

LEMMA VisitsExist ==
  ASSUME NEW m \in Nat, NEW S, NEW parent, NEW workflow, NEW start, NEW from
  PROVE  \E g : Visits(g, m, S, parent, workflow, start, from)
<1> DEFINE A(n, g) == Visited(S, parent, workflow, start, from, n, g)
           G == {k \in 0 .. m : \E f : f = [n \in 0 .. k |-> A(n, f)]}
<1>1. 0 \in G
  <2> DEFINE g == [n \in 0 .. 0 |-> [todo |-> from, out |-> <<>>]]
  <2>1. g = [n \in 0 .. 0 |-> A(n, g)]
    BY DEF Visited
  <2> QED BY <2>1
<1>2. ASSUME NEW i \in 0 .. m, i < m, i \in G PROVE i + 1 \in G
  <2>1. PICK f : f = [n \in 0 .. i |-> A(n, f)]
    BY <1>2
  <2> DEFINE g == [n \in 0 .. i + 1 |-> IF n = i + 1 THEN A(n, f) ELSE f[n]]
  <2>2. ASSUME NEW n \in 0 .. i + 1 PROVE g[n] = A(n, g)
    <3>1. CASE n = i + 1
      <4>1. n # 0 /\ n - 1 = i /\ i \in 0 .. i + 1 /\ i # i + 1
        BY <3>1
      <4>2. g[n - 1] = f[n - 1] /\ g[n] = A(n, f)
        BY <3>1, <4>1
      <4> HIDE DEF g
      <4> QED BY <4>1, <4>2 DEF Visited
    <3>2. CASE n # i + 1 /\ n # 0
      <4>1. n \in 0 .. i /\ n - 1 \in 0 .. i + 1 /\ n - 1 # i + 1
        BY <3>2
      <4>2. g[n] = f[n] /\ g[n - 1] = f[n - 1]
        BY <3>2, <4>1
      <4>3. f[n] = A(n, f)
        BY <2>1, <4>1
      <4> HIDE DEF g
      <4> QED BY <3>2, <4>2, <4>3 DEF Visited
    <3>3. CASE n # i + 1 /\ n = 0
      <4>1. g[n] = f[n] /\ f[n] = A(n, f)
        BY <2>1, <3>3
      <4> QED BY <3>3, <4>1 DEF Visited
    <3> QED BY <3>1, <3>2, <3>3
  <2>3. g = [n \in 0 .. i + 1 |-> g[n]]
    OBVIOUS
  <2> HIDE DEF g
  <2>4. g = [n \in 0 .. i + 1 |-> A(n, g)]
    BY <2>2, <2>3
  <2>5. i + 1 \in 0 .. m
    BY <1>2
  <2>6. \E h : h = [n \in 0 .. i + 1 |-> A(n, h)]
    BY <2>4
  <2> HIDE DEF g, A
  <2> QED BY <2>5, <2>6
<1> HIDE DEF G
<1>3. m \in G
  BY <1>1, <1>2, UpTo
<1> QED BY <1>3 DEF G, Visits

LEMMA TreeOrderIs ==
  ASSUME NEW S, NEW parent, NEW workflow, NEW start, NEW from,
         from = VisitedFrom(S, parent, workflow, start),
         NEW m \in Nat, m = Len(from) + Cardinality(S) * Cardinality(S)
  PROVE  \E g : /\ Visits(g, m, S, parent, workflow, start, from)
                /\ TreeOrder(S, parent, workflow, start) = g[m].out
<1> DEFINE visited[n \in 0 .. m] ==
             IF n = 0 THEN [todo |-> from, out |-> <<>>]
             ELSE Visit(S, parent, workflow, start, visited[n - 1])
<1>1. TreeOrder(S, parent, workflow, start) = visited[m].out
  BY DEF TreeOrder
<1>2. visited = CHOOSE g : Visits(g, m, S, parent, workflow, start, from)
  BY DEF Visits, Visited
<1> HIDE DEF visited
<1>3. Visits(visited, m, S, parent, workflow, start, from)
  BY <1>2, VisitsExist
<1> QED BY <1>1, <1>3

\* What treeOrder lists: everybody once, each child behind its parent.
WellListed(t, S, K, P) ==
  /\ t \in Seq(S) /\ ListedOnce(t) /\ BehindParent(t, K, P)
  /\ \A x \in S : Among(t, x)

LEMMA InFrontFirst ==
  ASSUME NEW S, NEW s \in Seq(S), NEW t \in Seq(S), NEW x
  PROVE  InFront(s \o t, Len(t), x) <=> Among(s, x)
<1>1. /\ Len(s \o t) = Len(s) + Len(t) /\ Len(s) \in Nat /\ Len(t) \in Nat
      /\ \A i \in 1 .. Len(s) : (s \o t)[i] = s[i]
  BY SeqConcat
<1>2. 1 .. Len(s \o t) - Len(t) = 1 .. Len(s)
  BY <1>1
<1> QED BY <1>1, <1>2 DEF InFront, Among

LEMMA TreeOrderLists ==
  ASSUME NEW S \in SUBSET Nat, IsFiniteSet(S), NEW parent, NEW workflow,
         NEW start, \A x \in S : start[x] \in Nat,
         NEW K, K = {x \in S : IsChild(S, parent, workflow, x)},
         Acyclic(S, K, parent)
  PROVE  WellListed(TreeOrder(S, parent, workflow, start), S, K, parent)
<1> DEFINE N == Cardinality(S)
           from == VisitedFrom(S, parent, workflow, start)
           m == Len(from) + N * N
           kids == [x \in S |-> Sorted({y \in K : parent[y] = x}, start)]
           J(v, n) == /\ v = [todo |-> v.todo, out |-> v.out]
                      /\ Visiting(S, K, parent, v.todo, v.out)
                      /\ Left(S, v.todo, v.out, m - n)
<1>1. N \in Nat
  BY FS_CardinalityType
<1>2. Family(S, K, parent, kids)
  <2>1. K \subseteq S /\ \A x \in K : parent[x] \in S
    BY DEF IsChild
  <2>2. ASSUME NEW x \in S PROVE Lists(kids[x], {y \in K : parent[y] = x})
    <3> DEFINE of == {y \in K : parent[y] = x}
    <3>1. of \in SUBSET S
      BY <2>1
    <3>2. kids[x] = Sorted(of, start)
      OBVIOUS
    <3> HIDE DEF of, kids
    <3>3. of \in SUBSET Nat /\ IsFiniteSet(of) /\ \A y \in of : start[y] \in Nat
      BY <3>1, FS_Subset
    <3>4. Lists(kids[x], of)
      BY <3>2, <3>3, SortedLists
    <3> QED BY <3>4 DEF of
  <2> HIDE DEF kids
  <2> QED BY <2>1, <2>2 DEF Family
<1>3. PICK tops : Lists(tops, {x \in S : ~IsChild(S, parent, workflow, x)}) /\ from = tops \o Sorted(S, start)
  BY VisitedFromLists
<1>4. /\ Lists(Sorted(S, start), S) /\ tops \in Seq(S) /\ Sorted(S, start) \in Seq(S)
      /\ Len(Sorted(S, start)) = N
      /\ \A x \in S : x \notin K => Among(tops, x)
      /\ \A x \in K : ~Among(tops, x)
  <2>1. Lists(Sorted(S, start), S)
    BY SortedLists
  <2>2. tops \in Seq({x \in S : ~IsChild(S, parent, workflow, x)})
    BY <1>3 DEF Lists
  <2>3. tops \in Seq(S) /\ \A i \in 1 .. Len(tops) : ~(tops[i] \in K)
    BY <2>2
  <2> QED BY <1>3, <2>1, <2>3 DEF Lists, Among
<1>5. from \in Seq(S) /\ Len(from) \in Nat /\ m \in Nat /\ N * N \in Nat
  BY <1>1, <1>3, <1>4, SeqConcat
<1> HIDE DEF N, from, m, kids
<1>6. Visiting(S, K, parent, from, <<>>) /\ Left(S, from, <<>>, m)
  <2>1. \A x : InFront(from, N, x) <=> Among(tops, x)
    BY <1>3, <1>4, InFrontFirst
  <2>2. <<>> \in Seq(S) /\ Len(<<>>) = 0
    OBVIOUS
  <2>3. ListedOnce(<<>>) /\ BehindParent(<<>>, K, parent) /\ \A x : ~Among(<<>>, x)
    BY <2>2 DEF ListedOnce, BehindParent, Among
  <2>4. Left(S, from, <<>>, m)
    BY <1>1, <1>5, <2>2 DEF Left, m, N
  <2> QED BY <1>4, <1>5, <2>1, <2>2, <2>3, <2>4 DEF Visiting, N
<1>7. PICK g : /\ Visits(g, m, S, parent, workflow, start, from)
               /\ TreeOrder(S, parent, workflow, start) = g[m].out
  BY <1>5, TreeOrderIs DEF from, m, N
<1>8. \A n \in 0 .. m : g[n] = Visited(S, parent, workflow, start, from, n, g)
  BY <1>7 DEF Visits
<1> DEFINE G == {n \in 0 .. m : J(g[n], n)}
<1>9. 0 \in G
  <2>1. g[0] = [todo |-> from, out |-> <<>>] /\ 0 \in 0 .. m /\ m - 0 = m
    BY <1>5, <1>8 DEF Visited
  <2> QED BY <1>6, <2>1
<1>10. ASSUME NEW n \in 0 .. m, n < m, n \in G PROVE n + 1 \in G
  <2> DEFINE v == g[n]
             todo == v.todo
             out == v.out
  <2>1. /\ n + 1 \in 0 .. m /\ n + 1 # 0 /\ (n + 1) - 1 = n
        /\ m - n \in Int /\ m - (n + 1) = (m - n) - 1
    BY <1>5, <1>10
  <2>2. g[n + 1] = Visit(S, parent, workflow, start, v)
    <3>1. g[n + 1] = Visited(S, parent, workflow, start, from, n + 1, g)
      BY <1>8, <2>1
    <3> QED BY <2>1, <3>1 DEF Visited
  <2>3. v = [todo |-> todo, out |-> out] /\ Visiting(S, K, parent, todo, out) /\ Left(S, todo, out, m - n)
    BY <1>10
  <2> HIDE DEF v, todo, out
  <2>4. v.todo = todo /\ v.out = out
    BY <2>3
  <2> DEFINE next == g[n + 1]
  <2>5. ASSUME NEW t, NEW o, next = [todo |-> t, out |-> o],
               Visiting(S, K, parent, t, o), Left(S, t, o, m - (n + 1))
        PROVE  n + 1 \in G
    <3>1. next.todo = t /\ next.out = o
      BY <2>5
    <3> QED BY <2>1, <2>5, <3>1
  <2> HIDE DEF G
  <2>6. CASE todo = <<>>
    <3>1. g[n + 1] = [todo |-> todo, out |-> out]
      BY <2>2, <2>3, <2>4, <2>6 DEF Visit
    <3>2. Left(S, todo, out, m - (n + 1))
      BY <2>6 DEF Left
    <3> QED BY <2>3, <2>5, <3>1, <3>2
  <2>7. CASE todo # <<>> /\ Head(todo) \in ToSet(out)
    <3>1. g[n + 1] = [todo |-> Tail(todo), out |-> out]
      BY <2>2, <2>3, <2>4, <2>7 DEF Visit
    <3>2. Visiting(S, K, parent, Tail(todo), out) /\ Left(S, Tail(todo), out, m - (n + 1))
      BY <2>1, <2>3, <2>7, SkipKeeps
    <3> QED BY <2>5, <3>1, <3>2
  <2>8. CASE todo # <<>> /\ Head(todo) \notin ToSet(out)
    <3> DEFINE h == Head(todo)
    <3>1. h \in S
      BY <2>3, <2>8, SeqTail DEF Visiting
    <3>2. Sorted({y \in S : IsChild(S, parent, workflow, y) /\ parent[y] = h}, start) = kids[h]
      <4>1. {y \in S : IsChild(S, parent, workflow, y) /\ parent[y] = h} = {y \in K : parent[y] = h}
        OBVIOUS
      <4> HIDE DEF h
      <4> QED BY <3>1, <4>1 DEF kids
    <3>3. g[n + 1] = [todo |-> kids[h] \o Tail(todo), out |-> Append(out, h)]
      BY <2>2, <2>4, <2>8, <3>2 DEF Visit
    <3>4. /\ Visiting(S, K, parent, kids[h] \o Tail(todo), Append(out, h))
          /\ Left(S, kids[h] \o Tail(todo), Append(out, h), m - (n + 1))
      BY <1>2, <2>1, <2>3, <2>8, ListKeeps
    <3> HIDE DEF h
    <3> QED BY <2>5, <3>3, <3>4
  <2> QED BY <2>6, <2>7, <2>8
<1> HIDE DEF G
<1>11. m \in G
  BY <1>5, <1>9, <1>10, UpTo
<1> DEFINE todo == g[m].todo
           out == g[m].out
<1>12. Visiting(S, K, parent, todo, out) /\ Left(S, todo, out, 0)
  <2>1. m - m = 0
    BY <1>5
  <2> QED BY <1>11, <2>1 DEF G
<1> HIDE DEF todo, out
<1>13. todo \in Seq(S) /\ out \in Seq(S) /\ ListedOnce(out) /\ BehindParent(out, K, parent)
  BY <1>12 DEF Visiting
<1>14. Len(out) \in Nat /\ Len(out) <= N
  <2>1. Len(out) \in Nat /\ out \in [1 .. Len(out) -> S]
    BY <1>13
  <2>2. out \in Injection(1 .. Len(out), S)
    BY <1>13, <2>1 DEF Injection, IsInjective, ListedOnce
  <2>3. Cardinality(1 .. Len(out)) <= Cardinality(S)
    BY <2>2, FS_Injection
  <2>4. Cardinality(1 .. Len(out)) = Len(out)
    <3>1. 1 \in Int /\ Len(out) \in Int
      BY <2>1
    <3>2. Cardinality(1 .. Len(out)) = IF 1 > Len(out) THEN 0 ELSE Len(out) - 1 + 1
      BY <3>1, FS_Interval
    <3> QED BY <2>1, <3>2
  <2> QED BY <2>1, <2>3, <2>4 DEF N
<1>15. todo = <<>>
  <2> SUFFICES ASSUME todo # <<>> PROVE FALSE
    OBVIOUS
  <2>1. Len(todo) + N * (N - Len(out)) <= 0
    BY <1>12 DEF Left, N
  <2>2. N - Len(out) \in Nat
    BY <1>1, <1>14
  <2>3. N * (N - Len(out)) \in Nat
    BY <1>1, <2>2
  <2>4. Len(todo) \in Nat \ {0}
    BY <1>13, SeqTail
  <2> QED BY <2>1, <2>3, <2>4
<1>16. \A x \in S : Among(out, x)
  <2>1. \A x \in S : ~InFront(todo, N, x)
    BY <1>1, <1>15 DEF InFront
  <2>2. K \subseteq S /\ \A x \in K : parent[x] \in S
    BY <1>2 DEF Family
  <2> QED BY <1>12, <2>1, <2>2, NobodyLeft DEF N
<1>17. WellListed(out, S, K, parent)
  BY <1>13, <1>16 DEF WellListed
<1> QED BY <1>7, <1>17 DEF out

-----------------------------------------------------------------------------
(***************************************************************************)
(* What the tracker knows of a transcript it has read a part of.           *)
(***************************************************************************)
WorkIn(s, n) == {i \in 1 .. n : s[i].is = "work"}

\* The usage and the results of the first n rows.
Tells(k, s, n) ==
  /\ k.usage = Cardinality(WorkIn(s, n))
  /\ \A i \in 1 .. n : s[i].is = "result" => s[i].of \in k.results

\* Of a file that is still there it tells what is above the offset, and of an
\* earlier one nothing is left once it is read again.
TailIs(k, s, inode) ==
  /\ k.tailInode <= inode
  /\ k.tailInode = 0 => k.offset = 0 /\ k.usage = 0
  /\ k.tailInode = inode /\ inode # 0 => k.offset <= Len(s) /\ Tells(k, s, k.offset)

LEMMA AppliedTells ==
  ASSUME NEW s, Sound(s), NEW n \in 0 .. Len(s), n < Len(s),
         NEW k \in ChildState, Tells(k, s, n)
  PROVE  Applied(k, s[n + 1]) \in ChildState /\ Tells(Applied(k, s[n + 1]), s, n + 1)
<1> DEFINE row == s[n + 1]
           m == Applied(k, row)
<1>1. /\ n \in Nat /\ Len(s) \in Nat /\ n + 1 \in 1 .. Len(s)
      /\ row \in Row /\ (row.is = "result" => row.of \in Child)
  BY DEF Sound
<1> HIDE DEF row
<1>2. m \in ChildState
  BY <1>1, AppliedIs
<1>3. /\ m.usage = IF row.is = "work" THEN k.usage + 1 ELSE k.usage
      /\ m.results = IF row.is = "result" THEN k.results \cup {row.of} ELSE k.results
  BY DEF Applied, ChildState
<1> HIDE DEF m
<1>4. \A i \in 1 .. n + 1 : i \in 1 .. n \/ i = n + 1
  BY <1>1
<1>5. ASSUME NEW i \in 1 .. n + 1, s[i].is = "result" PROVE s[i].of \in m.results
  BY <1>3, <1>4, <1>5 DEF Tells, row
<1>6. m.usage = Cardinality(WorkIn(s, n + 1))
  <2>1. IsFiniteSet(WorkIn(s, n)) /\ n + 1 \notin WorkIn(s, n)
    <3>1. IsFiniteSet(1 .. n)
      BY <1>1, FS_Interval
    <3>2. WorkIn(s, n) \in SUBSET (1 .. n) /\ n + 1 \notin 1 .. n
      BY <1>1 DEF WorkIn
    <3> QED BY <3>1, <3>2, FS_Subset
  <2>2. WorkIn(s, n + 1) = IF row.is = "work" THEN WorkIn(s, n) \cup {n + 1} ELSE WorkIn(s, n)
    <3>1. n + 1 \in 1 .. n + 1 /\ \A i \in 1 .. n : i \in 1 .. n + 1
      BY <1>1
    <3> QED BY <1>4, <3>1 DEF WorkIn, row
  <2>3. Cardinality(WorkIn(s, n) \cup {n + 1}) = Cardinality(WorkIn(s, n)) + 1
    BY <2>1, FS_AddElement
  <2>4. k.usage = Cardinality(WorkIn(s, n))
    BY DEF Tells
  <2> QED BY <1>3, <2>2, <2>3, <2>4
<1>7. Tells(m, s, n + 1)
  BY <1>5, <1>6 DEF Tells
<1> QED BY <1>2, <1>7 DEF m, row

\* Once the rest is read all of it is told.
LEMMA FoldTells ==
  ASSUME NEW s, Sound(s), NEW a \in 0 .. Len(s),
         NEW base \in ChildState, Tells(base, s, a)
  PROVE  Tells(FoldLeft(Applied, base, SubSeq(s, a + 1, Len(s))), s, Len(s))
<1> DEFINE new == SubSeq(s, a + 1, Len(s))
           m == Len(new)
<1>1. s \in Seq(Row) /\ Len(s) \in Nat /\ a \in Nat /\ \A i \in 1 .. Len(s) : s[i] \in Row
  BY DEF Sound
<1>2. new \in Seq(Row) /\ m = Len(s) - a /\ \A i \in 1 .. m : new[i] = s[a + i]
  BY <1>1
<1> HIDE DEF new
<1>3. PICK g : Accumulates(g, 1 .. m, base, new) /\ FoldLeft(Applied, base, new) = g[1 .. m]
  BY <1>2, FoldIs
<1>4. \A t \in SUBSET (1 .. m) : g[t] = OneMore(t, g, base, new)
  BY <1>3 DEF Accumulates
<1> HIDE DEF m
<1> DEFINE G == {n \in 0 .. m : g[1 .. n] \in ChildState /\ Tells(g[1 .. n], s, a + n)}
<1>5. 0 \in G
  <2>1. 1 .. 0 = {} /\ 1 .. 0 \in SUBSET (1 .. m) /\ 0 \in 0 .. m /\ a + 0 = a
    BY <1>1, <1>2
  <2>2. g[1 .. 0] = base
    BY <1>4, <2>1 DEF OneMore
  <2> QED BY <2>1, <2>2
<1>6. ASSUME NEW n \in 0 .. m, n < m, n \in G PROVE n + 1 \in G
  <2> DEFINE t == 1 .. n + 1
  <2>1. /\ n \in Nat /\ m \in Nat
        /\ n + 1 \in 1 .. m /\ n + 1 \in 0 .. m /\ t \in SUBSET (1 .. m)
        /\ a + n \in 0 .. Len(s) /\ a + n < Len(s) /\ (a + n) + 1 = a + (n + 1)
    BY <1>1, <1>2, <1>6
  <2>2. n + 1 \in t /\ t # {}
    <3>1. n + 1 \in 1 .. n + 1
      BY <2>1
    <3> QED BY <3>1
  <2>3. Max(t) \in t /\ \A y \in t : Max(t) >= y
    <3>1. n + 1 \in Nat /\ t \in SUBSET (1 .. n + 1)
      BY <2>1
    <3> HIDE DEF t
    <3> QED BY <2>2, <3>1, MaxIs
  <2>4. Max(t) = n + 1
    <3>1. Max(t) >= n + 1 /\ Max(t) \in 1 .. n + 1
      BY <2>2, <2>3
    <3> QED BY <2>1, <3>1
  <2>5. t \ {n + 1} = 1 .. n
    BY <2>1
  <2>6. g[t] = Applied(g[1 .. n], s[a + (n + 1)])
    <3>1. g[t] = OneMore(t, g, base, new)
      BY <1>4, <2>1
    <3>2. new[n + 1] = s[a + (n + 1)]
      BY <1>2, <2>1
    <3> HIDE DEF t
    <3> QED BY <2>2, <2>4, <2>5, <3>1, <3>2 DEF OneMore
  <2> DEFINE k == g[1 .. n]
             b == a + n
  <2>7. k \in ChildState /\ Tells(k, s, b) /\ b \in 0 .. Len(s) /\ b < Len(s)
    BY <1>6, <2>1
  <2> HIDE DEF k, b
  <2>8. Applied(k, s[b + 1]) \in ChildState /\ Tells(Applied(k, s[b + 1]), s, b + 1)
    BY <2>7, AppliedTells
  <2>9. g[t] \in ChildState /\ Tells(g[t], s, a + (n + 1))
    BY <2>1, <2>6, <2>8 DEF k, b
  <2> QED BY <2>1, <2>9
<1> HIDE DEF G
<1>7. m \in Nat /\ a + m = Len(s)
  BY <1>1, <1>2
<1>8. m \in G
  BY <1>5, <1>6, <1>7, UpTo
<1> QED BY <1>3, <1>7, <1>8 DEF G, new

\* A child's transcript is made before it is read.
Files ==
  /\ meta \subseteq Child
  /\ \A c \in Child : (gen[c] # 0 => c \in meta) /\ (gen[c] = 0 => rows[c] = <<>>)

LEMMA RowsAreSound ==
  ASSUME Types, World, NEW c \in Child PROVE Sound(rows[c])
BY DEF Types, World, Over, Sound

LEMMA TailedTells ==
  ASSUME Types, World, NEW c \in Child, gen[c] # 0,
         NEW k, Knows(k), TailIs(k, rows[c], gen[c])
  PROVE  /\ Tailed(k, c).tailInode = gen[c] /\ Tailed(k, c).offset = Len(rows[c])
         /\ Tells(Tailed(k, c), rows[c], Len(rows[c]))
<1> DEFINE again == k.tailInode # 0 /\ k.tailInode # gen[c]
           from == IF again THEN 0 ELSE k.offset
           base == IF again THEN Reset(k) ELSE k
           s    == rows[c]
           all  == FoldLeft(Applied, base, SubSeq(s, from + 1, Len(s)))
           t    == Tailed(k, c)
<1>1. t = [all EXCEPT !.offset = Len(s), !.tailInode = gen[c]]
  BY DEF Tailed
<1>2. Sound(s) /\ Len(s) \in Nat /\ gen[c] \in Nat
  BY RowsAreSound DEF Types
<1>3. k \in ChildState /\ k.offset \in Nat /\ k.usage \in Nat
  BY DEF Knows, ChildState
<1>4. base \in ChildState
  <2>1. Reset(k) \in ChildState
    BY <1>3 DEF ChildState, Reset
  <2> QED BY <1>3, <2>1
<1>5. from \in 0 .. Len(s) /\ Tells(base, s, from)
  <2>1. ASSUME NEW b, b.usage = 0 PROVE Tells(b, s, 0)
    <3>1. WorkIn(s, 0) = {} /\ 1 .. 0 = {}
      BY DEF WorkIn
    <3> QED BY <2>1, <3>1, FS_EmptySet DEF Tells
  <2>2. CASE again
    <3>1. Reset(k).usage = 0
      BY <1>3 DEF ChildState, Reset
    <3> QED BY <1>2, <2>1, <2>2, <3>1
  <2>3. CASE ~again
    <3>1. CASE k.tailInode = 0
      BY <1>2, <2>1, <2>3, <3>1 DEF TailIs
    <3>2. CASE k.tailInode # 0
      <4>1. k.tailInode = gen[c]
        BY <2>3, <3>2
      <4> QED BY <1>2, <1>3, <2>3, <4>1 DEF TailIs
    <3> QED BY <3>1, <3>2
  <2> QED BY <2>2, <2>3
<1> HIDE DEF again, from, base, s
<1>6. Tells(all, s, Len(s))
  BY <1>2, <1>4, <1>5, FoldTells
<1>7. all \in ChildState
  <2> DEFINE new == SubSeq(s, from + 1, Len(s))
  <2>1. from \in Nat /\ s \in Seq(Row)
    BY <1>2, <1>5 DEF Sound
  <2>2. /\ new \in Seq(Row)
        /\ \A i \in 1 .. Len(new) : \E j \in 1 .. Len(s) : new[i] = s[j]
    BY <2>1, Behind
  <2> HIDE DEF new
  <2>3. Sound(new)
    BY <1>2, <2>2 DEF Sound
  <2>4. FoldLeft(Applied, base, new) \in ChildState
    BY <1>4, <2>3, FoldResults
  <2> QED BY <2>4 DEF new
<1> HIDE DEF all
<1>8. /\ t.tailInode = gen[c] /\ t.offset = Len(s)
      /\ t.usage = all.usage /\ t.results = all.results
  BY <1>1, <1>7 DEF ChildState
<1> HIDE DEF t
<1>9. Tells(t, s, Len(s))
  BY <1>6, <1>8 DEF Tells
<1> QED BY <1>8, <1>9 DEF t, s

\* After a read the tail is what it was or at the end, and without a fault it
\* is at the end.
LEMMA ReadChildTells ==
  ASSUME Types, World, Files, NEW c \in Child, NEW fault,
         NEW k, Knows(k), TailIs(k, rows[c], gen[c])
  PROVE  /\ TailIs(ReadChild(k, c, fault), rows[c], gen[c])
         /\ fault.at = "none" => Tells(ReadChild(k, c, fault), rows[c], Len(rows[c]))
<1> DEFINE o == Observed(k, c)
           s == rows[c]
<1>1. Len(s) \in Nat /\ gen[c] \in Nat /\ s \in Seq(Row)
  BY DEF Types
<1>2. Knows(o)
  BY ObservedKnows
<1>3. o.tailInode = k.tailInode /\ o.offset = k.offset /\ o.usage = k.usage /\ o.results = k.results
  BY DEF Observed, Knows, ChildState
<1>4. TailIs(o, s, gen[c])
  BY <1>3 DEF TailIs, Tells
<1>5. CASE gen[c] = 0 \/ fault = At("stat", c)
  <2>1. ReadChild(k, c, fault) = k
    BY <1>5 DEF ReadChild
  <2>2. ASSUME fault.at = "none" PROVE Tells(k, s, Len(s))
    <3>1. gen[c] = 0
      BY <1>5, <2>2 DEF At
    <3>2. s = <<>> /\ k.tailInode <= 0 /\ k.tailInode \in Nat
      BY <3>1 DEF Files, TailIs, Knows, ChildState
    <3>3. k.usage = 0 /\ Len(s) = 0 /\ WorkIn(s, 0) = {} /\ 1 .. 0 = {}
      BY <3>2 DEF TailIs, WorkIn
    <3> QED BY <3>3, FS_EmptySet DEF Tells
  <2> QED BY <2>1, <2>2
<1>6. CASE ~(gen[c] = 0 \/ fault = At("stat", c)) /\ CaughtUp(k, c)
  <2>1. ReadChild(k, c, fault) = o
    BY <1>6 DEF ReadChild
  <2>2. o.tailInode = gen[c] /\ o.offset = Len(s)
    BY <1>3, <1>6 DEF CaughtUp
  <2> HIDE DEF o, s
  <2>3. Tells(o, s, Len(s))
    BY <1>4, <1>6, <2>2 DEF TailIs
  <2> QED BY <1>4, <2>1, <2>3 DEF s
<1>7. CASE ~(gen[c] = 0 \/ fault = At("stat", c)) /\ ~CaughtUp(k, c) /\ fault = At("tail", c)
  <2>1. ReadChild(k, c, fault) = o /\ fault.at # "none"
    BY <1>7 DEF ReadChild, At
  <2> QED BY <1>4, <2>1
<1>8. CASE ~(gen[c] = 0 \/ fault = At("stat", c)) /\ ~CaughtUp(k, c) /\ fault # At("tail", c)
  <2>1. ReadChild(k, c, fault) = Tailed(o, c)
    BY <1>8 DEF ReadChild
  <2> HIDE DEF o
  <2> DEFINE t == Tailed(o, c)
  <2>2. t.tailInode = gen[c] /\ t.offset = Len(s) /\ Tells(t, s, Len(s))
    BY <1>2, <1>4, <1>8, TailedTells
  <2> HIDE DEF t, s
  <2>3. TailIs(t, s, gen[c])
    BY <1>1, <1>8, <2>2 DEF TailIs
  <2> QED BY <2>1, <2>2, <2>3 DEF t, s
<1> QED BY <1>5, <1>6, <1>7, <1>8

-----------------------------------------------------------------------------
\* The last end that the first n records of a journal have of c, if any.
LastSaid(j, n, c, e) ==
  \/ e = Unknown /\ \A i \in 1 .. n : j[i].of = c => j[i].type = "started"
  \/ \E i \in 1 .. n :
       /\ j[i].of = c /\ j[i].type = e /\ e # "started"
       /\ \A k \in i + 1 .. n : j[k].of = c => j[k].type = "started"

LEMMA LastSaidIsOne ==
  ASSUME NEW j, NEW n \in Nat, NEW c, NEW e, NEW f, LastSaid(j, n, c, e), LastSaid(j, n, c, f)
  PROVE  e = f
<1>1. CASE \A i \in 1 .. n : j[i].of = c => j[i].type = "started"
  BY <1>1 DEF LastSaid
<1>2. CASE ~(\A i \in 1 .. n : j[i].of = c => j[i].type = "started")
  <2>1. PICK a \in 1 .. n : /\ j[a].of = c /\ j[a].type = e /\ e # "started"
                            /\ \A k \in a + 1 .. n : j[k].of = c => j[k].type = "started"
    BY <1>2 DEF LastSaid
  <2>2. PICK b \in 1 .. n : /\ j[b].of = c /\ j[b].type = f /\ f # "started"
                            /\ \A k \in b + 1 .. n : j[k].of = c => j[k].type = "started"
    BY <1>2 DEF LastSaid
  <2>3. a \notin b + 1 .. n /\ b \notin a + 1 .. n
    BY <2>1, <2>2
  <2>4. a = b
    BY <2>3
  <2> QED BY <2>1, <2>2, <2>4
<1> QED BY <1>1, <1>2

LEMMA LastSaidSame ==
  ASSUME NEW i, NEW j, NEW n \in Nat, \A k \in 1 .. n : i[k] = j[k], NEW c, NEW e, LastSaid(i, n, c, e)
  PROVE  LastSaid(j, n, c, e)
<1>1. \A a \in 1 .. n : \A k \in a + 1 .. n : k \in 1 .. n
  OBVIOUS
<1> QED BY <1>1 DEF LastSaid

\* One more record.
LEMMA LastSaidAppend ==
  ASSUME NEW j \in Seq(Entry), NEW x \in Entry, NEW c, NEW e, LastSaid(j, Len(j), c, e)
  PROVE  LastSaid(Append(j, x), Len(Append(j, x)), c,
                  IF x.of = c /\ x.type # "started" THEN x.type ELSE e)
<1> DEFINE l == Append(j, x)
           n == Len(j)
<1>1. /\ n \in Nat /\ Len(l) = n + 1 /\ l[n + 1] = x
      /\ \A i \in 1 .. n : l[i] = j[i]
  OBVIOUS
<1>2. \A i \in 1 .. n + 1 : i \in 1 .. n \/ i = n + 1
  BY <1>1
<1> HIDE DEF l, n
<1>3. CASE x.of = c /\ x.type # "started"
  <2>1. n + 1 \in 1 .. n + 1 /\ (n + 1) + 1 .. n + 1 = {}
    BY <1>1
  <2> QED BY <1>1, <1>3, <2>1 DEF LastSaid, l
<1>4. CASE ~(x.of = c /\ x.type # "started")
  <2>1. LastSaid(l, n, c, e)
    BY <1>1, LastSaidSame DEF n
  <2>2. CASE \A i \in 1 .. n : l[i].of = c => l[i].type = "started"
    <3>1. e = Unknown
      BY <2>1, <2>2 DEF LastSaid
    <3>2. \A i \in 1 .. n + 1 : l[i].of = c => l[i].type = "started"
      BY <1>1, <1>2, <1>4, <2>2
    <3> QED BY <1>1, <1>4, <3>1, <3>2 DEF LastSaid, l
  <2>3. CASE \E i \in 1 .. n :
               /\ l[i].of = c /\ l[i].type = e /\ e # "started"
               /\ \A k \in i + 1 .. n : l[k].of = c => l[k].type = "started"
    <3>1. PICK i \in 1 .. n :
               /\ l[i].of = c /\ l[i].type = e /\ e # "started"
               /\ \A k \in i + 1 .. n : l[k].of = c => l[k].type = "started"
      BY <2>3
    <3>2. i \in 1 .. n + 1 /\ \A k \in i + 1 .. n + 1 : k \in i + 1 .. n \/ k = n + 1
      BY <1>1
    <3>3. \A k \in i + 1 .. n + 1 : l[k].of = c => l[k].type = "started"
      BY <1>1, <1>4, <3>1, <3>2
    <3> QED BY <1>1, <1>4, <3>1, <3>2, <3>3 DEF LastSaid, l
  <2> QED BY <2>1, <2>2, <2>3 DEF LastSaid
<1> QED BY <1>3, <1>4 DEF l

LEMMA DecodedTells ==
  ASSUME NEW j \in Seq(Entry), NEW n \in 0 .. Len(j), NEW known, NEW c \in Child,
         LastSaid(j, n, c, known[c])
  PROVE  LastSaid(j, Len(j), c, Decoded(known, SubSeq(j, n + 1, Len(j)))[c])
<1> DEFINE new == SubSeq(j, n + 1, Len(j))
           ends == {i \in DOMAIN new : new[i].of = c /\ new[i].type # "started"}
           e == Decoded(known, new)[c]
           m == Len(j)
<1>1. e = IF ends = {} THEN known[c] ELSE new[Max(ends)].type
  BY DEF Decoded
<1>2. /\ m \in Nat /\ n \in Nat /\ n <= m /\ DOMAIN new = 1 .. m - n
      /\ \A i \in 1 .. m - n : new[i] = j[n + i]
  OBVIOUS
<1> HIDE DEF new, m, e
<1>3. \A k \in 1 .. m : k \in 1 .. n \/ (k - n \in 1 .. m - n /\ n + (k - n) = k)
  BY <1>2
<1>4. CASE ends = {}
  <2>1. \A k \in 1 .. m : k \in 1 .. n \/ (j[k].of = c => j[k].type = "started")
    <3> SUFFICES ASSUME NEW k \in 1 .. m, k \notin 1 .. n
                 PROVE  j[k].of = c => j[k].type = "started"
      OBVIOUS
    <3>1. k - n \in 1 .. m - n /\ n + (k - n) = k
      BY <1>3
    <3>2. k - n \notin ends /\ k - n \in DOMAIN new /\ new[k - n] = j[k]
      BY <1>2, <1>4, <3>1
    <3> QED BY <3>2
  <2>2. e = known[c]
    BY <1>1, <1>4
  <2> HIDE DEF ends
  <2>3. CASE \A i \in 1 .. n : j[i].of = c => j[i].type = "started"
    <3>1. e = Unknown
      BY <2>2, <2>3 DEF LastSaid
    <3> QED BY <2>1, <2>3, <3>1 DEF LastSaid, m, e, new
  <2>4. CASE \E i \in 1 .. n :
               /\ j[i].of = c /\ j[i].type = e /\ e # "started"
               /\ \A k \in i + 1 .. n : j[k].of = c => j[k].type = "started"
    <3>1. PICK i \in 1 .. n :
               /\ j[i].of = c /\ j[i].type = e /\ e # "started"
               /\ \A k \in i + 1 .. n : j[k].of = c => j[k].type = "started"
      BY <2>4
    <3>2. i \in 1 .. m /\ \A k \in i + 1 .. m : k \in 1 .. m /\ (k \in 1 .. n => k \in i + 1 .. n)
      BY <1>2
    <3>3. \A k \in i + 1 .. m : j[k].of = c => j[k].type = "started"
      BY <2>1, <3>1, <3>2
    <3> QED BY <3>1, <3>2, <3>3 DEF LastSaid, m, e, new
  <2> QED BY <2>2, <2>3, <2>4 DEF LastSaid
<1>5. CASE ends # {}
  <2> DEFINE a == Max(ends)
  <2>1. a \in ends /\ \A y \in ends : a >= y
    <3>1. m - n \in Nat /\ ends \in SUBSET (1 .. m - n)
      BY <1>2
    <3> HIDE DEF ends
    <3> QED BY <1>5, <3>1, MaxIs
  <2>2. a \in 1 .. m - n /\ new[a] = j[n + a] /\ j[n + a].of = c /\ j[n + a].type # "started"
    BY <1>2, <2>1
  <2>3. e = j[n + a].type /\ n + a \in 1 .. m
    BY <1>1, <1>2, <1>5, <2>2
  <2>4. ASSUME NEW k \in (n + a) + 1 .. m PROVE j[k].of = c => j[k].type = "started"
    <3>1. k - n \in 1 .. m - n /\ n + (k - n) = k /\ ~(a >= k - n)
      BY <1>2, <2>2
    <3>2. k - n \notin ends
      BY <2>1, <3>1
    <3> QED BY <1>2, <3>1, <3>2
  <2> HIDE DEF a, ends
  <2> QED BY <2>2, <2>3, <2>4 DEF LastSaid, m, e, new
<1> QED BY <1>4, <1>5

-----------------------------------------------------------------------------
(***************************************************************************)
(* What is kept of the files.  Files: a child's transcript comes after its *)
(* metadata.  Lineage: and its metadata after that of its parent, so that  *)
(* no child is an ancestor of its own.  Ends: what is on record of a       *)
(* child's end can be read somewhere, in the transcripts only until it was *)
(* read there.  Reads and Tails: what was read so far was understood.      *)
(***************************************************************************)
Lineage ==
  /\ \A c \in meta : Parent[c] \in Child => Parent[c] \in meta
  /\ \E f \in [meta -> Nat] : \A c \in meta : Parent[c] \in meta => f[Parent[c]] < f[c]

Written(all, c) ==
  \E d \in Child : \E i \in 1 .. Len(all[d]) : all[d][i].is = "result" /\ all[d][i].of = c

Ends ==
  \A c \in Child :
    /\ Kind[c] = "workflow" => LastSaid(journal, Len(journal), c, ended[c])
    /\ Kind[c] = "background" => ended[c] = notified[c]
    /\ Kind[c] = "plain" /\ ended[c] # Unknown =>
         ended[c] = Done /\ (c \in answered \/ c \in resulted \/ Written(rows, c))

Reads ==
  /\ read <= Len(journal)
  /\ \A c \in Child : Kind[c] = "workflow" => LastSaid(journal, read, c, terminal[c])

Tails == \A c \in Child : children[c] # Unknown => TailIs(children[c], rows[c], gen[c])

Kept == Files /\ Lineage /\ Ends /\ Reads /\ Tails

LEMMA Kinds ==
  /\ \A c \in Child : Kind[c] \in {"workflow", "background", "plain"}
  /\ \A c \in Child : Parent[c] \in Int
BY KindAssumption, ParentAssumption

LEMMA InitKept == Init => Kept
<1> SUFFICES ASSUME Init PROVE Kept
  OBVIOUS
<1>1. /\ meta = {} /\ journal = <<>> /\ answered = {} /\ read = 0
      /\ rows = [c \in Child |-> <<>>] /\ gen = [c \in Child |-> 0]
      /\ notified = NoTerminal /\ ended = NoTerminal
      /\ terminal = NoTerminal /\ children = NoTerminal
  BY DEF Init
<1>2. Files
  BY <1>1 DEF Files
<1>3. Lineage
  <2> DEFINE f == [c \in {} |-> 0]
  <2>1. f \in [meta -> Nat]
    BY <1>1
  <2> QED BY <1>1, <2>1 DEF Lineage
<1>4. Ends /\ Reads
  <2>1. Len(journal) = 0 /\ 1 .. 0 = {}
    BY <1>1
  <2>2. \A c \in Child : ended[c] = Unknown /\ notified[c] = Unknown /\ terminal[c] = Unknown
    BY <1>1 DEF NoTerminal
  <2> QED BY <1>1, <2>1, <2>2 DEF Ends, Reads, LastSaid
<1>5. Tails
  BY <1>1 DEF Tails, NoTerminal
<1> QED BY <1>2, <1>3, <1>4, <1>5 DEF Kept

LEMMA StutterKept ==
  ASSUME Kept, UNCHANGED <<meta, rows, gen, answered, notified, journal, ended>>,
         children' = children, resulted \subseteq resulted', read' = read, terminal' = terminal
  PROVE  Kept'
<1>1. /\ meta' = meta /\ rows' = rows /\ gen' = gen /\ answered' = answered
      /\ notified' = notified /\ journal' = journal /\ ended' = ended
  OBVIOUS
<1>2. Files' /\ Lineage'
  BY <1>1 DEF Kept, Files, Lineage
<1>3. Ends'
  BY <1>1 DEF Kept, Ends
<1>4. Reads' /\ Tails'
  BY <1>1 DEF Kept, Reads, Tails
<1> QED BY <1>2, <1>3, <1>4 DEF Kept

LEMMA SpawnKept ==
  ASSUME Types, Kept, NEW c \in Child, Spawn(c) PROVE Kept'
<1>1. /\ c \notin meta /\ Spawner(c) \in meta \cup {0} /\ meta' = meta \cup {c}
      /\ answered \subseteq answered' /\ rows' = rows /\ gen' = gen
      /\ notified' = notified /\ journal' = journal /\ ended' = ended
      /\ children' = children /\ resulted' = resulted /\ read' = read /\ terminal' = terminal
  BY DEF Spawn, tracker
<1>2. Files'
  BY <1>1 DEF Kept, Files
<1>3. Parent[c] \in Child => Parent[c] \in meta
  BY <1>1, Constants DEF Spawner
<1>4. Lineage'
  <2>1. \A d \in meta' : Parent[d] \in Child => Parent[d] \in meta'
    BY <1>1, <1>3 DEF Kept, Lineage
  <2>2. PICK f \in [meta -> Nat] : \A d \in meta : Parent[d] \in meta => f[Parent[d]] < f[d]
    BY DEF Kept, Lineage
  <2> DEFINE top == IF Parent[c] \in meta THEN f[Parent[c]] + 1 ELSE 0
             g == [d \in meta' |-> IF d = c THEN top ELSE f[d]]
  <2>3. top \in Nat
    BY <2>2
  <2>4. \A d \in meta : g[d] = f[d] /\ f[d] \in Nat
    BY <1>1, <2>2
  <2>5. g[c] = top /\ g \in [meta' -> Nat]
    BY <1>1, <2>2, <2>3
  <2>6. \A d \in meta : Parent[d] # c
    BY <1>1 DEF Kept, Lineage
  <2>7. ASSUME NEW d \in meta', Parent[d] \in meta' PROVE g[Parent[d]] < g[d]
    <3>1. CASE d = c
      <4>1. Parent[c] \in meta
        BY <1>1, <1>3, <2>7, <3>1
      <4>2. g[Parent[c]] = f[Parent[c]] /\ f[Parent[c]] \in Nat
        BY <2>4, <4>1
      <4>3. top = f[Parent[c]] + 1
        BY <4>1
      <4> HIDE DEF g, top
      <4> QED BY <2>5, <3>1, <4>2, <4>3
    <3>2. CASE d # c
      <4>1. d \in meta /\ Parent[d] \in meta
        BY <1>1, <2>6, <2>7, <3>2
      <4> HIDE DEF g
      <4> QED BY <2>2, <2>4, <4>1
    <3> QED BY <3>1, <3>2
  <2> HIDE DEF g
  <2> QED BY <2>1, <2>5, <2>7 DEF Lineage
<1>5. Ends'
  BY <1>1 DEF Kept, Ends
<1>6. Reads' /\ Tails'
  BY <1>1 DEF Kept, Reads, Tails
<1> QED BY <1>2, <1>4, <1>5, <1>6 DEF Kept

\* The rows of a transcript that grows stay where they are.
LEMMA GrowKept ==
  ASSUME Inv, Files, Tails, NEW c \in meta, c \in Child, NEW row \in Row, Grow(c, row),
         meta' = meta, children' = children
  PROVE  /\ Files' /\ Tails'
         /\ \A d : Written(rows, d) => Written(rows', d)
         /\ row.is = "result" => Written(rows', row.of)
<1>1. /\ rows \in [Child -> Seq(Row)] /\ gen \in [Child -> Nat]
      /\ children \in [Child -> ChildState \cup {Unknown}]
  BY DEF Inv, Types
<1>2. /\ rows' = [rows EXCEPT ![c] = Append(rows[c], row)]
      /\ gen' = [gen EXCEPT ![c] = IF gen[c] = 0 THEN 1 ELSE gen[c]]
  BY DEF Grow
<1>3. /\ rows'[c] = Append(rows[c], row) /\ gen'[c] = IF gen[c] = 0 THEN 1 ELSE gen[c]
      /\ \A d \in Child : d # c => rows'[d] = rows[d] /\ gen'[d] = gen[d]
  BY <1>1, <1>2
<1> DEFINE n == Len(rows[c])
<1>4. /\ n \in Nat /\ Len(rows'[c]) = n + 1 /\ rows'[c][n + 1] = row
      /\ \A i \in 1 .. n : rows'[c][i] = rows[c][i]
  <2>1. rows[c] \in Seq(Row)
    BY <1>1
  <2> QED BY <1>3, <2>1
<1>5. Files'
  <2>1. gen'[c] # 0
    BY <1>1, <1>3
  <2> QED BY <1>3, <2>1 DEF Files
<1>6. \A d \in Child : \A i \in 1 .. Len(rows[d]) : i \in 1 .. Len(rows'[d]) /\ rows'[d][i] = rows[d][i]
  <2> SUFFICES ASSUME NEW d \in Child, NEW i \in 1 .. Len(rows[d])
               PROVE  i \in 1 .. Len(rows'[d]) /\ rows'[d][i] = rows[d][i]
    OBVIOUS
  <2>1. CASE d = c
    <3>1. i \in 1 .. n
      BY <2>1
    <3> HIDE DEF n
    <3>2. i \in 1 .. n + 1
      BY <1>4, <3>1
    <3> QED BY <1>4, <2>1, <3>1, <3>2
  <2>2. CASE d # c
    BY <1>3, <2>2
  <2> QED BY <2>1, <2>2
<1>7. \A d : Written(rows, d) => Written(rows', d)
  BY <1>6 DEF Written
<1>8. row.is = "result" => Written(rows', row.of)
  <2>1. n + 1 \in 1 .. n + 1
    BY <1>4
  <2> HIDE DEF n
  <2> QED BY <1>4, <2>1 DEF Written
<1>9. ASSUME NEW k \in ChildState, TailIs(k, rows[c], gen[c]) PROVE TailIs(k, rows'[c], gen'[c])
  <2>1. k.tailInode \in Nat /\ k.offset \in Nat /\ gen[c] \in Nat
    BY <1>1, <1>9 DEF ChildState
  <2>2. CASE gen[c] = 0
    BY <1>3, <1>9, <2>1, <2>2 DEF TailIs
  <2>3. CASE gen[c] # 0
    <3>1. gen'[c] = gen[c]
      BY <1>3, <2>3
    <3>2. ASSUME k.tailInode = gen[c] PROVE k.offset <= Len(rows'[c]) /\ Tells(k, rows'[c], k.offset)
      <4>1. k.offset <= n /\ Tells(k, rows[c], k.offset)
        BY <1>9, <2>3, <3>2 DEF TailIs
      <4> HIDE DEF n
      <4>2. \A i \in 1 .. k.offset : rows'[c][i] = rows[c][i]
        BY <1>4, <2>1, <4>1
      <4>3. WorkIn(rows'[c], k.offset) = WorkIn(rows[c], k.offset)
        BY <4>2 DEF WorkIn
      <4>4. Tells(k, rows'[c], k.offset)
        BY <4>1, <4>2, <4>3 DEF Tells
      <4> QED BY <1>4, <2>1, <4>1, <4>4
    <3> QED BY <1>9, <3>1, <3>2 DEF TailIs
  <2> QED BY <2>2, <2>3
<1>10. Tails'
  BY <1>1, <1>3, <1>9 DEF Tails
<1> QED BY <1>5, <1>7, <1>8, <1>10

LEMMA WorkKept ==
  ASSUME Inv, Kept, NEW c \in Child, Work(c) PROVE Kept'
<1>1. PICK is \in {"work", "call", "return"} : Grow(c, [is |-> is, of |-> 0, ts |-> now])
  BY DEF Work
<1>2. /\ c \in meta /\ meta' = meta /\ answered' = answered /\ notified' = notified
      /\ journal' = journal /\ ended' = ended /\ children' = children
      /\ resulted' = resulted /\ read' = read /\ terminal' = terminal
  BY DEF Work, tracker
<1> DEFINE row == [is |-> is, of |-> 0, ts |-> now]
<1>3. row \in Row
  BY DEF Inv, Types, Row
<1> HIDE DEF row
<1>4. Files' /\ Tails' /\ \A d : Written(rows, d) => Written(rows', d)
  BY <1>1, <1>2, <1>3, GrowKept DEF Kept, row
<1>5. Ends'
  BY <1>2, <1>4 DEF Kept, Ends
<1>6. Lineage' /\ Reads'
  BY <1>2 DEF Kept, Lineage, Reads
<1> QED BY <1>4, <1>5, <1>6 DEF Kept

LEMMA RewriteKept ==
  ASSUME Inv, Kept, NEW c \in Child, Rewrite(c) PROVE Kept'
<1>1. /\ gen[c] # 0 /\ gen' = [gen EXCEPT ![c] = gen[c] + 1] /\ rows' = [rows EXCEPT ![c] = <<>>]
      /\ \A i \in DOMAIN rows[c] : rows[c][i].is = "result" => rows[c][i].of \in resulted
      /\ meta' = meta /\ answered' = answered /\ notified' = notified
      /\ journal' = journal /\ ended' = ended /\ children' = children
      /\ resulted' = resulted /\ read' = read /\ terminal' = terminal
  BY DEF Rewrite, tracker
<1>2. /\ rows \in [Child -> Seq(Row)] /\ gen \in [Child -> Nat]
      /\ children \in [Child -> ChildState \cup {Unknown}]
  BY DEF Inv, Types
<1>3. /\ gen'[c] = gen[c] + 1 /\ gen[c] \in Nat /\ rows'[c] = <<>>
      /\ \A d \in Child : d # c => rows'[d] = rows[d] /\ gen'[d] = gen[d]
  BY <1>1, <1>2
<1>4. Files'
  BY <1>1, <1>3 DEF Kept, Files
<1>5. \A d : Written(rows, d) => Written(rows', d) \/ d \in resulted
  <2> SUFFICES ASSUME NEW d, Written(rows, d), d \notin resulted PROVE Written(rows', d)
    OBVIOUS
  <2>1. PICK x \in Child : \E i \in 1 .. Len(rows[x]) : rows[x][i].is = "result" /\ rows[x][i].of = d
    BY DEF Written
  <2>2. PICK i \in 1 .. Len(rows[x]) : rows[x][i].is = "result" /\ rows[x][i].of = d
    BY <2>1
  <2>3. x # c
    <3>1. rows[c] \in Seq(Row)
      BY <1>2
    <3>2. DOMAIN rows[c] = 1 .. Len(rows[c])
      BY <3>1
    <3> QED BY <1>1, <2>2, <3>2
  <2> QED BY <1>3, <2>2, <2>3 DEF Written
<1>6. Ends'
  BY <1>1, <1>5 DEF Kept, Ends
<1>7. Lineage' /\ Reads'
  BY <1>1 DEF Kept, Lineage, Reads
<1>8. ASSUME NEW k \in ChildState, TailIs(k, rows[c], gen[c]) PROVE TailIs(k, rows'[c], gen'[c])
  <2>1. k.tailInode \in Nat
    BY <1>8 DEF ChildState
  <2> QED BY <1>3, <1>8, <2>1 DEF TailIs
<1>9. Tails'
  BY <1>1, <1>2, <1>3, <1>8 DEF Kept, Tails
<1> QED BY <1>4, <1>6, <1>7, <1>9 DEF Kept

-----------------------------------------------------------------------------
\* Its end on record is in whichever transcript it was written to.
LEMMA AnswerKept ==
  ASSUME Inv, Kept, NEW c \in Child, Answer(c) PROVE Kept'
<1>1. /\ c \in meta /\ Kind[c] = "plain" /\ ended' = [ended EXCEPT ![c] = Done]
      /\ meta' = meta /\ notified' = notified /\ journal' = journal /\ children' = children
      /\ resulted' = resulted /\ read' = read /\ terminal' = terminal
      /\ \/ Spawner(c) = 0 /\ answered' = answered \cup {c} /\ rows' = rows /\ gen' = gen
         \/ /\ Spawner(c) # 0 /\ answered' = answered
            /\ Grow(Spawner(c), [is |-> "result", of |-> c, ts |-> now])
  BY DEF Answer, tracker
<1>2. ended'[c] = Done /\ \A d \in Child : d # c => ended'[d] = ended[d]
  BY <1>1 DEF Inv, Types
<1>3. Lineage' /\ Reads'
  BY <1>1 DEF Kept, Lineage, Reads
<1>4. ASSUME answered \subseteq answered', \A d : Written(rows, d) => Written(rows', d),
             c \in answered' \/ Written(rows', c)
      PROVE  Ends'
  <2> SUFFICES ASSUME NEW d \in Child
               PROVE  /\ Kind[d] = "workflow" => LastSaid(journal', Len(journal'), d, ended'[d])
                      /\ Kind[d] = "background" => ended'[d] = notified'[d]
                      /\ Kind[d] = "plain" /\ ended'[d] # Unknown =>
                           /\ ended'[d] = Done
                           /\ d \in answered' \/ d \in resulted' \/ Written(rows', d)
    BY DEF Ends
  <2>1. CASE d = c
    BY <1>1, <1>2, <1>4, <2>1
  <2>2. CASE d # c
    BY <1>1, <1>2, <1>4, <2>2 DEF Kept, Ends
  <2> QED BY <2>1, <2>2
<1>5. CASE Spawner(c) = 0
  <2>1. answered' = answered \cup {c} /\ rows' = rows /\ gen' = gen
    BY <1>1, <1>5
  <2>2. Files' /\ Tails'
    BY <1>1, <2>1 DEF Kept, Files, Tails
  <2>3. Ends'
    BY <1>4, <2>1
  <2> QED BY <1>3, <2>2, <2>3 DEF Kept
<1>6. CASE Spawner(c) # 0
  <2> DEFINE row == [is |-> "result", of |-> c, ts |-> now]
             p   == Spawner(c)
  <2>1. row \in Row /\ row.of = c /\ row.is = "result"
    BY DEF Inv, Types, Row
  <2>2. p \in Child /\ p \in meta
    BY <1>1, <1>6 DEF Spawner, Kept, Lineage
  <2>3. Grow(p, row) /\ answered' = answered
    BY <1>1, <1>6
  <2> HIDE DEF row, p
  <2>4. /\ Files' /\ Tails'
        /\ \A d : Written(rows, d) => Written(rows', d)
        /\ Written(rows', c)
    BY <1>1, <2>1, <2>2, <2>3, GrowKept DEF Kept
  <2>5. Ends'
    BY <1>4, <2>3, <2>4
  <2> QED BY <1>3, <2>4, <2>5 DEF Kept
<1> QED BY <1>5, <1>6

LEMMA NotifyKept ==
  ASSUME Inv, Kept, NEW c \in Child, Notify(c) PROVE Kept'
<1>1. PICK st \in {Done, Failed} : /\ notified' = [notified EXCEPT ![c] = st]
                                   /\ ended' = [ended EXCEPT ![c] = st]
  BY DEF Notify
<1>2. /\ Kind[c] = "background" /\ meta' = meta /\ rows' = rows /\ gen' = gen
      /\ answered' = answered /\ journal' = journal /\ children' = children
      /\ resulted' = resulted /\ read' = read /\ terminal' = terminal
  BY DEF Notify, tracker
<1>3. /\ ended'[c] = notified'[c]
      /\ \A d \in Child : d # c => ended'[d] = ended[d] /\ notified'[d] = notified[d]
  BY <1>1 DEF Inv, Types
<1>4. Files' /\ Lineage' /\ Reads' /\ Tails'
  BY <1>2 DEF Kept, Files, Lineage, Reads, Tails
<1>5. Ends'
  <2> SUFFICES ASSUME NEW d \in Child
               PROVE  /\ Kind[d] = "workflow" => LastSaid(journal', Len(journal'), d, ended'[d])
                      /\ Kind[d] = "background" => ended'[d] = notified'[d]
                      /\ Kind[d] = "plain" /\ ended'[d] # Unknown =>
                           /\ ended'[d] = Done
                           /\ d \in answered' \/ d \in resulted' \/ Written(rows', d)
    BY DEF Ends
  <2>1. CASE d = c
    BY <1>2, <1>3, <2>1
  <2>2. CASE d # c
    BY <1>2, <1>3, <2>2 DEF Kept, Ends
  <2> QED BY <2>1, <2>2
<1> QED BY <1>4, <1>5 DEF Kept

\* The last end that the journal has of an agent is the one on record.
LEMMA RecordKept ==
  ASSUME Inv, Kept, NEW c \in Child, Record(c) PROVE Kept'
<1>1. PICK type \in {"started", Done, Failed} :
        /\ journal' = Append(journal, [type |-> type, of |-> c])
        /\ ended' = IF type = "started" THEN ended ELSE [ended EXCEPT ![c] = type]
  BY DEF Record
<1>2. /\ Kind[c] = "workflow" /\ meta' = meta /\ rows' = rows /\ gen' = gen
      /\ answered' = answered /\ notified' = notified /\ children' = children
      /\ resulted' = resulted /\ read' = read /\ terminal' = terminal
  BY DEF Record, InWorkflow, tracker
<1> DEFINE x == [type |-> type, of |-> c]
<1>3. x \in Entry /\ x.type = type /\ x.of = c
  BY DEF Entry, End
<1>4. journal' = Append(journal, x) /\ journal \in Seq(Entry) /\ Len(journal) \in Nat /\ read \in Nat
  BY <1>1 DEF Inv, Types
<1> HIDE DEF x
<1>5. \A d \in Child : ended'[d] = IF x.of = d /\ x.type # "started" THEN x.type ELSE ended[d]
  BY <1>1, <1>3 DEF Inv, Types
<1>6. Files' /\ Lineage' /\ Tails'
  BY <1>2 DEF Kept, Files, Lineage, Tails
<1>7. ASSUME NEW d \in Child, Kind[d] = "workflow"
      PROVE  LastSaid(journal', Len(journal'), d, ended'[d])
  <2> DEFINE e == ended[d]
  <2>1. LastSaid(journal, Len(journal), d, e)
    BY <1>7 DEF Kept, Ends
  <2> HIDE DEF e
  <2>2. LastSaid(Append(journal, x), Len(Append(journal, x)), d,
                 IF x.of = d /\ x.type # "started" THEN x.type ELSE e)
    BY <1>3, <1>4, <2>1, LastSaidAppend
  <2> QED BY <1>4, <1>5, <2>2 DEF e
<1>8. Ends'
  <2>1. \A d \in Child : Kind[d] # "workflow" => ended'[d] = ended[d]
    BY <1>2, <1>3, <1>5
  <2> QED BY <1>2, <1>7, <2>1 DEF Kept, Ends
<1>9. Reads'
  <2>1. /\ Len(journal') = Len(journal) + 1
        /\ \A i \in 1 .. Len(journal) : journal'[i] = journal[i]
    BY <1>3, <1>4
  <2>2. read <= Len(journal) /\ read' <= Len(journal')
    BY <1>2, <1>4, <2>1 DEF Kept, Reads
  <2>3. \A i \in 1 .. read : journal[i] = journal'[i]
    BY <1>4, <2>1, <2>2
  <2>4. ASSUME NEW d \in Child, Kind[d] = "workflow"
        PROVE  LastSaid(journal', read', d, terminal'[d])
    <3> DEFINE e == terminal[d]
               l == journal'
    <3>1. LastSaid(journal, read, d, e) /\ \A i \in 1 .. read : journal[i] = l[i]
      BY <2>3, <2>4 DEF Kept, Reads
    <3> HIDE DEF e, l
    <3>2. LastSaid(l, read, d, e)
      BY <1>4, <3>1, LastSaidSame
    <3> QED BY <1>2, <3>2 DEF e, l
  <2> QED BY <2>2, <2>4 DEF Reads
<1> QED BY <1>6, <1>8, <1>9 DEF Kept

\* A scan whose reads all succeed tells everything of every child whose
\* metadata is there.
LEMMA ScannedTells ==
  ASSUME Inv, Kept, NEW fault, NEW c \in Child
  PROVE  /\ Scanned(fault)[c] # Unknown => TailIs(Scanned(fault)[c], rows[c], gen[c])
         /\ c \in meta /\ fault.at = "none" =>
              /\ Scanned(fault)[c] \in ChildState
              /\ Tells(Scanned(fault)[c], rows[c], Len(rows[c]))
         /\ c \notin meta => Scanned(fault)[c] = Unknown
<1>1. Types /\ World /\ Tracker /\ Files
  BY DEF Inv, Kept
<1> DEFINE k == IF children[c] # Unknown THEN children[c] ELSE New
           r == ReadChild(k, c, fault)
<1>2. Knows(k)
  BY <1>1, NewKnows DEF Types, Tracker, Knows
<1>3. TailIs(k, rows[c], gen[c])
  <2>1. gen[c] \in Nat
    BY <1>1 DEF Types
  <2>2. New.tailInode = 0 /\ New.offset = 0 /\ New.usage = 0
    BY DEF New
  <2>3. TailIs(New, rows[c], gen[c])
    BY <2>1, <2>2 DEF TailIs
  <2> QED BY <2>3 DEF Kept, Tails
<1>4. /\ Scanned(fault)[c] = Unknown \/ Scanned(fault)[c] = r
      /\ c \in meta /\ fault.at = "none" => Scanned(fault)[c] = r
      /\ c \notin meta => Scanned(fault)[c] = Unknown
  BY DEF Scanned, At
<1> HIDE DEF k
<1>5. /\ TailIs(r, rows[c], gen[c])
      /\ fault.at = "none" => Tells(r, rows[c], Len(rows[c]))
  BY <1>1, <1>2, <1>3, ReadChildTells
<1>6. r \in ChildState
  BY <1>1, <1>2, ReadChildKnows DEF Knows
<1> HIDE DEF r
<1> QED BY <1>4, <1>5, <1>6

\* The journal is understood as far as it was read, and without a fault it is
\* read to its end.
LEMMA JournalTells ==
  ASSUME Inv, Kept, NEW fault
  PROVE  /\ Journal(fault).read <= Len(journal)
         /\ \A c \in Child : Kind[c] = "workflow" =>
              LastSaid(journal, Journal(fault).read, c, Journal(fault).terminal[c])
         /\ fault.at = "none" => Journal(fault).read = Len(journal)
<1>1. /\ journal \in Seq(Entry) /\ Len(journal) \in Nat /\ read \in Nat /\ read <= Len(journal)
      /\ \A c \in Child : Kind[c] = "workflow" => LastSaid(journal, read, c, terminal[c])
  BY DEF Inv, Types, Kept, Reads
<1>2. CASE fault.at = "workflows"
  <2>1. Journal(fault).read = 0 /\ \A c \in Child : Journal(fault).terminal[c] = Unknown
    BY <1>2 DEF Journal, NoTerminal
  <2>2. 1 .. 0 = {}
    OBVIOUS
  <2> QED BY <1>1, <1>2, <2>1, <2>2 DEF LastSaid
<1>3. CASE fault.at # "workflows" /\ fault.at = "journal"
  BY <1>1, <1>3 DEF Journal
<1>4. CASE fault.at # "workflows" /\ fault.at # "journal"
  <2> DEFINE facts == Decoded(terminal, SubSeq(journal, read + 1, Len(journal)))
  <2>1. Journal(fault).read = Len(journal) /\ Journal(fault).terminal = facts
    BY <1>4 DEF Journal
  <2>2. ASSUME NEW c \in Child, Kind[c] = "workflow"
        PROVE  LastSaid(journal, Len(journal), c, facts[c])
    BY <1>1, <2>2, DecodedTells
  <2> QED BY <1>1, <2>1, <2>2
<1> QED BY <1>2, <1>3, <1>4

LEMMA CollectKept ==
  ASSUME Inv, Kept, NEW fault, Collect(fault) PROVE Kept'
<1>1. /\ children' = Scanned(fault) /\ resulted \subseteq resulted'
      /\ read' = Journal(fault).read /\ terminal' = Journal(fault).terminal
      /\ meta' = meta /\ rows' = rows /\ gen' = gen /\ answered' = answered
      /\ notified' = notified /\ journal' = journal /\ ended' = ended
  BY DEF Collect, world
<1>2. Files' /\ Lineage'
  BY <1>1 DEF Kept, Files, Lineage
<1>3. Ends'
  BY <1>1 DEF Kept, Ends
<1>4. Reads'
  BY <1>1, JournalTells DEF Reads
<1>5. Tails'
  BY <1>1, ScannedTells DEF Tails
<1> QED BY <1>2, <1>3, <1>4, <1>5 DEF Kept

LEMMA StepKept ==
  ASSUME Inv, Kept, [Next]_vars PROVE Kept'
<1>1. CASE Tick \/ UNCHANGED vars
  <2>1. /\ UNCHANGED <<meta, rows, gen, answered, notified, journal, ended>>
        /\ children' = children /\ resulted \subseteq resulted' /\ read' = read /\ terminal' = terminal
    BY <1>1 DEF Tick, vars, world, tracker
  <2> QED BY <2>1, StutterKept
<1>2. CASE \E c \in Child : Spawn(c) \/ Work(c) \/ Rewrite(c) \/ Answer(c) \/ Notify(c) \/ Record(c)
  BY <1>2, SpawnKept, WorkKept, RewriteKept, AnswerKept, NotifyKept, RecordKept DEF Inv
<1>3. CASE Poll \/ PollWithFault
  <2>1. PICK fault : Collect(fault)
    BY <1>3 DEF Poll, PollWithFault
  <2> QED BY <2>1, CollectKept
<1>4. CASE PollFails
  <2>1. /\ UNCHANGED <<meta, rows, gen, answered, notified, journal, ended>>
        /\ children' = children /\ resulted \subseteq resulted' /\ read' = read /\ terminal' = terminal
    BY <1>4 DEF PollFails, world
  <2> QED BY <2>1, StutterKept
<1> QED BY <1>1, <1>2, <1>3, <1>4 DEF Next

LEMMA AlwaysKept == Spec => []Kept
<1>1. Init => Kept
  BY InitKept
<1>2. Inv /\ Kept /\ [Next]_vars => Kept'
  BY StepKept
<1> QED BY <1>1, <1>2, Always, PTL DEF Spec

-----------------------------------------------------------------------------
(***************************************************************************)
(* A poll whose reads all succeed.                                         *)
(***************************************************************************)
\* What it has of the evidence is all there is of it.
HasAll(res, term) ==
  /\ resulted \subseteq res /\ answered \subseteq res
  /\ \A d \in meta : \A i \in 1 .. Len(rows[d]) : rows[d][i].is = "result" => rows[d][i].of \in res
  /\ \A c \in res : Kind[c] # "background" => Over(c)
  /\ \A c \in Child : Kind[c] = "workflow" => LastSaid(journal, Len(journal), c, term[c])

LEMMA VerdictIsEnd ==
  ASSUME Inv, Kept, NEW res, NEW term, HasAll(res, term), NEW c \in Child
  PROVE  Verdict(c, res, notified, term) = ended[c]
<1>1. CASE Kind[c] = "workflow"
  <2> DEFINE e == term[c]
             f == ended[c]
  <2>1. LastSaid(journal, Len(journal), c, e) /\ LastSaid(journal, Len(journal), c, f)
    BY <1>1 DEF HasAll, Kept, Ends
  <2>2. Len(journal) \in Nat
    BY DEF Inv, Types
  <2> HIDE DEF e, f
  <2>3. e = f
    BY <2>1, <2>2, LastSaidIsOne
  <2> QED BY <1>1, <2>3 DEF Verdict, InWorkflow, e, f
<1>2. CASE Kind[c] = "background"
  BY <1>2 DEF Verdict, InWorkflow, Kept, Ends
<1>3. CASE Kind[c] = "plain" /\ ended[c] = Unknown
  BY <1>3 DEF Verdict, InWorkflow, HasAll, Over
<1>4. CASE Kind[c] = "plain" /\ ended[c] # Unknown
  <2>1. ended[c] = Done /\ (c \in answered \/ c \in resulted \/ Written(rows, c))
    BY <1>4 DEF Kept, Ends
  <2>2. ASSUME Written(rows, c) PROVE c \in res
    <3>1. PICK d \in Child : \E i \in 1 .. Len(rows[d]) : rows[d][i].is = "result" /\ rows[d][i].of = c
      BY <2>2 DEF Written
    <3>2. d \in meta
      <4>1. rows[d] # <<>>
        BY <3>1
      <4> QED BY <4>1 DEF Kept, Files
    <3> QED BY <3>1, <3>2 DEF HasAll
  <2> QED BY <1>4, <2>1, <2>2 DEF Verdict, InWorkflow, HasAll
<1> QED BY <1>1, <1>2, <1>3, <1>4, Kinds

\* Propagation shows each end as it was told, and no other.
LEMMA EndsShown ==
  ASSUME NEW S, NEW st \in [S -> Status], NEW c \in S
  PROVE  /\ Ended(st[c]) => Propagated(S, Parent, st)[c] = st[c]
         /\ ~Ended(st[c]) => ~Ended(Propagated(S, Parent, st)[c])
BY PropagatedIs DEF Ended, Status, Idle, Running, Done, Failed

\* What is told of the children whose metadata is there, with all the evidence.
LEMMA ToldIsEnd ==
  ASSUME Inv, Kept, NEW res, NEW term, HasAll(res, term),
         NEW kids, \A c \in Child : kids[c] # Unknown <=> c \in meta
  PROVE  /\ DOMAIN Told(kids, res, notified, term) = meta
         /\ \A c \in meta :
              IF ended[c] = Unknown THEN ~Ended(Told(kids, res, notified, term)[c])
              ELSE Told(kids, res, notified, term)[c] = ended[c]
<1> DEFINE st == [c \in meta |-> IF ended[c] # Unknown THEN ended[c] ELSE Inferred(kids[c])]
<1>1. meta \subseteq Child /\ ended \in [Child -> End \cup {Unknown}]
  BY DEF Inv, Types, Kept, Files
<1>2. \A c \in Child : Verdict(c, res, notified, term) = ended[c]
  BY VerdictIsEnd
<1>3. {c \in Child : kids[c] # Unknown} = meta
  BY <1>1
<1>4. Told(kids, res, notified, term) = Propagated(meta, Parent, st)
  <2>1. st = [c \in meta |-> IF Verdict(c, res, notified, term) # Unknown
                             THEN Verdict(c, res, notified, term) ELSE Inferred(kids[c])]
    BY <1>1, <1>2
  <2> HIDE DEF st
  <2> QED BY <1>3, <2>1 DEF Told
<1>5. \A c \in meta : /\ st[c] \in Status
                      /\ ended[c] = Unknown => ~Ended(st[c])
                      /\ ended[c] # Unknown => st[c] = ended[c] /\ Ended(st[c])
  <2>1. \A c \in meta : Inferred(kids[c]) \in {Running, Idle}
    BY DEF Inferred
  <2> QED BY <1>1, <2>1, Constants DEF End, Ended, Status, Running, Idle, Done, Failed
<1>6. st \in [meta -> Status]
  BY <1>5
<1> HIDE DEF st
<1>7. DOMAIN Propagated(meta, Parent, st) = meta
  BY <1>6, PropagatedIs
<1>8. ASSUME NEW c \in meta
      PROVE  /\ Ended(st[c]) => Propagated(meta, Parent, st)[c] = st[c]
             /\ ~Ended(st[c]) => ~Ended(Propagated(meta, Parent, st)[c])
  BY <1>6, EndsShown
<1> QED BY <1>4, <1>5, <1>7, <1>8

\* The listing of the children whose metadata is there.
Listing(order) ==
  /\ ToSet(order) = meta /\ IsInjective(order)
  /\ \A i, j \in DOMAIN order : Parent[order[j]] = order[i] /\ ~InWorkflow(order[j]) => i < j

LEMMA ListingIs ==
  ASSUME Kept, NEW kids, \A c \in meta : kids[c] \in ChildState,
         NEW status, DOMAIN status = meta
  PROVE  Listing(Snapshot(status, kids).order)
<1> DEFINE workflow == [c \in Child |-> IF InWorkflow(c) THEN 1 ELSE NoWorkflow]
           start == [c \in meta |-> kids[c].start]
           K == {x \in meta : IsChild(meta, Parent, workflow, x)}
           t == TreeOrder(meta, Parent, workflow, start)
<1>1. Snapshot(status, kids).order = t
  BY DEF Snapshot
<1>2. meta \subseteq Child /\ meta \in SUBSET Nat /\ IsFiniteSet(meta)
  <2>1. meta \in SUBSET Child
    BY DEF Kept, Files
  <2> QED BY <2>1, Constants, FS_Subset
<1>3. \A x \in meta : start[x] \in Nat
  BY DEF ChildState
<1>4. PICK f \in [meta -> Nat] : \A c \in meta : Parent[c] \in meta => f[Parent[c]] < f[c]
  BY DEF Kept, Lineage
<1>5. Acyclic(meta, K, Parent)
  BY <1>4 DEF Acyclic, IsChild
<1>6. ASSUME NEW x \in meta, Parent[x] \in meta, ~InWorkflow(x) PROVE x \in K
  <2>1. Parent[x] # x
    BY <1>4, <1>6
  <2>2. workflow[x] = NoWorkflow
    BY <1>2, <1>6
  <2> HIDE DEF workflow
  <2> QED BY <1>6, <2>1, <2>2 DEF IsChild
<1>7. WellListed(t, meta, K, Parent)
  <2>1. K = {x \in meta : IsChild(meta, Parent, workflow, x)}
    OBVIOUS
  <2> HIDE DEF K, workflow, start
  <2> QED BY <1>2, <1>3, <1>5, <2>1, TreeOrderLists
<1> HIDE DEF K, t, workflow, start
<1>8. t \in Seq(meta) /\ DOMAIN t = 1 .. Len(t) /\ Len(t) \in Nat
  BY <1>7 DEF WellListed
<1>9. ToSet(t) = meta
  <2>1. \A x \in meta : \E i \in 1 .. Len(t) : t[i] = x
    BY <1>7 DEF WellListed, Among
  <2>2. \A i \in 1 .. Len(t) : t[i] \in meta
    BY <1>8
  <2> QED BY <1>8, <2>1, <2>2 DEF ToSet
<1>10. IsInjective(t)
  BY <1>7, <1>8 DEF WellListed, ListedOnce, IsInjective
<1>11. ASSUME NEW i \in DOMAIN t, NEW j \in DOMAIN t, Parent[t[j]] = t[i], ~InWorkflow(t[j])
       PROVE  i < j
  <2>1. t[i] \in meta /\ t[j] \in meta
    BY <1>8
  <2>2. t[j] \in K
    BY <1>6, <1>11, <2>1
  <2>3. PICK a \in 1 .. Len(t) : a < j /\ t[a] = Parent[t[j]]
    BY <1>7, <1>8, <2>2 DEF WellListed, BehindParent
  <2>4. a = i
    BY <1>7, <1>8, <1>11, <2>3 DEF WellListed, ListedOnce
  <2> QED BY <2>3, <2>4
<1> QED BY <1>1, <1>9, <1>10, <1>11 DEF Listing

\* PollTellsAll, of what a poll shows.
TellsAll(what) ==
  /\ DOMAIN what.status = meta
  /\ ToSet(what.order) = meta /\ IsInjective(what.order)
  /\ \A i, j \in DOMAIN what.order :
       Parent[what.order[j]] = what.order[i] /\ ~InWorkflow(what.order[j])
         => i < j
  /\ \A c \in meta :
       /\ IF ended[c] = Unknown THEN ~Ended(what.status[c])
          ELSE what.status[c] = ended[c]
       /\ what.usage[c] = Cardinality({i \in DOMAIN rows[c] : rows[c][i].is = "work"})

LEMMA PollTells ==
  ASSUME Inv, Kept, Poll PROVE TellsAll(shown')
<1> DEFINE fault == At("none", 0)
           kids  == Scanned(fault)
           term  == Journal(fault).terminal
           res   == resulted \cup answered
                      \cup UNION {kids[c].results : c \in {x \in Child : kids[x] # Unknown}}
           status == Told(kids, res, notified, term)
<1>1. fault.at = "none"
  BY DEF At
<1>2. Collect(fault)
  BY DEF Poll
<1>3. shown' = Snapshot(status, kids)
  BY <1>2 DEF Collect
<1> HIDE DEF fault
<1>4. meta \subseteq Child
  BY DEF Kept, Files
<1>5. \A c \in meta : kids[c] \in ChildState /\ Tells(kids[c], rows[c], Len(rows[c]))
  BY <1>1, <1>4, ScannedTells
<1>6. \A c \in Child : kids[c] # Unknown <=> c \in meta
  BY <1>5, ScannedTells, UnknownAssumption
<1>7. HasAll(res, term)
  <2>1. \A d \in meta : \A i \in 1 .. Len(rows[d]) : rows[d][i].is = "result" => rows[d][i].of \in res
    BY <1>4, <1>5, <1>6 DEF Tells
  <2>2. \A c \in res : Kind[c] # "background" => Over(c)
    <3>1. \A c \in Child : kids[c] # Unknown => \A x \in kids[c].results : Over(x)
      BY ScannedKnows DEF Inv, Knows
    <3>2. \A x \in res : x \in resulted \/ x \in answered \/ Over(x)
      BY <3>1
    <3> HIDE DEF res
    <3> QED BY <3>2 DEF Inv, World, Tracker
  <2>3. \A c \in Child : Kind[c] = "workflow" => LastSaid(journal, Len(journal), c, term[c])
    BY <1>1, JournalTells
  <2> QED BY <2>1, <2>2, <2>3 DEF HasAll
<1> HIDE DEF kids, term, res
<1>8. /\ DOMAIN status = meta
      /\ \A c \in meta : IF ended[c] = Unknown THEN ~Ended(status[c]) ELSE status[c] = ended[c]
  BY <1>6, <1>7, ToldIsEnd
<1> HIDE DEF status
<1> DEFINE what == shown'
<1>9. what.status = status /\ \A c \in meta : what.usage[c] = kids[c].usage
  BY <1>3, <1>8 DEF Snapshot
<1>10. Listing(what.order)
  BY <1>3, <1>5, <1>8, ListingIs
<1>11. ASSUME NEW c \in meta
       PROVE  what.usage[c] = Cardinality({i \in DOMAIN rows[c] : rows[c][i].is = "work"})
  <2>1. rows[c] \in Seq(Row)
    BY <1>4 DEF Inv, Types
  <2>2. {i \in DOMAIN rows[c] : rows[c][i].is = "work"} = WorkIn(rows[c], Len(rows[c]))
    BY <2>1 DEF WorkIn
  <2> QED BY <1>5, <1>9, <2>2 DEF Tells
<1> HIDE DEF what
<1>12. TellsAll(what)
  BY <1>8, <1>9, <1>10, <1>11 DEF TellsAll, Listing
<1> QED BY <1>12 DEF what

\* A poll whose reads all succeed shows every child that has metadata once,
\* behind the one that spawned it, with its end and usage as they are on disk:
\* whatever earlier polls missed is read again, whatever was read of a rewritten
\* transcript is forgotten, and what a transcript said of another child before
\* it was rewritten is kept (readChild, readJournal, subagentOf, treeOrder).
THEOREM PollsTellAll == Spec => PollTellsAll
<1> DEFINE Body == Poll => TellsAll(shown')
<1>1. Inv /\ Kept => Body
  BY PollTells
<1>2. [][Body]_vars <=> PollTellsAll
  BY DEF TellsAll, PollTellsAll
<1> HIDE DEF Body
<1> QED BY <1>1, <1>2, Always, AlwaysKept, PTL DEF Spec
=============================================================================
