------------------------ MODULE ClaudeSessionProofs ------------------------
(***************************************************************************)
(* What a Claude session is told to have used, and what it and its         *)
(* children are then said to cost, for any rows, models, times,            *)
(* compactions, failures of polls and price tables.                        *)
(***************************************************************************)
EXTENDS PricedSession, TokenUsageProofs

-----------------------------------------------------------------------------
(***************************************************************************)
(* Reading: a row is applied to what the rows before it gave.              *)
(***************************************************************************)
FoldStep(k, s, T, it) == IF T = {} THEN k ELSE Applied(it[T \ {Max(T)}], s[Max(T)])
Reading(it, k, s, S) == it = [T \in SUBSET S |-> FoldStep(k, s, T, it)]

LEMMA MaxIs ==
  ASSUME NEW n \in Nat, NEW T \in SUBSET (1 .. n), T # {}
  PROVE  Max(T) \in T /\ \A x \in T : x <= Max(T)
<1> DEFINE D == {n - x : x \in T}
<1>1. D \in SUBSET Nat /\ D # {}
  <2>1. \A x \in T : n - x \in Nat
    OBVIOUS
  <2>2. PICK x \in T : TRUE
    OBVIOUS
  <2>3. n - x \in D
    OBVIOUS
  <2> QED BY <2>1, <2>3
<1>2. PICK d \in D : \A e \in D : d <= e
  BY <1>1, LeastNumber
<1>3. PICK x \in T : d = n - x
  BY <1>2
<1>4. ASSUME NEW y \in T PROVE x >= y
  <2>1. n - y \in D
    OBVIOUS
  <2>2. n - x <= n - y
    BY <1>2, <1>3, <2>1
  <2>3. x \in Int /\ y \in Int
    OBVIOUS
  <2> QED BY <2>2, <2>3
<1>5. \E m \in T : \A y \in T : m >= y
  BY <1>4
<1> QED BY <1>5 DEF Max

LEMMA FoldsExist ==
  ASSUME NEW k, NEW s, NEW m \in Nat
  PROVE  \E it : Reading(it, k, s, 1 .. m)
<1> DEFINE S == 1 .. m
           n == Cardinality(S)
           U(c) == {T \in SUBSET S : Cardinality(T) <= c}
           G == {c \in 0 .. n : \E it : it = [T \in U(c) |-> FoldStep(k, s, T, it)]}
<1>1. n \in Nat /\ \A T \in SUBSET S : IsFiniteSet(T) /\ Cardinality(T) \in Nat /\ Cardinality(T) <= n
  <2>1. IsFiniteSet(S)
    BY FS_Interval
  <2> HIDE DEF S
  <2> QED BY <2>1, FS_Subset, FS_CardinalityType
<1>2. \A T \in SUBSET S : T # {} => Max(T) \in T /\ T \ {Max(T)} \in SUBSET S
                                     /\ Cardinality(T \ {Max(T)}) = Cardinality(T) - 1
  <2> SUFFICES ASSUME NEW T \in SUBSET S, T # {}
               PROVE Max(T) \in T /\ T \ {Max(T)} \in SUBSET S
                     /\ Cardinality(T \ {Max(T)}) = Cardinality(T) - 1
    OBVIOUS
  <2>1. Max(T) \in T
    BY MaxIs
  <2> HIDE DEF S
  <2> QED BY <1>1, <2>1, FS_RemoveElement
<1> HIDE DEF S
<1>3. \A T \in SUBSET S : Cardinality(T) = 0 => T = {}
  BY <1>1, FS_EmptySet
<1>4. 0 \in G
  <2> DEFINE it == [T \in U(0) |-> k]
  <2>1. \A T \in U(0) : T = {}
    BY <1>1, <1>3
  <2>2. it = [T \in U(0) |-> FoldStep(k, s, T, it)]
    BY <2>1 DEF FoldStep
  <2> HIDE DEF it
  <2>3. \E i : i = [T \in U(0) |-> FoldStep(k, s, T, i)]
    <3> HIDE DEF U
    <3> QED BY <2>2
  <2> HIDE DEF U
  <2>4. 0 \in 0 .. n
    BY <1>1
  <2> QED BY <2>3, <2>4
<1>5. ASSUME NEW c \in 0 .. n, c < n, c \in G PROVE c + 1 \in G
  <2>1. PICK old : old = [T \in U(c) |-> FoldStep(k, s, T, old)]
    BY <1>5
  <2> DEFINE it == [T \in U(c + 1) |-> FoldStep(k, s, T, old)]
  <2>2. ASSUME NEW T \in U(c + 1) PROVE it[T] = FoldStep(k, s, T, it)
    <3>1. T # {} => T \ {Max(T)} \in U(c) /\ T \ {Max(T)} \in U(c + 1)
      <4> SUFFICES ASSUME T # {}
                   PROVE T \ {Max(T)} \in U(c) /\ T \ {Max(T)} \in U(c + 1)
        OBVIOUS
      <4>1. Cardinality(T) \in Nat /\ Cardinality(T) <= c + 1 /\ c \in Nat
        BY <1>1
      <4>2. T \ {Max(T)} \in SUBSET S /\ Cardinality(T \ {Max(T)}) = Cardinality(T) - 1
        BY <1>2
      <4> DEFINE a == Cardinality(T)
                 b == Cardinality(T \ {Max(T)})
      <4>3. b <= c /\ b <= c + 1
        <5> HIDE DEF a, b
        <5>1. a \in Nat /\ a <= c + 1 /\ b = a - 1 /\ c \in Nat
          BY <4>1, <4>2 DEF a, b
        <5> QED BY <5>1
      <4> QED BY <4>2, <4>3
    <3>2. T # {} => it[T \ {Max(T)}] = old[T \ {Max(T)}]
      <4> SUFFICES ASSUME T # {} PROVE it[T \ {Max(T)}] = old[T \ {Max(T)}]
        OBVIOUS
      <4> DEFINE V == T \ {Max(T)}
      <4>1. V \in U(c) /\ V \in U(c + 1)
        BY <3>1
      <4> HIDE DEF V, U
      <4>2. it[V] = FoldStep(k, s, V, old) /\ old[V] = FoldStep(k, s, V, old)
        BY <2>1, <4>1
      <4> QED BY <4>2 DEF V
    <3> HIDE DEF U
    <3>3. it[T] = FoldStep(k, s, T, old)
      OBVIOUS
    <3> HIDE DEF it
    <3> QED BY <3>2, <3>3 DEF FoldStep
  <2>3. it = [T \in U(c + 1) |-> it[T]]
    OBVIOUS
  <2> HIDE DEF it, U
  <2>4. it = [T \in U(c + 1) |-> FoldStep(k, s, T, it)]
    BY <2>2, <2>3
  <2>5. c + 1 \in 0 .. n
    BY <1>1, <1>5
  <2> QED BY <2>4, <2>5
<1> HIDE DEF G
<1>6. n \in G
  <2> HIDE DEF n
  <2> QED BY <1>1, <1>4, <1>5, CountUp
<1>7. U(n) = SUBSET S
  BY <1>1
<1> HIDE DEF U, n
<1>8. \E it : it = [T \in SUBSET S |-> FoldStep(k, s, T, it)]
  BY <1>6, <1>7 DEF G
<1> QED BY <1>8 DEF Reading, S

Folded(k, s) == FoldLeft(Applied, k, s)

LEMMA FoldedIs ==
  ASSUME NEW k, NEW m \in Nat, NEW s, DOMAIN s = 1 .. m
  PROVE  \E it : Reading(it, k, s, 1 .. m) /\ Folded(k, s) = it[1 .. m]
<1> DEFINE iter[t \in SUBSET (1 .. m)] ==
             IF t = {} THEN k
             ELSE LET x == Max(t)
                  IN  Applied(iter[t \ {x}], s[x])
<1>1. Folded(k, s) = iter[1 .. m]
  BY DEF Folded, FoldLeft, MapThenFoldSet
<1>2. iter = CHOOSE it : Reading(it, k, s, 1 .. m)
  BY DEF Reading, FoldStep
<1> HIDE DEF iter
<1>3. Reading(iter, k, s, 1 .. m)
  BY <1>2, FoldsExist
<1> QED BY <1>1, <1>3

LEMMA FoldedEmpty ==
  ASSUME NEW k PROVE Folded(k, <<>>) = k
<1>1. DOMAIN <<>> = 1 .. 0 /\ 1 .. 0 = {}
  OBVIOUS
<1>2. PICK it : Reading(it, k, <<>>, 1 .. 0) /\ Folded(k, <<>>) = it[1 .. 0]
  BY <1>1, FoldedIs
<1>3. it[{}] = FoldStep(k, <<>>, {}, it)
  BY <1>1, <1>2 DEF Reading
<1> QED BY <1>1, <1>2, <1>3 DEF FoldStep

LEMMA FoldedAppend ==
  ASSUME NEW k, NEW S, NEW s \in Seq(S), NEW x \in S
  PROVE  Folded(k, Append(s, x)) = Applied(Folded(k, s), x)
<1> DEFINE m == Len(s)
           t == Append(s, x)
           R == 1 .. m
           V == 1 .. m + 1
<1>1. m \in Nat /\ m + 1 \in Nat /\ DOMAIN s = R /\ DOMAIN t = V
  OBVIOUS
<1>2. t[m + 1] = x /\ \A i \in R : t[i] = s[i]
  OBVIOUS
<1>3. m + 1 \in V /\ V # {} /\ V \ {m + 1} = R /\ R \in SUBSET V
  BY <1>1
<1>4. Max(V) = m + 1
  <2>1. Max(V) \in V /\ \A i \in V : i <= Max(V)
    <3> DEFINE n == m + 1
    <3>1. n \in Nat /\ V \in SUBSET (1 .. n)
      BY <1>1
    <3> HIDE DEF V, n
    <3> QED BY <1>3, <3>1, MaxIs
  <2> QED BY <1>1, <1>3, <2>1
<1> HIDE DEF m, t
<1>5. PICK a : Reading(a, k, t, V) /\ Folded(k, t) = a[V]
  BY <1>1, FoldedIs
<1>6. PICK b : Reading(b, k, s, R) /\ Folded(k, s) = b[R]
  BY <1>1, FoldedIs
<1>7. a[R] = b[R]
  <2> DEFINE G == {T \in SUBSET R : a[T] = b[T]}
  <2>1. ASSUME NEW T \in SUBSET R
        PROVE  /\ a[T] = FoldStep(k, t, T, a) /\ b[T] = FoldStep(k, s, T, b)
               /\ (T # {} => Max(T) \in T)
    BY <1>1, <1>3, <1>5, <1>6, MaxIs DEF Reading
  <2>2. {} \in G
    BY <2>1 DEF FoldStep
  <2>3. ASSUME NEW T \in SUBSET R, T # {}, \A y \in T : T \ {y} \in G PROVE T \in G
    BY <1>2, <2>1, <2>3 DEF FoldStep
  <2>4. IsFiniteSet(R)
    BY <1>1, FS_Interval
  <2> HIDE DEF G
  <2>5. \A T \in SUBSET R : T \in G
    <3> HIDE DEF R
    <3> QED BY <2>2, <2>3, <2>4, SubsetBySubset
  <2> QED BY <2>5 DEF G
<1>8. a[V] = FoldStep(k, t, V, a)
  <2> HIDE DEF V
  <2> QED BY <1>5 DEF Reading
<1>9. a[V] = Applied(a[R], x)
  BY <1>2, <1>3, <1>4, <1>8 DEF FoldStep
<1> QED BY <1>5, <1>6, <1>7, <1>9 DEF t

\* One record more.
LEMMA FoldedStep ==
  ASSUME NEW k, NEW S, NEW s \in Seq(S), NEW a \in Nat, NEW j \in Nat, a <= j, j < Len(s)
  PROVE  Folded(k, SubSeq(s, a + 1, j + 1)) = Applied(Folded(k, SubSeq(s, a + 1, j)), s[j + 1])
<1> DEFINE t == SubSeq(s, a + 1, j)
           x == s[j + 1]
<1>1. t \in Seq(S) /\ x \in S
  OBVIOUS
<1>2. SubSeq(s, a + 1, j + 1) = Append(t, x)
  OBVIOUS
<1> HIDE DEF t, x
<1>3. Folded(k, Append(t, x)) = Applied(Folded(k, t), x)
  BY <1>1, FoldedAppend
<1> DEFINE u == SubSeq(s, a + 1, j + 1)
<1>4. u = Append(t, x)
  BY <1>2
<1> HIDE DEF u
<1>5. Folded(k, u) = Applied(Folded(k, t), x)
  BY <1>3, <1>4
<1> QED BY <1>5 DEF t, x, u

LEMMA FoldedNone ==
  ASSUME NEW k, NEW S, NEW s \in Seq(S), NEW a \in Nat
  PROVE  Folded(k, SubSeq(s, a + 1, a)) = k
<1>1. SubSeq(s, a + 1, a) = <<>>
  OBVIOUS
<1> QED BY <1>1, FoldedEmpty

-----------------------------------------------------------------------------
(***************************************************************************)
(* The rows of a transcript and what they parse to.                        *)
(***************************************************************************)
\* A row as it is written: at some time, with a quota that ends some time later.
Line(row, t, n) ==
  [row EXCEPT !.ts = t,
              !.quota = IF row.quota = NoLimit \/ row.quota.resets = NoTime THEN row.quota
                        ELSE [row.quota EXCEPT !.resets = n + @]]

Lines == {Line(row, t, n) : row \in Rows, t \in Nat \cup {NoTime}, n \in Nat}
EventSet == {Parsed(line) : line \in Lines}

Priceable(u) == u \in Usage /\ u.in \in Nat /\ u.out \in Nat /\ u.in <= MaxPrompt

IsEvent(e) ==
  /\ e.model \in Models \cup {NoModel} /\ e.ts \in Nat /\ Len(e.tools) \in Nat
  /\ e.use # NoUse => Priceable(e.use)
  /\ e.quota # NoLimit => e.quota.resets \in Nat

LEMMA EventIs == \A e \in EventSet : IsEvent(e)
<1> SUFFICES ASSUME NEW row \in Rows, NEW t \in Nat \cup {NoTime}, NEW n \in Nat
             PROVE  IsEvent(Parsed(Line(row, t, n)))
  BY DEF EventSet, Lines
<1> DEFINE line == Line(row, t, n)
<1>1. IsRecord(row)
  BY RowsAssumption
<1>2. /\ line.ts = t /\ line.model = row.model /\ line.use = row.use
      /\ line.content = row.content /\ line.id = row.id
  BY <1>1 DEF IsRecord, Line
<1>9. line.quota # NoLimit => Time(line.quota.resets) \in Nat
  <2> DEFINE q == row.quota
             l == line.quota
  <2>1. l = IF q = NoLimit \/ q.resets = NoTime THEN q ELSE [q EXCEPT !.resets = n + @]
    BY <1>1 DEF IsRecord, Line
  <2>2. q \in {NoLimit} \cup [scope : STRING, resets : {NoTime} \cup Nat]
    BY <1>1 DEF IsRecord, RawQuota
  <2> HIDE DEF q, l
  <2>3. l # NoLimit => l.resets \in {NoTime} \cup Nat
    BY <2>1, <2>2
  <2>4. l # NoLimit => Time(l.resets) \in Nat
    BY <2>3 DEF Time
  <2> QED BY <2>4 DEF l
<1>3. row.use # NoUse => Priceable(UsageOf(row.use))
  <2> SUFFICES ASSUME row.use # NoUse PROVE Priceable(UsageOf(row.use))
    OBVIOUS
  <2> DEFINE u == row.use
             a == u.in + IF u.split = NoSplit THEN u.write ELSE u.split
             b == u.out
  <2>1. u \in [in : Nat, out : Nat, write : Nat, split : {NoSplit} \cup Nat]
    BY <1>1 DEF IsRecord, RawUsage
  <2>2. a \in Nat /\ b \in Nat /\ a \in Int /\ b \in Int
    BY <2>1
  <2>3. UsageOf(u) = Use(a, b)
    BY DEF UsageOf
  <2>4. UsageOf(u).in <= MaxPrompt
    BY PromptsAssumption
  <2> HIDE DEF u, a, b
  <2>6. UsageOf(u) \in Usage /\ UsageOf(u).in = a /\ UsageOf(u).out = b
    BY <2>2, <2>3 DEF Use, Usage
  <2>5. Priceable(UsageOf(u))
    BY <2>2, <2>4, <2>6 DEF Priceable
  <2> QED BY <2>5 DEF u
<1> HIDE DEF line
<1> DEFINE e == Parsed(line)
<1>10. e.quota # NoLimit => e.quota.resets \in Nat
  <2>1. e.quota = IF line.quota = NoLimit \/ line.quota.scope # "five_hour" THEN NoLimit
                  ELSE [at |-> Time(line.ts), resets |-> Time(line.quota.resets)]
    BY DEF Parsed
  <2> HIDE DEF e
  <2> QED BY <1>9, <2>1
<1>4. e.model = row.model /\ e.ts = Time(t)
      /\ e.use = IF row.use = NoUse THEN NoUse ELSE UsageOf(row.use)
  BY <1>2 DEF Parsed
<1>5. Len(e.tools) \in Nat
  <2>1. row.content \in Seq(RawContent)
    BY <1>1 DEF IsRecord
  <2>2. e.tools = SelectSeq(row.content, LAMBDA c : c.is = "tool_use")
    BY <1>2 DEF Parsed
  <2> HIDE DEF e
  <2>3. Len(SelectSeq(row.content, LAMBDA c : c.is = "tool_use")) \in Nat
    BY <2>1
  <2> QED BY <2>2, <2>3
<1>6. Time(t) \in Nat
  BY DEF Time
<1>7. row.model \in Models \cup {NoModel}
  BY <1>1 DEF IsRecord
<1> HIDE DEF e
<1>8. IsEvent(e)
  BY <1>3, <1>4, <1>5, <1>6, <1>7, <1>10 DEF IsEvent
<1> QED BY <1>8 DEF e, line

-----------------------------------------------------------------------------
(***************************************************************************)
(* The sums over messages: a message's old figure goes and its new one     *)
(* comes.                                                                  *)
(***************************************************************************)
LEMMA TotalPut ==
  ASSUME NEW f, NEW S, IsFiniteSet(S), \A y \in S : f[y] \in Usage,
         NEW g, NEW T, IsFiniteSet(T), \A y \in T : g[y] \in Usage,
         NEW x, S \ {x} = T \ {x}, \A y \in S \ {x} : g[y] = f[y],
         NEW out, out = IF x \in S THEN f[x] ELSE Zero,
         NEW in, in = IF x \in T THEN g[x] ELSE Zero
  PROVE  /\ Total(f, S) \in Usage /\ Total(g, T) \in Usage
         /\ Total(g, T) = Plus(Minus(Total(f, S), out), in)
<1> DEFINE R == S \ {x}
           r == Total(f, R)
           s == Total(f, S)
           t == Total(g, T)
<1>1. IsFiniteSet(R) /\ \A y \in R : f[y] \in Usage /\ g[y] = f[y]
  BY Removed
<1>2. r \in Usage /\ s \in Usage /\ t \in Usage
  <2> HIDE DEF R
  <2> QED BY <1>1, TotalType
<1>3. Total(g, R) = r
  <2> HIDE DEF R
  <2> QED BY <1>1, TotalSame
<1>4. R = T \ {x}
  OBVIOUS
<1>5. s = Plus(out, r)
  <2>1. CASE x \in S
    BY <2>1, TotalAny
  <2>2. CASE x \notin S
    <3>1. R = S
      BY <2>2
    <3>2. s = r
      BY <3>1
    <3> HIDE DEF s, r, R
    <3> QED BY <1>2, <2>2, <3>2, UsageIs
  <2> QED BY <2>1, <2>2
<1>6. t = Plus(in, r)
  <2>1. CASE x \in T
    <3>1. t = Plus(g[x], Total(g, T \ {x}))
      BY <2>1, TotalAny
    <3>2. Total(g, T \ {x}) = r
      BY <1>3, <1>4
    <3> HIDE DEF t, r, R
    <3> QED BY <2>1, <3>1, <3>2
  <2>2. CASE x \notin T
    <3>1. R = T
      BY <1>4, <2>2
    <3>2. t = r
      BY <1>3, <3>1
    <3> HIDE DEF t, r, R
    <3> QED BY <1>2, <2>2, <3>2, UsageIs
  <2> QED BY <2>1, <2>2
<1>7. out \in Usage /\ in \in Usage
  BY UsageIs
<1> HIDE DEF r, s, t, R
<1>8. t = Plus(Minus(s, out), in)
  BY <1>2, <1>5, <1>6, <1>7 DEF Plus, Minus, Use, Usage
<1> QED BY <1>2, <1>8 DEF s, t

\* What is known of each message: its usage, and the bucket it is filed in.
UsedIn(seen) == [m \in DOMAIN seen |-> seen[m].usage]
FiledIn(x) == <<x.model, PromptK(x.usage.in)>>
InBucket(seen, b) == {m \in DOMAIN seen : FiledIn(seen[m]) = b}

IsSeen(x) == Priceable(x.usage) /\ x.model \in Models \cup {NoModel}

\* The total and each bucket are sums over the messages.
AccOK(acc) ==
  /\ IsFiniteSet(DOMAIN acc.seen) /\ \A m \in DOMAIN acc.seen : IsSeen(acc.seen[m])
  /\ acc.usage = Total(UsedIn(acc.seen), DOMAIN acc.seen)
  /\ acc.ledger \in Ledger
  /\ \A b \in Bucket : acc.ledger[b] = Total(UsedIn(acc.seen), InBucket(acc.seen, b))

LEMMA NoUsageOK == AccOK(NoUsage)
<1> DEFINE f == UsedIn(NoUsage.seen)
<1>1. NoUsage.usage = Zero /\ NoUsage.ledger = NoLedger /\ DOMAIN NoUsage.seen = {}
  BY DEF NoUsage
<1>2. \A b \in Bucket : InBucket(NoUsage.seen, b) = {}
  BY <1>1 DEF InBucket
<1>3. Total(f, {}) = Zero
  <2> HIDE DEF f
  <2> QED BY TotalEmpty
<1>4. NoLedger \in Ledger /\ \A b \in Bucket : NoLedger[b] = Zero
  BY LedgerTotal DEF NoLedger
<1>5. IsFiniteSet({})
  BY FS_EmptySet
<1> QED BY <1>1, <1>2, <1>3, <1>4, <1>5 DEF AccOK

LEMMA FiledInBucket ==
  ASSUME NEW model \in Models \cup {NoModel}, NEW n \in Int, n <= MaxPrompt
  PROVE  <<model, PromptK(n)>> \in Bucket
<1>1. PromptK(n) \in Nat /\ PromptK(n) <= PromptK(MaxPrompt) /\ PromptK(MaxPrompt) \in Nat
  BY MaxPromptAssumption, PromptKGrows
<1> DEFINE a == PromptK(n)
           b == PromptK(MaxPrompt)
<1>2. a \in 0 .. b
  <2> HIDE DEF a, b
  <2>1. a \in Nat /\ b \in Nat /\ a <= b
    BY <1>1 DEF a, b
  <2> QED BY <2>1
<1> QED BY <1>2 DEF Bucket

\* usageAccounting.add keeps the sums.
LEMMA AddedOK ==
  ASSUME NEW acc, AccOK(acc), NEW id, NEW u, Priceable(u), NEW model \in Models \cup {NoModel},
         NEW ts,
         ~(id \in DOMAIN acc.seen /\ Minus(u, Earlier(acc, id).usage) = Zero)
  PROVE  AccOK(Added(acc, id, u, model, ts))
<1> DEFINE prev == Earlier(acc, id)
           d == Minus(u, prev.usage)
           S == DOMAIN acc.seen
           f == UsedIn(acc.seen)
           seen == Noted(acc.seen, id, u, model)
           T == S \cup {id}
           g == UsedIn(seen)
           k == Added(acc, id, u, model, ts)
<1>1. k.usage = Plus(acc.usage, d) /\ k.seen = seen /\ k.ledger = Refiled(acc.ledger, prev, u, model)
  BY DEF Added
<1>2. IsFiniteSet(S) /\ IsFiniteSet(T) /\ DOMAIN seen = T
  BY FS_AddElement DEF AccOK, Noted
<1>3. /\ seen[id] = [usage |-> u, model |-> model]
      /\ \A m \in S \ {id} : seen[m] = acc.seen[m]
  BY DEF Noted
<1>4. \A m \in T : IsSeen(seen[m])
  BY <1>3 DEF AccOK, IsSeen
<1>5. /\ \A m \in S : f[m] = acc.seen[m].usage /\ f[m] \in Usage
      /\ \A m \in T : g[m] = seen[m].usage /\ g[m] \in Usage
      /\ g[id] = u /\ \A m \in S \ {id} : g[m] = f[m]
  BY <1>2, <1>3, <1>4 DEF AccOK, IsSeen, Priceable, UsedIn
<1>6. /\ prev.usage = IF id \in S THEN f[id] ELSE Zero
      /\ prev.usage \in Usage /\ u \in Usage /\ prev.usage.in <= MaxPrompt
      /\ prev.model \in Models \cup {NoModel}
  <2>1. CASE id \in S
    <3>1. prev = acc.seen[id]
      BY <2>1 DEF Earlier
    <3>2. IsSeen(acc.seen[id]) /\ acc.seen[id].usage = f[id]
      BY <1>5, <2>1 DEF AccOK
    <3> HIDE DEF prev, f, S
    <3> QED BY <2>1, <3>1, <3>2 DEF IsSeen, Priceable
  <2>2. CASE id \notin S
    <3>1. prev = [usage |-> Zero, model |-> NoModel]
      BY <2>2 DEF Earlier
    <3>2. Zero.in = 0 /\ Zero \in Usage /\ MaxPrompt \in Nat
      BY MaxPromptAssumption, UsageIs DEF Zero
    <3> HIDE DEF prev, f, S
    <3> QED BY <2>2, <3>1, <3>2 DEF Priceable
  <2> QED BY <2>1, <2>2
<1>7. k.usage = Total(g, T)
  <2> DEFINE s == Total(f, S)
             t == Total(g, T)
             o == prev.usage
  <2>1. s \in Usage /\ t = Plus(Minus(s, o), u)
    <3> HIDE DEF f, g, prev, seen, S
    <3>1. S \ {id} = T \ {id} /\ id \in T
      OBVIOUS
    <3> HIDE DEF T
    <3> QED BY <1>2, <1>5, <1>6, <3>1, TotalPut
  <2>2. k.usage = Plus(s, Minus(u, o))
    BY <1>1 DEF AccOK
  <2>3. o \in Usage
    BY <1>6
  <2> HIDE DEF s, t, o, k
  <2>4. k.usage = t
    BY <1>6, <2>1, <2>2, <2>3 DEF Usage, Use, Plus, Minus
  <2> QED BY <2>4 DEF t
<1>8. k.ledger \in Ledger /\ \A b \in Bucket : k.ledger[b] = Total(g, InBucket(seen, b))
  <2> DEFINE was == <<prev.model, PromptK(prev.usage.in)>>
             is == <<model, PromptK(u.in)>>
             neg == Minus(Zero, prev.usage)
             half == Filed(acc.ledger, prev.model, prev.usage.in, neg)
             whole == Filed(half, model, u.in, u)
  <2>1. was \in Bucket /\ is \in Bucket
    <3>1. prev.usage.in \in Int /\ u.in \in Int /\ u.in <= MaxPrompt
      BY <1>6, UsageIs DEF Priceable
    <3> HIDE DEF prev
    <3> QED BY <1>6, <3>1, FiledInBucket
  <2>2. neg \in Usage
    BY <1>6, UsageIs
  <2>3. acc.ledger \in Ledger
    BY DEF AccOK
  <2>4. k.ledger = whole
    BY <1>1 DEF Refiled
  <2>5. /\ half \in Ledger
        /\ \A b \in Bucket : half[b] = IF b = was THEN Plus(acc.ledger[b], neg) ELSE acc.ledger[b]
    <3>1. half = [acc.ledger EXCEPT ![was] = Plus(@, neg)]
      BY DEF Filed
    <3>2. Plus(acc.ledger[was], neg) \in Usage
      BY <2>1, <2>2, <2>3, UsageIs DEF Ledger
    <3> HIDE DEF half, was, neg
    <3> QED BY <2>1, <2>3, <3>1, <3>2 DEF Ledger
  <2>6. /\ whole \in Ledger
        /\ \A b \in Bucket : whole[b] = IF b = is THEN Plus(half[b], u) ELSE half[b]
    <3>1. whole = [half EXCEPT ![is] = Plus(@, u)]
      BY DEF Filed
    <3>2. Plus(half[is], u) \in Usage
      BY <1>6, <2>1, <2>5, UsageIs DEF Ledger
    <3> HIDE DEF half, whole, is
    <3> QED BY <2>1, <2>5, <3>1, <3>2 DEF Ledger
  <2>7. ASSUME NEW b \in Bucket PROVE whole[b] = Total(g, InBucket(seen, b))
    <3> DEFINE A == InBucket(acc.seen, b)
               B == InBucket(seen, b)
               out == IF id \in A THEN f[id] ELSE Zero
               in == IF id \in B THEN g[id] ELSE Zero
               s == Total(f, A)
               t == Total(g, B)
    <3>1. A \subseteq S /\ B \subseteq T /\ A \ {id} = B \ {id}
      BY <1>2, <1>3 DEF InBucket, FiledIn
    <3>2. IsFiniteSet(A) /\ IsFiniteSet(B)
      BY <1>2, <3>1, FS_Subset
    <3>3. s \in Usage /\ t = Plus(Minus(s, out), in)
      <4>1. /\ \A y \in A : f[y] \in Usage
            /\ \A y \in B : g[y] \in Usage
            /\ \A y \in A \ {id} : g[y] = f[y]
        BY <1>5, <3>1
      <4> HIDE DEF A, B, f, g
      <4> QED BY <3>1, <3>2, <4>1, TotalPut
    <3>4. acc.ledger[b] = s
      BY DEF AccOK
    <3>5. id \in S => (id \in A <=> b = was)
      BY DEF InBucket, FiledIn, Earlier
    <3>6. id \in B <=> b = is
      BY <1>2, <1>3 DEF InBucket, FiledIn
    <3>7. out = IF b = was /\ id \in S THEN prev.usage ELSE Zero
      BY <1>6, <3>1, <3>5
    <3>8. in = IF b = is THEN u ELSE Zero
      BY <1>5, <3>6
    <3>9. id \notin S => prev.usage = Zero
      BY <1>6
    <3>10. half[b] = IF b = was THEN Plus(s, neg) ELSE s
      BY <2>5, <3>4
    <3> DEFINE o == prev.usage
               w == whole[b]
               h == half[b]
    <3>11. /\ h = IF b = was THEN Plus(s, Minus(Zero, o)) ELSE s
           /\ w = IF b = is THEN Plus(h, u) ELSE h
           /\ out = IF b = was THEN o ELSE Zero
           /\ o \in Usage
      BY <1>6, <2>6, <3>7, <3>9, <3>10
    <3> HIDE DEF w, h, s, t, out, in, o, was, is
    <3>12. w = t
      BY <1>6, <3>3, <3>8, <3>11 DEF Usage, Use, Plus, Minus, Zero
    <3> QED BY <3>12 DEF w, t
  <2> HIDE DEF whole, seen, g, k
  <2> QED BY <2>4, <2>6, <2>7
<1> HIDE DEF k
<1>9. AccOK(k)
  BY <1>1, <1>2, <1>4, <1>7, <1>8 DEF AccOK
<1> QED BY <1>9 DEF k

-----------------------------------------------------------------------------
(***************************************************************************)
(* What was heard, row by row: the events h, from the model b on.          *)
(***************************************************************************)
LEMMA LatestIs ==
  ASSUME NEW m \in Nat, NEW S \in SUBSET (1 .. m), S # {}
  PROVE  /\ Latest(S) \in S /\ \A j \in S : j <= Latest(S)
         /\ \A i \in S : (\A j \in S : j <= i) => Latest(S) = i
<1>1. \E i \in S : \A j \in S : j <= i
  BY MaxIs
<1>2. Latest(S) \in S /\ \A j \in S : j <= Latest(S)
  BY <1>1 DEF Latest
<1>3. ASSUME NEW i \in S, \A j \in S : j <= i PROVE Latest(S) = i
  <2> DEFINE l == Latest(S)
  <2>1. l \in S /\ i <= l /\ l <= i
    BY <1>2, <1>3
  <2> HIDE DEF l
  <2>2. l \in Int /\ i \in Int
    BY <2>1
  <2>3. l = i
    BY <2>1, <2>2
  <2> QED BY <2>3 DEF l
<1> QED BY <1>2, <1>3

RowsIn(h, m) == {i \in DOMAIN h : h[i].use # NoUse /\ h[i].id = m}
ToldIn(h) == {h[i].id : i \in {j \in DOMAIN h : h[j].use # NoUse}}
NamedIn(h, i) == {j \in 1 .. i : h[j].model # NoModel}
ModelIn(h, b, i) == IF NamedIn(h, i) = {} THEN b ELSE h[Latest(NamedIn(h, i))].model

Decides(h, m, i) ==
  /\ i \in RowsIn(h, m)
  /\ \A j \in RowsIn(h, m) : j >= i => h[j].use = h[i].use
  /\ \A j \in RowsIn(h, m) : j < i =>
       \E k \in RowsIn(h, m) : j <= k /\ k < i /\ h[k].use # h[i].use

\* g has one event more than h, which has m.
Longer(h, g, m) ==
  /\ m \in Nat /\ DOMAIN h = 1 .. m /\ DOMAIN g = 1 .. m + 1
  /\ \A i \in 1 .. m : g[i] = h[i]

LEMMA ModelStep ==
  ASSUME NEW h, NEW g, NEW m, Longer(h, g, m), NEW b
  PROVE  /\ \A i \in 1 .. m : ModelIn(g, b, i) = ModelIn(h, b, i)
         /\ ModelIn(g, b, m + 1) = IF g[m + 1].model = NoModel THEN ModelIn(h, b, m)
                                   ELSE g[m + 1].model
<1>1. m \in Nat /\ \A i \in 1 .. m : g[i] = h[i]
  BY DEF Longer
<1>2. ASSUME NEW i \in 0 .. m
      PROVE  NamedIn(g, i) = NamedIn(h, i) /\ NamedIn(g, i) \in SUBSET (1 .. i)
             /\ ModelIn(g, b, i) = ModelIn(h, b, i)
  <2>1. \A j \in 1 .. i : j \in 1 .. m
    BY <1>1
  <2>2. NamedIn(g, i) = NamedIn(h, i) /\ NamedIn(g, i) \in SUBSET (1 .. i)
    BY <1>1, <2>1 DEF NamedIn
  <2>3. NamedIn(g, i) # {} => Latest(NamedIn(g, i)) \in 1 .. i
    <3> DEFINE N == NamedIn(g, i)
    <3>1. i \in Nat /\ N \in SUBSET (1 .. i)
      BY <1>1, <2>2
    <3> HIDE DEF N
    <3>2. N # {} => Latest(N) \in N
      BY <3>1, LatestIs
    <3>3. N # {} => Latest(N) \in 1 .. i
      BY <3>1, <3>2
    <3> QED BY <3>3 DEF N
  <2> QED BY <1>1, <2>1, <2>2, <2>3 DEF ModelIn
<1> DEFINE N == NamedIn(g, m + 1)
           M == NamedIn(g, m)
<1>3. M = NamedIn(h, m) /\ M \in SUBSET (1 .. m) /\ ModelIn(g, b, m) = ModelIn(h, b, m)
  BY <1>1, <1>2
<1>4. N = IF g[m + 1].model = NoModel THEN M ELSE M \cup {m + 1}
  BY <1>1 DEF NamedIn
<1>5. CASE g[m + 1].model = NoModel
  <2>1. N = M
    BY <1>4, <1>5
  <2>2. ModelIn(g, b, m + 1) = ModelIn(g, b, m)
    BY <2>1 DEF ModelIn
  <2> QED BY <1>2, <1>3, <1>5, <2>2
<1>6. CASE g[m + 1].model # NoModel
  <2>1. N = M \cup {m + 1}
    BY <1>4, <1>6
  <2>2. N \in SUBSET (1 .. m + 1) /\ N # {} /\ m + 1 \in N /\ \A j \in N : j <= m + 1
    BY <1>1, <1>3, <2>1
  <2>3. Latest(N) = m + 1
    <3> DEFINE k == m + 1
    <3>1. k \in Nat
      BY <1>1
    <3> HIDE DEF k, N
    <3>2. Latest(N) = k
      BY <2>2, <3>1, LatestIs DEF k
    <3> QED BY <3>2 DEF k
  <2>4. ModelIn(g, b, m + 1) = g[m + 1].model
    BY <2>2, <2>3 DEF ModelIn
  <2> QED BY <1>2, <1>6, <2>4
<1> QED BY <1>5, <1>6

LEMMA DecidesOnce ==
  ASSUME NEW h, NEW n \in Nat, DOMAIN h = 1 .. n, NEW m, NEW i, Decides(h, m, i)
  PROVE  /\ \A j : Decides(h, m, j) => j = i
         /\ RowsIn(h, m) \in SUBSET (1 .. n) /\ i \in RowsIn(h, m)
         /\ h[Latest(RowsIn(h, m))].use = h[i].use
<1> DEFINE R == RowsIn(h, m)
<1>1. R \in SUBSET (1 .. n) /\ i \in R
  BY DEF Decides, RowsIn
<1>2. ASSUME NEW j, Decides(h, m, j) PROVE j = i
  <2>1. j \in R /\ j \in Int /\ i \in Int
    BY <1>1, <1>2 DEF Decides
  <2>2. ~ j < i
    BY <1>1, <1>2, <2>1 DEF Decides
  <2>3. ~ i < j
    BY <1>1, <1>2, <2>1 DEF Decides
  <2> QED BY <2>1, <2>2, <2>3
<1>3. Latest(R) \in R /\ Latest(R) >= i
  <2> HIDE DEF R
  <2>1. Latest(R) \in R /\ i <= Latest(R)
    BY <1>1, LatestIs
  <2> DEFINE l == Latest(R)
  <2>2. l \in R /\ i <= l
    BY <2>1
  <2> HIDE DEF l
  <2>3. l \in Int /\ i \in Int
    BY <1>1, <2>2
  <2>4. l >= i
    BY <2>2, <2>3
  <2> QED BY <2>1, <2>4 DEF l
<1> QED BY <1>1, <1>2, <1>3 DEF Decides

LEMMA RowsStep ==
  ASSUME NEW h, NEW g, NEW m, Longer(h, g, m)
  PROVE  /\ \A x : RowsIn(g, x) = IF g[m + 1].use # NoUse /\ g[m + 1].id = x
                                  THEN RowsIn(h, x) \cup {m + 1} ELSE RowsIn(h, x)
         /\ \A x : RowsIn(h, x) \in SUBSET (1 .. m)
         /\ ToldIn(g) = IF g[m + 1].use # NoUse THEN ToldIn(h) \cup {g[m + 1].id} ELSE ToldIn(h)
         /\ \A x : x \in ToldIn(h) <=> RowsIn(h, x) # {}
<1>1. m \in Nat /\ DOMAIN h = 1 .. m /\ DOMAIN g = 1 .. m + 1 /\ \A i \in 1 .. m : g[i] = h[i]
  BY DEF Longer
<1>2. 1 .. m + 1 = (1 .. m) \cup {m + 1} /\ m + 1 \notin 1 .. m
  BY <1>1
<1>3. ASSUME NEW x
      PROVE  RowsIn(g, x) = IF g[m + 1].use # NoUse /\ g[m + 1].id = x
                            THEN RowsIn(h, x) \cup {m + 1} ELSE RowsIn(h, x)
  BY <1>1, <1>2 DEF RowsIn
<1>4. \A x : RowsIn(h, x) \in SUBSET (1 .. m)
  BY <1>1 DEF RowsIn
<1>5. ASSUME NEW x PROVE x \in ToldIn(h) <=> RowsIn(h, x) # {}
  BY DEF RowsIn, ToldIn
<1>6. ASSUME NEW x PROVE x \in ToldIn(g) <=> RowsIn(g, x) # {}
  BY DEF RowsIn, ToldIn
<1>7. \A x : x \in ToldIn(g) <=>
        x \in (IF g[m + 1].use # NoUse THEN ToldIn(h) \cup {g[m + 1].id} ELSE ToldIn(h))
  BY <1>3, <1>5, <1>6
<1> QED BY <1>3, <1>4, <1>5, <1>7

\* What is noted of each message is what its deciding row said.
SeenOK(h, b, seen) ==
  /\ DOMAIN seen = ToldIn(h)
  /\ \A x \in DOMAIN seen : \E i : /\ Decides(h, x, i)
                                   /\ seen[x] = [usage |-> h[i].use, model |-> ModelIn(h, b, i)]

\* A row decides for as long as nothing else is said of its message.
LEMMA DecidesStill ==
  ASSUME NEW h, NEW g, NEW m, Longer(h, g, m), NEW b, NEW x, NEW i, Decides(h, x, i),
         RowsIn(g, x) = RowsIn(h, x) \/
           (RowsIn(g, x) = RowsIn(h, x) \cup {m + 1} /\ g[m + 1].use = h[i].use)
  PROVE  Decides(g, x, i) /\ g[i].use = h[i].use /\ ModelIn(g, b, i) = ModelIn(h, b, i)
<1> DEFINE R == RowsIn(h, x)
           Q == RowsIn(g, x)
<1>1. m \in Nat /\ \A j \in 1 .. m : g[j] = h[j]
  BY DEF Longer
<1>2. R \in SUBSET (1 .. m) /\ i \in R
  BY RowsStep DEF Decides
<1>3. g[i].use = h[i].use /\ \A j \in R : g[j].use = h[j].use
  BY <1>1, <1>2
<1>4. i \in Q /\ \A j \in Q : j \in R \/ (j = m + 1 /\ g[m + 1].use = h[i].use)
  BY <1>2
<1>5. \A j \in Q : j >= i => g[j].use = g[i].use
  BY <1>3, <1>4 DEF Decides
<1>6. \A j \in Q : j < i => \E k \in Q : j <= k /\ k < i /\ g[k].use # g[i].use
  <2> SUFFICES ASSUME NEW j \in Q, j < i
               PROVE  \E k \in Q : j <= k /\ k < i /\ g[k].use # g[i].use
    OBVIOUS
  <2>1. j \in R
    BY <1>1, <1>2, <1>4
  <2>2. PICK k \in R : j <= k /\ k < i /\ h[k].use # h[i].use
    BY <2>1 DEF Decides
  <2>3. k \in Q
    OBVIOUS
  <2> QED BY <1>3, <2>2, <2>3
<1>7. ModelIn(g, b, i) = ModelIn(h, b, i)
  BY <1>2, ModelStep
<1> QED BY <1>3, <1>4, <1>5, <1>6, <1>7 DEF Decides

\* usageAccounting.add notes a new figure with the model of its own row.
LEMMA SeenStep ==
  ASSUME NEW h, NEW g, NEW m, Longer(h, g, m), NEW b, NEW seen, SeenOK(h, b, seen),
         NEW next,
         \/ g[m + 1].use = NoUse /\ next = seen
         \/ /\ g[m + 1].use # NoUse /\ g[m + 1].id \in DOMAIN seen
            /\ g[m + 1].use = seen[g[m + 1].id].usage /\ next = seen
         \/ /\ g[m + 1].use # NoUse
            /\ g[m + 1].id \in DOMAIN seen => g[m + 1].use # seen[g[m + 1].id].usage
            /\ next = Noted(seen, g[m + 1].id, g[m + 1].use, ModelIn(g, b, m + 1))
  PROVE  SeenOK(g, b, next)
<1> DEFINE e == g[m + 1]
           Noticed(x, i, f, s) == /\ Decides(f, x, i)
                                /\ s[x] = [usage |-> f[i].use, model |-> ModelIn(f, b, i)]
<1>1. DOMAIN seen = ToldIn(h) /\ \A x \in DOMAIN seen : \E i : Noticed(x, i, h, seen)
  BY DEF SeenOK
<1>2. m \in Nat
  BY DEF Longer
<1>3. /\ \A x : RowsIn(g, x) = IF e.use # NoUse /\ e.id = x
                               THEN RowsIn(h, x) \cup {m + 1} ELSE RowsIn(h, x)
      /\ \A x : RowsIn(h, x) \in SUBSET (1 .. m)
      /\ ToldIn(g) = IF e.use # NoUse THEN ToldIn(h) \cup {e.id} ELSE ToldIn(h)
      /\ \A x : x \in ToldIn(h) <=> RowsIn(h, x) # {}
  BY RowsStep
<1>4. ASSUME NEW x \in DOMAIN seen, e.use # NoUse /\ e.id = x => e.use = seen[x].usage
      PROVE  \E i : Noticed(x, i, g, seen)
  <2>1. PICK i : Noticed(x, i, h, seen)
    BY <1>1
  <2>2. RowsIn(g, x) = RowsIn(h, x)
        \/ (RowsIn(g, x) = RowsIn(h, x) \cup {m + 1} /\ g[m + 1].use = h[i].use)
    <3>1. seen[x].usage = h[i].use
      BY <2>1
    <3> QED BY <1>3, <1>4, <3>1
  <2>3. Decides(h, x, i)
    BY <2>1
  <2>4. Decides(g, x, i) /\ g[i].use = h[i].use /\ ModelIn(g, b, i) = ModelIn(h, b, i)
    BY <2>2, <2>3, DecidesStill
  <2>5. Noticed(x, i, g, seen)
    BY <2>1, <2>4
  <2> HIDE DEF Noticed
  <2> QED BY <2>5
<1>5. CASE e.use = NoUse \/ (e.id \in DOMAIN seen /\ e.use = seen[e.id].usage)
  <2>1. ToldIn(g) = DOMAIN seen
    BY <1>1, <1>3, <1>5
  <2>2. next = seen
    BY <1>5
  <2>3. \A x \in DOMAIN seen : \E i : Noticed(x, i, g, seen)
    <3> HIDE DEF Noticed
    <3> QED BY <1>4, <1>5
  <2> QED BY <2>1, <2>2, <2>3 DEF SeenOK
<1>6. CASE ~(e.use = NoUse \/ (e.id \in DOMAIN seen /\ e.use = seen[e.id].usage))
  <2>1. next = Noted(seen, e.id, e.use, ModelIn(g, b, m + 1))
    BY <1>6
  <2>2. DOMAIN next = DOMAIN seen \cup {e.id}
    BY <2>1 DEF Noted
  <2>3. DOMAIN next = ToldIn(g)
    BY <1>1, <1>3, <1>6, <2>2
  <2>4. ASSUME NEW x \in DOMAIN seen, x # e.id PROVE \E i : Noticed(x, i, g, next)
    <3>1. PICK i : Noticed(x, i, g, seen)
      <4> HIDE DEF Noticed
      <4> QED BY <1>4, <2>4
    <3>2. next[x] = seen[x]
      BY <2>1, <2>4 DEF Noted
    <3>3. Noticed(x, i, g, next)
      BY <3>1, <3>2
    <3> HIDE DEF Noticed
    <3> QED BY <3>3
  <2>5. Noticed(e.id, m + 1, g, next)
    <3> DEFINE x == e.id
               R == RowsIn(h, x)
               Q == RowsIn(g, x)
    <3>1. Q = R \cup {m + 1} /\ R \in SUBSET (1 .. m)
      BY <1>3, <1>6
    <3>2. \A j \in 1 .. m : g[j] = h[j]
      BY DEF Longer
    <3>3. ASSUME NEW j \in Q, j >= m + 1 PROVE g[j].use = g[m + 1].use
      <4>1. j = m + 1
        BY <1>2, <3>1, <3>3
      <4> QED BY <4>1
    <3>4. ASSUME NEW j \in Q, j < m + 1
          PROVE  \E k \in Q : j <= k /\ k < m + 1 /\ g[k].use # g[m + 1].use
      <4>1. j \in R /\ R # {}
        BY <1>2, <3>1, <3>4
      <4>2. x \in DOMAIN seen
        BY <1>1, <1>3, <4>1
      <4>3. PICK i : Noticed(x, i, h, seen)
        <5> HIDE DEF Noticed, x
        <5> QED BY <1>1, <4>2
      <4>4. i \in R /\ seen[x].usage = h[i].use /\ h[i].use # g[m + 1].use
            /\ \A k \in R : k >= i => h[k].use = h[i].use
        BY <1>6, <4>2, <4>3 DEF Decides
      <4>5. CASE j <= i
        <5>1. i \in Q /\ i < m + 1 /\ g[i].use # g[m + 1].use
          BY <1>2, <3>1, <3>2, <4>4
        <5> QED BY <4>5, <5>1
      <4>6. CASE ~ j <= i
        <5>1. j \in Int /\ i \in Int /\ j >= i
          BY <3>1, <4>1, <4>4, <4>6
        <5>2. h[j].use # g[m + 1].use
          BY <4>1, <4>4, <5>1
        <5>3. g[j].use # g[m + 1].use /\ j <= j
          BY <3>1, <3>2, <4>1, <5>1, <5>2
        <5> QED BY <3>4, <5>3
      <4> QED BY <4>5, <4>6
    <3>5. m + 1 \in Q
      BY <3>1
    <3>6. Decides(g, x, m + 1)
      BY <3>3, <3>4, <3>5 DEF Decides
    <3>7. next[x] = [usage |-> g[m + 1].use, model |-> ModelIn(g, b, m + 1)]
      BY <2>1 DEF Noted
    <3> QED BY <3>6, <3>7
  <2>6. \A x \in DOMAIN next : \E i : Noticed(x, i, g, next)
    <3> HIDE DEF Noticed
    <3> QED BY <2>2, <2>4, <2>5
  <2> QED BY <2>3, <2>6 DEF SeenOK
<1> QED BY <1>5, <1>6

-----------------------------------------------------------------------------
(***************************************************************************)
(* The window: what each row added, by the time it told.                   *)
(***************************************************************************)
Prior(h, i) == {j \in RowsIn(h, h[i].id) : j < i}
AddedIn(h) ==
  [i \in DOMAIN h |->
     IF h[i].use = NoUse THEN Zero
     ELSE IF Prior(h, i) = {} THEN h[i].use
     ELSE Minus(h[i].use, h[Latest(Prior(h, i))].use)]

\* The rows told of after second c, a time that is not known aside.
After(h, c) == {i \in DOMAIN h : h[i].ts > c /\ h[i].ts > 0}
KeptAfter(at, c) == {s \in DOMAIN at : s > c}

WindowOK(h, w) ==
  /\ w.latest \in Nat /\ (~w.known => w.latest = 0)
  /\ w.latest = 0 \/ \E i \in DOMAIN h : w.latest = h[i].ts
  /\ DOMAIN w.at \subseteq (w.latest - Span) .. w.latest
  /\ \A s \in DOMAIN w.at : w.at[s] \in Usage
  /\ \A c \in Int : c >= w.latest - Span - 1
                    => Total(w.at, KeptAfter(w.at, c)) = Total(AddedIn(h), After(h, c))

IsHeard(h, m) == m \in Nat /\ DOMAIN h = 1 .. m /\ \A i \in 1 .. m : IsEvent(h[i])

LEMMA AddedType ==
  ASSUME NEW h, NEW m, IsHeard(h, m)
  PROVE  \A i \in 1 .. m : AddedIn(h)[i] \in Usage
<1> SUFFICES ASSUME NEW i \in 1 .. m PROVE AddedIn(h)[i] \in Usage
  OBVIOUS
<1> DEFINE P == Prior(h, i)
<1>1. m \in Nat /\ DOMAIN h = 1 .. m /\ \A j \in 1 .. m : h[j].use # NoUse => h[j].use \in Usage
  BY DEF IsHeard, IsEvent, Priceable
<1>2. P \in SUBSET (1 .. m) /\ \A j \in P : h[j].use # NoUse
  BY <1>1 DEF Prior, RowsIn
<1>3. P # {} => h[Latest(P)].use \in Usage
  <2> HIDE DEF P
  <2>1. P # {} => Latest(P) \in P
    BY <1>1, <1>2, LatestIs
  <2> QED BY <1>1, <1>2, <2>1
<1>4. AddedIn(h)[i] = IF h[i].use = NoUse THEN Zero
                      ELSE IF P = {} THEN h[i].use ELSE Minus(h[i].use, h[Latest(P)].use)
  BY <1>1 DEF AddedIn
<1> DEFINE u == h[i].use
           v == h[Latest(P)].use
<1>5. (u # NoUse => u \in Usage) /\ (P # {} => v \in Usage)
  BY <1>1, <1>3
<1>6. AddedIn(h)[i] = IF u = NoUse THEN Zero ELSE IF P = {} THEN u ELSE Minus(u, v)
  BY <1>4
<1> HIDE DEF P, u, v
<1> QED BY <1>5, <1>6, UsageIs

\* A row more changes nothing of what the rows before it added.
LEMMA AddedInStep ==
  ASSUME NEW h, NEW g, NEW m, Longer(h, g, m)
  PROVE  /\ \A i \in 1 .. m : AddedIn(g)[i] = AddedIn(h)[i]
         /\ AddedIn(g)[m + 1] =
              IF g[m + 1].use = NoUse THEN Zero
              ELSE IF RowsIn(h, g[m + 1].id) = {} THEN g[m + 1].use
              ELSE Minus(g[m + 1].use, h[Latest(RowsIn(h, g[m + 1].id))].use)
<1>1. /\ m \in Nat /\ DOMAIN h = 1 .. m /\ DOMAIN g = 1 .. m + 1
      /\ \A i \in 1 .. m : g[i] = h[i]
  BY DEF Longer
<1>2. /\ \A x : RowsIn(g, x) = IF g[m + 1].use # NoUse /\ g[m + 1].id = x
                               THEN RowsIn(h, x) \cup {m + 1} ELSE RowsIn(h, x)
      /\ \A x : RowsIn(h, x) \in SUBSET (1 .. m)
  BY RowsStep
<1>3. ASSUME NEW i \in 1 .. m PROVE AddedIn(g)[i] = AddedIn(h)[i]
  <2> DEFINE P == Prior(h, i)
             Q == Prior(g, i)
  <2>1. Q = P /\ P \in SUBSET (1 .. m)
    <3>1. RowsIn(h, h[i].id) \in SUBSET (1 .. m) /\ g[i] = h[i]
      BY <1>1, <1>2
    <3>2. \A j \in RowsIn(g, h[i].id) : j < i => j \in RowsIn(h, h[i].id)
      BY <1>1, <1>2
    <3>3. RowsIn(h, h[i].id) \subseteq RowsIn(g, h[i].id)
      BY <1>2
    <3> QED BY <3>1, <3>2, <3>3 DEF Prior
  <2>2. P # {} => g[Latest(P)] = h[Latest(P)]
    <3> HIDE DEF P, Q
    <3>1. P # {} => Latest(P) \in P
      BY <1>1, <2>1, LatestIs
    <3> QED BY <1>1, <2>1, <3>1
  <2>3. g[i] = h[i] /\ i \in DOMAIN g /\ i \in DOMAIN h
    BY <1>1
  <2>4. AddedIn(g)[i] = IF h[i].use = NoUse THEN Zero
                        ELSE IF P = {} THEN h[i].use ELSE Minus(h[i].use, g[Latest(P)].use)
    BY <2>1, <2>3 DEF AddedIn
  <2>5. AddedIn(h)[i] = IF h[i].use = NoUse THEN Zero
                        ELSE IF P = {} THEN h[i].use ELSE Minus(h[i].use, h[Latest(P)].use)
    BY <2>3 DEF AddedIn
  <2> HIDE DEF P
  <2> QED BY <2>2, <2>4, <2>5
<1>4. AddedIn(g)[m + 1] =
        IF g[m + 1].use = NoUse THEN Zero
        ELSE IF RowsIn(h, g[m + 1].id) = {} THEN g[m + 1].use
        ELSE Minus(g[m + 1].use, h[Latest(RowsIn(h, g[m + 1].id))].use)
  <2> DEFINE R == RowsIn(h, g[m + 1].id)
             Q == Prior(g, m + 1)
  <2>1. R \in SUBSET (1 .. m)
    BY <1>2
  <2>2. g[m + 1].use # NoUse => Q = R
    <3>1. g[m + 1].use # NoUse => RowsIn(g, g[m + 1].id) = R \cup {m + 1}
      BY <1>2
    <3>2. \A j \in R : j < m + 1
      BY <1>1, <2>1
    <3> QED BY <1>1, <3>1, <3>2 DEF Prior
  <2>3. R # {} => g[Latest(R)] = h[Latest(R)]
    <3> HIDE DEF R
    <3>1. R # {} => Latest(R) \in R
      BY <1>1, <2>1, LatestIs
    <3> QED BY <1>1, <2>1, <3>1
  <2>4. m + 1 \in DOMAIN g
    BY <1>1
  <2>5. AddedIn(g)[m + 1] = IF g[m + 1].use = NoUse THEN Zero
                            ELSE IF Q = {} THEN g[m + 1].use
                            ELSE Minus(g[m + 1].use, g[Latest(Q)].use)
    BY <2>4 DEF AddedIn
  <2> HIDE DEF R, Q
  <2> QED BY <2>2, <2>3, <2>5 DEF R
<1> QED BY <1>3, <1>4

LEMMA IntervalFinite ==
  ASSUME NEW a \in Int, NEW b \in Int, NEW S \in SUBSET (a .. b) PROVE IsFiniteSet(S)
BY FS_Interval, FS_Subset

\* The sum over the rows told of after c, with a row more.
LEMMA AfterStep ==
  ASSUME NEW h, NEW g, NEW m, Longer(h, g, m), IsHeard(g, m + 1), NEW c \in Int
  PROVE  /\ Total(AddedIn(h), After(h, c)) \in Usage
         /\ Total(AddedIn(g), After(g, c)) =
              Plus(Total(AddedIn(h), After(h, c)),
                   IF g[m + 1].ts > c /\ g[m + 1].ts > 0 THEN AddedIn(g)[m + 1] ELSE Zero)
<1> DEFINE f == AddedIn(h)
           k == AddedIn(g)
           S == After(h, c)
           T == After(g, c)
           x == m + 1
           in == IF x \in T THEN k[x] ELSE Zero
           late == g[m + 1].ts > c /\ g[m + 1].ts > 0
<1>1. /\ m \in Nat /\ DOMAIN h = 1 .. m /\ DOMAIN g = 1 .. x
      /\ \A i \in 1 .. m : g[i] = h[i]
  BY DEF Longer
<1>2. \A i \in 1 .. m : k[i] = f[i]
  BY AddedInStep
<1>3. \A i \in 1 .. x : k[i] \in Usage
  <2> DEFINE n == m + 1
  <2> HIDE DEF n
  <2>1. IsHeard(g, n)
    BY DEF n
  <2>2. \A i \in 1 .. n : k[i] \in Usage
    BY <2>1, AddedType
  <2> QED BY <2>2 DEF n
<1>4. S \in SUBSET (1 .. m) /\ T \in SUBSET (1 .. x) /\ x \notin S /\ S \ {x} = T \ {x}
  BY <1>1 DEF After
<1>5. IsFiniteSet(S) /\ IsFiniteSet(T)
  <2> HIDE DEF S, T
  <2>1. x \in Int /\ 1 \in Int /\ m \in Int
    BY <1>1
  <2> HIDE DEF x
  <2> QED BY <1>4, <2>1, IntervalFinite
<1>6. x \in T <=> late
  BY <1>1 DEF After
<1>7. /\ \A y \in S : f[y] \in Usage
      /\ \A y \in T : k[y] \in Usage
      /\ \A y \in S \ {x} : k[y] = f[y]
  <2> HIDE DEF S, T, f, k
  <2>1. \A i \in 1 .. m : i \in 1 .. x
    BY <1>1
  <2> QED BY <1>2, <1>3, <1>4, <2>1
<1>8. Total(f, S) \in Usage /\ Total(k, T) = Plus(Minus(Total(f, S), Zero), in)
  <2> DEFINE out == IF x \in S THEN f[x] ELSE Zero
  <2>1. out = Zero
    BY <1>4
  <2>2. Total(f, S) \in Usage /\ Total(k, T) = Plus(Minus(Total(f, S), out), in)
    <3>1. /\ S \ {x} = T \ {x}
          /\ out = IF x \in S THEN f[x] ELSE Zero
          /\ in = IF x \in T THEN k[x] ELSE Zero
      <4>1. S \ {x} = T \ {x}
        BY <1>4
      <4> QED BY <4>1
    <3> HIDE DEF f, k, S, T, x, out, in
    <3> QED BY <1>5, <1>7, <3>1, TotalPut
  <2> HIDE DEF out, f, k, S, T
  <2> QED BY <2>1, <2>2
<1> DEFINE s == Total(f, S)
<1>9. Minus(s, Zero) = s
  <2> HIDE DEF s
  <2>1. s \in Usage
    BY <1>8 DEF s
  <2> QED BY <2>1, UsageIs
<1>10. in = IF late THEN k[x] ELSE Zero
  BY <1>6
<1> HIDE DEF f, k, S, T, in, late, x
<1>11. Total(k, T) = Plus(Total(f, S), IF late THEN k[x] ELSE Zero)
  BY <1>8, <1>9, <1>10 DEF s
<1> QED BY <1>8, <1>11 DEF f, k, S, T, late, x

LEMMA NoWindowOK ==
  ASSUME NEW h, DOMAIN h = {} PROVE WindowOK(h, NoWindow)
<1>1. NoWindow.latest = 0 /\ DOMAIN NoWindow.at = {}
  BY DEF NoWindow
<1>2. \A c : KeptAfter(NoWindow.at, c) = {} /\ After(h, c) = {}
  BY <1>1 DEF KeptAfter, After
<1>3. \A f : Total(f, {}) = Zero
  BY TotalEmpty
<1>4. \A c \in Int : Total(NoWindow.at, KeptAfter(NoWindow.at, c)) = Total(AddedIn(h), After(h, c))
  <2> SUFFICES ASSUME NEW c \in Int
               PROVE  Total(NoWindow.at, KeptAfter(NoWindow.at, c)) = Total(AddedIn(h), After(h, c))
    OBVIOUS
  <2>1. Total(NoWindow.at, {}) = Zero /\ Total(AddedIn(h), {}) = Zero
    BY <1>3
  <2> QED BY <1>2, <2>1
<1> DEFINE w == NoWindow
<1>5. /\ w.latest = 0 /\ DOMAIN w.at = {}
      /\ \A c \in Int : Total(w.at, KeptAfter(w.at, c)) = Total(AddedIn(h), After(h, c))
  BY <1>1, <1>4
<1> HIDE DEF w
<1>6. WindowOK(h, w)
  BY <1>5 DEF WindowOK
<1> QED BY <1>6 DEF w

\* Window.Add keeps what the last seconds added, whatever time the row tells.
LEMMA WindowStep ==
  ASSUME NEW h, NEW g, NEW m, Longer(h, g, m), IsHeard(g, m + 1),
         NEW w, WindowOK(h, w), NEW next,
         \/ next = w /\ AddedIn(g)[m + 1] = Zero
         \/ next = Recorded(w, g[m + 1].ts, AddedIn(g)[m + 1])
  PROVE  WindowOK(g, next)
<1> DEFINE ts == g[m + 1].ts
           d == AddedIn(g)[m + 1]
           sum(c) == Total(AddedIn(h), After(h, c))
<1>1. /\ m \in Nat /\ DOMAIN h = 1 .. m /\ DOMAIN g = 1 .. m + 1 /\ ts \in Nat
      /\ \A i \in 1 .. m : g[i] = h[i]
  BY DEF Longer, IsHeard, IsEvent
<1>2. d \in Usage
  <2> DEFINE n == m + 1
  <2>1. n \in 1 .. n /\ IsHeard(g, n)
    BY <1>1
  <2> HIDE DEF n
  <2>2. AddedIn(g)[n] \in Usage
    BY <2>1, AddedType
  <2> QED BY <2>2 DEF n
<1>3. \A c \in Int : sum(c) \in Usage
        /\ Total(AddedIn(g), After(g, c)) = Plus(sum(c), IF ts > c /\ ts > 0 THEN d ELSE Zero)
  BY AfterStep
<1>4. w.latest = 0 \/ \E i \in DOMAIN g : w.latest = g[i].ts
  BY <1>1 DEF WindowOK
<1>5. CASE next = w /\ (d = Zero \/ ts = 0)
  <2>1. \A c \in Int : ts = 0 => ~ (ts > c /\ ts > 0)
    BY <1>1
  <2> HIDE DEF d, ts, sum
  <2>2. \A c \in Int : c >= w.latest - Span - 1 =>
          Total(AddedIn(g), After(g, c)) = Plus(sum(c), Zero)
    BY <1>1, <1>3, <1>5
  <2>3. \A c \in Int : Total(AddedIn(g), After(g, c)) = sum(c) \/ ~ c >= w.latest - Span - 1
    BY <1>3, <2>2, UsageIs
  <2> QED BY <1>4, <1>5, <2>3 DEF WindowOK, sum
<1>6. CASE next = Recorded(w, ts, d) /\ ts # 0
  <2> DEFINE latest == IF ~w.known \/ ts > w.latest THEN ts ELSE w.latest
             kept == {s \in DOMAIN w.at \cup {ts} : s >= latest - Span}
             old(s) == IF s \in DOMAIN w.at THEN w.at[s] ELSE Zero
             at == [s \in kept |-> Plus(old(s), IF s = ts THEN d ELSE Zero)]
  <2>1. next.known /\ next.latest = latest /\ next.at = at
    BY <1>6 DEF Recorded
  <2>2. /\ w.latest \in Nat /\ latest \in Nat /\ w.latest <= latest /\ ts <= latest
        /\ latest = ts \/ latest = w.latest
    BY <1>1 DEF WindowOK
  <2>3. /\ \A s \in DOMAIN w.at : s \in Int /\ s <= w.latest /\ w.at[s] \in Usage
        /\ Span \in Nat
    BY <2>2, SpanAssumption DEF WindowOK
  <2>4. \A s : old(s) \in Usage
    BY <2>3, UsageIs
  <2>5. \A s \in kept : at[s] \in Usage /\ (s # ts => at[s] = w.at[s] /\ s \in DOMAIN w.at)
    <3>1. \A s \in kept : at[s] = Plus(old(s), IF s = ts THEN d ELSE Zero)
      OBVIOUS
    <3>2. \A s \in kept : s # ts => s \in DOMAIN w.at /\ old(s) = w.at[s]
      OBVIOUS
    <3> SUFFICES ASSUME NEW s \in kept
                 PROVE  at[s] \in Usage /\ (s # ts => at[s] = w.at[s] /\ s \in DOMAIN w.at)
      OBVIOUS
    <3> DEFINE o == old(s)
               e == IF s = ts THEN d ELSE Zero
    <3>3. at[s] = Plus(o, e) /\ (s # ts => o = w.at[s] /\ s \in DOMAIN w.at)
      BY <3>1, <3>2
    <3>4. o \in Usage /\ e \in Usage /\ (s # ts => e = Zero)
      <4> HIDE DEF d, ts, o
      <4>1. o \in Usage
        BY <2>4 DEF o
      <4> QED BY <1>2, <4>1, UsageIs
    <3> HIDE DEF at, o, e, kept, ts
    <3>5. Plus(o, e) \in Usage /\ Plus(o, Zero) = o
      BY <3>4, UsageIs
    <3>6. CASE s # ts
      <4>1. e = Zero /\ o = w.at[s] /\ s \in DOMAIN w.at
        BY <3>3, <3>4, <3>6
      <4>2. at[s] = o
        BY <3>3, <3>5, <4>1
      <4> QED BY <3>4, <4>1, <4>2
    <3> QED BY <3>3, <3>5, <3>6
  <2>6. kept \subseteq (latest - Span) .. latest
    <3>1. \A s \in kept : s \in Int /\ s >= latest - Span /\ s <= latest
      <4> HIDE DEF latest, ts
      <4> QED BY <1>1, <2>2, <2>3
    <3> HIDE DEF kept, latest
    <3> QED BY <2>2, <2>3, <3>1
  <2>7. latest = 0 \/ \E i \in DOMAIN g : latest = g[i].ts
    <3>1. m + 1 \in DOMAIN g
      BY <1>1
    <3> HIDE DEF latest
    <3> QED BY <1>4, <2>2, <3>1
  <2>8. ASSUME NEW c \in Int, c >= latest - Span - 1
        PROVE  Total(at, KeptAfter(at, c)) = Total(AddedIn(g), After(g, c))
    <3> DEFINE f == w.at
               S == KeptAfter(f, c)
               T == KeptAfter(at, c)
               out == IF ts \in S THEN f[ts] ELSE Zero
               in == IF ts \in T THEN at[ts] ELSE Zero
               s == Total(f, S)
    <3>1. S = {x \in DOMAIN f : x > c} /\ T = {x \in kept : x > c}
      BY DEF KeptAfter
    <3>2. \A x \in DOMAIN f \cup {ts} : x > c => x \in kept
      <4>1. \A x \in DOMAIN f \cup {ts} : x \in Int
        BY <1>1, <2>3
      <4> HIDE DEF latest, f
      <4>2. \A x \in Int : x > c => x >= latest - Span
        BY <2>2, <2>3, <2>8
      <4> QED BY <4>1, <4>2 DEF f
    <3>3. S \ {ts} = T \ {ts} /\ (ts \in T <=> ts > c)
      BY <3>1, <3>2
    <3>4. c >= w.latest - Span - 1
      <4> HIDE DEF latest
      <4> QED BY <2>2, <2>3, <2>8
    <3>5. s = sum(c)
      BY <3>4 DEF WindowOK
    <3>6. IsFiniteSet(S) /\ IsFiniteSet(T)
      <4>1. S \in SUBSET ((w.latest - Span) .. w.latest)
        BY DEF KeptAfter, WindowOK
      <4>2. T \in SUBSET ((latest - Span) .. latest)
        BY <2>6, <3>1
      <4>3. w.latest \in Int /\ latest \in Int /\ w.latest - Span \in Int /\ latest - Span \in Int
        BY <2>2, <2>3
      <4> DEFINE p == w.latest - Span
                 q == latest - Span
                 r == w.latest
      <4> HIDE DEF S, T, latest, p, q, r
      <4>4. p \in Int /\ q \in Int /\ r \in Int /\ S \in SUBSET (p .. r) /\ T \in SUBSET (q .. latest)
        BY <4>1, <4>2, <4>3 DEF p, q, r
      <4> QED BY <4>3, <4>4, IntervalFinite
    <3>7. /\ \A y \in S : f[y] \in Usage
          /\ \A y \in T : at[y] \in Usage
          /\ \A y \in S \ {ts} : at[y] = f[y]
      <4>1. S \subseteq DOMAIN f /\ T \subseteq kept
        BY <3>1
      <4> HIDE DEF S, T, at, kept, ts
      <4> QED BY <2>3, <2>5, <3>3, <4>1
    <3>8. s \in Usage /\ Total(at, T) = Plus(Minus(s, out), in)
      <4> HIDE DEF f, at, S, T, ts
      <4> QED BY <3>3, <3>6, <3>7, TotalPut
    <3>9. in = IF ts > c THEN Plus(out, d) ELSE Zero
      <4>1. ts > c => in = at[ts] /\ ts \in kept
        BY <3>1, <3>3
      <4>2. ts > c => at[ts] = Plus(old(ts), d)
        <5>1. ts \in kept => at[ts] = Plus(old(ts), d)
          OBVIOUS
        <5> HIDE DEF at, old, kept, ts, d
        <5> QED BY <4>1, <5>1
      <4>3. ts > c => old(ts) = out
        BY <3>1
      <4> HIDE DEF at, old, out, ts, d, T, S
      <4> QED BY <3>3, <4>1, <4>2, <4>3
    <3>10. ts \notin S => out = Zero
      OBVIOUS
    <3>11. ~(ts > c) => ts \notin S
      BY <3>1
    <3>12. out \in Usage
      <4> HIDE DEF S, f, ts
      <4> QED BY <3>7, UsageIs
    <3>13. Total(at, T) = Plus(s, IF ts > c THEN d ELSE Zero)
      <4> DEFINE t == Total(at, T)
      <4> HIDE DEF s, t, out, in, ts, d, S
      <4>1. CASE ts > c
        <5>1. t = Plus(Minus(s, out), Plus(out, d))
          BY <3>8, <3>9, <4>1 DEF t
        <5>2. t = Plus(s, d)
          BY <1>2, <3>8, <3>12, <5>1 DEF Usage, Use, Plus, Minus
        <5> QED BY <4>1, <5>2 DEF t
      <4>2. CASE ~(ts > c)
        <5>1. out = Zero /\ in = Zero
          BY <3>9, <3>10, <3>11, <4>2
        <5>2. t = Plus(Minus(s, Zero), Zero)
          BY <3>8, <5>1 DEF t
        <5>3. t = Plus(s, Zero)
          BY <3>8, <5>2, UsageIs
        <5> QED BY <4>2, <5>3 DEF t
      <4> QED BY <4>1, <4>2
    <3>14. Total(AddedIn(g), After(g, c)) = Plus(sum(c), IF ts > c THEN d ELSE Zero)
      <4>1. ts > 0
        BY <1>1, <1>6
      <4> HIDE DEF ts, d, sum
      <4> QED BY <1>3, <4>1
    <3> HIDE DEF s, at, T, sum, d, ts
    <3>15. Total(at, T) = Total(AddedIn(g), After(g, c))
      BY <3>5, <3>13, <3>14
    <3> QED BY <3>15 DEF T
  <2>9. DOMAIN at = kept
    OBVIOUS
  <2> HIDE DEF at, kept, latest
  <2> QED BY <2>1, <2>2, <2>5, <2>6, <2>7, <2>8, <2>9 DEF WindowOK
<1>7. Recorded(w, 0, d) = w
  BY DEF Recorded
<1> QED BY <1>5, <1>6, <1>7

-----------------------------------------------------------------------------
(***************************************************************************)
(* The count of tool calls and the last prompt.                            *)
(***************************************************************************)
CountOf(h) == FoldSeq(LAMBDA row, n : n + Len(row.tools), 0, h)
CallsIn(h) == [i \in DOMAIN h |-> Use(Len(h[i].tools), 0)]
CountStep(h, T, it) == IF T = {} THEN 0 ELSE it[T \ {First(T)}] + Len(h[First(T)].tools)
Counts(it, h, S) == it = [T \in SUBSET S |-> CountStep(h, T, it)]

\* The count is the sum of what the rows call.
LEMMA CountIs ==
  ASSUME NEW h, NEW m, IsHeard(h, m)
  PROVE  CountOf(h) = Total(CallsIn(h), DOMAIN h).in
<1> DEFINE D == DOMAIN h
           f == CallsIn(h)
           iter[s \in SUBSET D] ==
             IF s = {} THEN 0
             ELSE LET x == CHOOSE x \in s : TRUE
                  IN  iter[s \ {x}] + Len(h[x].tools)
           b == [T \in SUBSET D |-> Total(f, T).in]
<1>1. CountOf(h) = iter[D]
  BY DEF CountOf, FoldSeq, FoldFunction, FoldFunctionOnSet, MapThenFoldSet
<1>2. iter = CHOOSE it : Counts(it, h, D)
  BY DEF Counts, CountStep, First
<1> HIDE DEF iter
<1>3. IsFiniteSet(D) /\ \A x \in D : Len(h[x].tools) \in Nat
  <2>1. D = 1 .. m /\ m \in Nat /\ \A x \in D : Len(h[x].tools) \in Nat
    BY DEF IsHeard, IsEvent
  <2>2. IsFiniteSet(1 .. m)
    BY <2>1, FS_Interval
  <2> QED BY <2>1, <2>2
<1>4. \A x \in D : f[x] = Use(Len(h[x].tools), 0)
  BY DEF CallsIn
<1>5. \A x \in D : f[x] \in Usage /\ f[x].in = Len(h[x].tools)
  <2> SUFFICES ASSUME NEW x \in D PROVE f[x] \in Usage /\ f[x].in = Len(h[x].tools)
    OBVIOUS
  <2> DEFINE n == Len(h[x].tools)
  <2>1. n \in Int /\ 0 \in Int
    BY <1>3
  <2> HIDE DEF n, f
  <2>2. f[x] = Use(n, 0)
    BY <1>4 DEF n
  <2>3. f[x] \in Usage /\ f[x].in = n
    BY <2>1, <2>2, UsageIs
  <2> QED BY <2>3 DEF n
<1>6. \A T \in SUBSET D : Total(f, T).in = CountStep(h, T, b)
  <2> SUFFICES ASSUME NEW T \in SUBSET D PROVE Total(f, T).in = CountStep(h, T, b)
    OBVIOUS
  <2>1. CASE T = {}
    <3>1. Total(f, T) = Zero
      <4> HIDE DEF f
      <4> QED BY <2>1, TotalEmpty
    <3> QED BY <2>1, <3>1 DEF CountStep, Zero, Use
  <2>2. CASE T # {}
    <3> DEFINE x == First(T)
               R == T \ {x}
               r == Total(f, R)
               t == Total(f, T)
    <3>1. IsFiniteSet(T)
      BY <1>3, FS_Subset
    <3>2. x \in T /\ t = Plus(f[x], r)
      <4> HIDE DEF f
      <4> QED BY <2>2, <3>1, TotalFirst
    <3>3. R \in SUBSET D /\ IsFiniteSet(R)
      BY <1>3, FS_Subset
    <3>4. r \in Usage
      <4> HIDE DEF f, R
      <4> QED BY <1>5, <3>3, TotalType
    <3>5. b[R] = r.in
      BY <3>3
    <3>6. CountStep(h, T, b) = b[R] + Len(h[x].tools)
      BY <2>2 DEF CountStep
    <3> DEFINE u == f[x]
               n == Len(h[x].tools)
    <3>7. u \in Usage /\ u.in = n
      BY <1>5, <3>2
    <3> HIDE DEF u, n, r, t, b, x, R, f
    <3>8. t.in = u.in + r.in
      BY <3>2, <3>4, <3>7 DEF u, Plus, Use, Usage
    <3>9. t.in = r.in + n
      BY <3>4, <3>7, <3>8 DEF Usage
    <3>10. CountStep(h, T, b) = t.in
      BY <3>5, <3>6, <3>9 DEF n
    <3> QED BY <3>10 DEF t
  <2> QED BY <2>1, <2>2
<1>7. Counts(b, h, D)
  <2>1. \A T \in SUBSET D : b[T] = CountStep(h, T, b)
    BY <1>6
  <2>2. b = [T \in SUBSET D |-> b[T]]
    OBVIOUS
  <2> HIDE DEF b
  <2> QED BY <2>1, <2>2 DEF Counts
<1> HIDE DEF b
<1>8. Counts(iter, h, D)
  BY <1>2, <1>7
<1> DEFINE G == {T \in SUBSET D : iter[T] = b[T]}
<1>9. \A T \in SUBSET D : /\ iter[T] = CountStep(h, T, iter) /\ b[T] = CountStep(h, T, b)
                          /\ (T # {} => First(T) \in T)
  BY <1>7, <1>8 DEF Counts, First
<1>10. {} \in G
  BY <1>9 DEF CountStep
<1>11. ASSUME NEW T \in SUBSET D, T # {}, \A x \in T : T \ {x} \in G PROVE T \in G
  BY <1>9, <1>11 DEF CountStep
<1> HIDE DEF G
<1>12. D \in G
  <2> HIDE DEF D
  <2>1. \A T \in SUBSET D : T \in G
    BY <1>3, <1>10, <1>11, SubsetBySubset
  <2> QED BY <2>1
<1>13. iter[D] = b[D]
  BY <1>12 DEF G
<1>14. b[D] = Total(f, D).in
  BY DEF b
<1> QED BY <1>1, <1>13, <1>14

LEMMA CountMore ==
  ASSUME NEW h, NEW g, NEW m, Longer(h, g, m), IsHeard(h, m), IsHeard(g, m + 1)
  PROVE  CountOf(g) = CountOf(h) + Len(g[m + 1].tools)
<1> DEFINE x == m + 1
           S == 1 .. m
           T == 1 .. x
           f == CallsIn(h)
           k == CallsIn(g)
           s == Total(f, S)
           t == Total(k, T)
<1>1. /\ m \in Nat /\ DOMAIN h = S /\ DOMAIN g = T /\ \A i \in S : g[i] = h[i]
      /\ \A i \in T : Len(g[i].tools) \in Nat
  BY DEF Longer, IsHeard, IsEvent
<1>2. T \ {x} = S /\ x \in T /\ IsFiniteSet(S) /\ IsFiniteSet(T)
  <2>1. m \in Nat /\ m \in Int /\ x \in Int
    BY <1>1
  <2>2. T \ {x} = S /\ x \in T
    BY <2>1
  <2> HIDE DEF x
  <2>3. IsFiniteSet(S) /\ IsFiniteSet(T)
    BY <2>1, FS_Interval
  <2> QED BY <2>2, <2>3
<1>3. \A i \in T : k[i] = Use(Len(g[i].tools), 0)
  BY <1>1 DEF CallsIn
<1>4. \A i \in S : k[i] = f[i]
  BY <1>1 DEF CallsIn
<1>5. \A i \in T : k[i] \in Usage /\ k[i].in = Len(g[i].tools)
  <2> SUFFICES ASSUME NEW i \in T PROVE k[i] \in Usage /\ k[i].in = Len(g[i].tools)
    OBVIOUS
  <2> DEFINE n == Len(g[i].tools)
  <2>1. n \in Int /\ 0 \in Int
    BY <1>1
  <2>2. k[i] = Use(n, 0)
    BY <1>3
  <2> HIDE DEF n, k, T
  <2>3. k[i] \in Usage /\ k[i].in = n
    BY <2>1, <2>2 DEF Usage, Use
  <2> QED BY <2>3 DEF n
<1> HIDE DEF x, S, T, f, k
<1>6. Total(k, S) = s /\ s \in Usage
  <2>1. Total(k, S) = Total(f, S)
    BY <1>2, <1>4, TotalSame
  <2>2. \A i \in S : k[i] \in Usage
    BY <1>2, <1>5
  <2>3. Total(k, S) \in Usage
    BY <1>2, <2>2, TotalType
  <2> QED BY <2>1, <2>3
<1>7. t = Plus(k[x], s)
  <2>1. t = Plus(k[x], Total(k, T \ {x}))
    BY <1>2, <1>5, TotalAny
  <2> HIDE DEF t, s
  <2> QED BY <1>2, <1>6, <2>1
<1>8. k[x] \in Usage /\ k[x].in = Len(g[x].tools)
  BY <1>2, <1>5
<1>9. CountOf(h) = s.in
  <2>1. CountOf(h) = Total(CallsIn(h), DOMAIN h).in
    BY CountIs
  <2> QED BY <1>1, <2>1 DEF f
<1>10. CountOf(g) = t.in
  <2> DEFINE n == m + 1
  <2>1. IsHeard(g, n)
    OBVIOUS
  <2> HIDE DEF n
  <2>2. CountOf(g) = Total(CallsIn(g), DOMAIN g).in
    BY <2>1, CountIs
  <2> QED BY <1>1, <2>2 DEF k
<1> DEFINE u == k[x]
           n == Len(g[x].tools)
<1> HIDE DEF s, t, u, n
<1>11. u \in Usage /\ u.in = n /\ t = Plus(u, s) /\ s \in Usage
  BY <1>6, <1>7, <1>8 DEF u, n
<1>12. t.in = u.in + s.in
  BY <1>11 DEF Plus, Use, Usage
<1>13. t.in = s.in + n
  BY <1>11, <1>12 DEF Usage
<1> QED BY <1>9, <1>10, <1>13 DEF n, x

Asks(h) == {i \in DOMAIN h : h[i].use \notin {NoUse, Zero}}
PromptOf(h) == IF Asks(h) = {} THEN 0 ELSE h[Latest(Asks(h))].use.in

LEMMA PromptMore ==
  ASSUME NEW h, NEW g, NEW m, Longer(h, g, m)
  PROVE  PromptOf(g) = IF g[m + 1].use \in {NoUse, Zero} THEN PromptOf(h) ELSE g[m + 1].use.in
<1> DEFINE A == Asks(h)
           B == Asks(g)
<1>1. /\ m \in Nat /\ DOMAIN h = 1 .. m /\ DOMAIN g = 1 .. m + 1
      /\ \A i \in 1 .. m : g[i] = h[i]
  BY DEF Longer
<1>2. /\ A \in SUBSET (1 .. m)
      /\ B = IF g[m + 1].use \in {NoUse, Zero} THEN A ELSE A \cup {m + 1}
  BY <1>1 DEF Asks
<1>3. CASE g[m + 1].use \in {NoUse, Zero}
  <2>1. B = A
    BY <1>2, <1>3
  <2>2. A # {} => g[Latest(A)] = h[Latest(A)]
    <3> HIDE DEF A
    <3>1. A # {} => Latest(A) \in A
      BY <1>1, <1>2, LatestIs
    <3> QED BY <1>1, <1>2, <3>1
  <2>3. PromptOf(g) = IF B = {} THEN 0 ELSE g[Latest(B)].use.in
    BY DEF PromptOf
  <2>4. PromptOf(h) = IF A = {} THEN 0 ELSE h[Latest(A)].use.in
    BY DEF PromptOf
  <2> HIDE DEF A, B
  <2> QED BY <1>3, <2>1, <2>2, <2>3, <2>4
<1>4. CASE g[m + 1].use \notin {NoUse, Zero}
  <2>1. B = A \cup {m + 1}
    BY <1>2, <1>4
  <2> DEFINE n == m + 1
  <2>2. n \in Nat /\ B \in SUBSET (1 .. n) /\ n \in B /\ \A j \in B : j <= n
    BY <1>1, <1>2, <2>1
  <2>3. Latest(B) = n
    <3> HIDE DEF n, B
    <3> QED BY <2>2, LatestIs
  <2>4. PromptOf(g) = IF B = {} THEN 0 ELSE g[Latest(B)].use.in
    BY DEF PromptOf
  <2> HIDE DEF B
  <2> QED BY <1>4, <2>2, <2>3, <2>4
<1> QED BY <1>3, <1>4

-----------------------------------------------------------------------------
(***************************************************************************)
(* What an aggregate knows: all of what was heard.                         *)
(***************************************************************************)
Fields(a) ==
  [known |-> a.known, scanAt |-> a.scanAt, read |-> a.read,
   acc |-> a.acc, model |-> a.model, tools |-> a.tools, count |-> a.count,
   answered |-> a.answered, limit |-> a.limit, lastUsageAt |-> a.lastUsageAt,
   mark |-> a.mark, prompt |-> a.prompt]

Knows(h, m, b, a) ==
  /\ AccOK(a.acc) /\ SeenOK(h, b, a.acc.seen) /\ WindowOK(h, a.acc.window)
  /\ a.model = ModelIn(h, b, m) /\ a.model \in Models \cup {NoModel}
  /\ a.count = CountOf(h) /\ a.prompt = PromptOf(h)

LEMMA KnowsNothing ==
  ASSUME NEW h, DOMAIN h = 1 .. 0, NEW b \in Models \cup {NoModel}, NEW a,
         a.acc = NoUsage, a.model = b, a.count = 0, a.prompt = 0
  PROVE  Knows(h, 0, b, a)
<1>1. DOMAIN h = {} /\ IsHeard(h, 0)
  BY DEF IsHeard
<1>2. AccOK(NoUsage)
  BY NoUsageOK
<1>3. NoUsage.window = NoWindow /\ DOMAIN NoUsage.seen = {}
  BY DEF NoUsage
<1>4. WindowOK(h, NoWindow)
  BY <1>1, NoWindowOK
<1>5. SeenOK(h, b, NoUsage.seen)
  BY <1>1, <1>3 DEF SeenOK, ToldIn
<1>6. ModelIn(h, b, 0) = b
  BY DEF ModelIn, NamedIn
<1>7. CountOf(h) = 0
  <2>1. CountOf(h) = Total(CallsIn(h), DOMAIN h).in
    BY <1>1, CountIs
  <2>2. Total(CallsIn(h), {}) = Zero
    BY TotalEmpty
  <2> QED BY <1>1, <2>1, <2>2 DEF Zero, Use
<1>8. PromptOf(h) = 0
  BY <1>1 DEF PromptOf, Asks
<1> QED BY <1>2, <1>3, <1>4, <1>5, <1>6, <1>7, <1>8 DEF Knows

\* The loop of pollOne, over one row.
LEMMA AppliedIs ==
  ASSUME NEW a, a = Fields(a), NEW line, NEW e, e = Parsed(line), NEW k, k = Applied(a, line)
  PROVE  /\ k = Fields(k)
         /\ k.known = a.known /\ k.scanAt = a.scanAt /\ k.read = a.read
         /\ k.model = IF e.model = NoModel THEN a.model ELSE e.model
         /\ k.acc = IF e.use = NoUse THEN a.acc ELSE Added(a.acc, e.id, e.use, k.model, e.ts)
         /\ k.prompt = IF e.use \in {NoUse, Zero} THEN a.prompt ELSE e.use.in
         /\ k.count = a.count + Len(e.tools)
         /\ k.answered = a.answered \cup e.results
         /\ k.limit = IF e.quota = NoLimit THEN a.limit ELSE e.quota
<1> DEFINE model == IF e.model = NoModel THEN a.model ELSE e.model
           request == e.use # NoUse /\ e.use # Zero
           acc == IF e.use = NoUse THEN a.acc ELSE Added(a.acc, e.id, e.use, model, e.ts)
           used == IF e.use = NoUse THEN a.lastUsageAt ELSE Newer(a.lastUsageAt, e.ts)
           prompt == IF request THEN e.use.in ELSE a.prompt
           mark == IF request THEN Marked(a.mark, e.use) ELSE a.mark
           tools == Retained(a.tools \o e.tools)
           count == a.count + Len(e.tools)
           answered == a.answered \cup e.results
           limit == IF e.quota = NoLimit THEN a.limit ELSE e.quota
<1>1. k = [a EXCEPT !.model = model, !.acc = acc, !.lastUsageAt = used, !.prompt = prompt,
                    !.mark = mark, !.tools = tools, !.count = count, !.answered = answered,
                    !.limit = limit]
  BY DEF Applied
<1> HIDE DEF model, acc, used, prompt, mark, tools, count, answered, limit
<1>2. k = [known |-> a.known, scanAt |-> a.scanAt, read |-> a.read,
           acc |-> acc, model |-> model, tools |-> tools, count |-> count,
           answered |-> answered, limit |-> limit, lastUsageAt |-> used,
           mark |-> mark, prompt |-> prompt]
  BY <1>1 DEF Fields
<1>3. /\ k.known = a.known /\ k.scanAt = a.scanAt /\ k.read = a.read /\ k.acc = acc
      /\ k.model = model /\ k.tools = tools /\ k.count = count /\ k.answered = answered
      /\ k.limit = limit /\ k.lastUsageAt = used /\ k.mark = mark /\ k.prompt = prompt
  BY <1>2
<1>4. k = Fields(k)
  BY <1>2, <1>3 DEF Fields
<1>5. prompt = IF e.use \in {NoUse, Zero} THEN a.prompt ELSE e.use.in
  BY DEF prompt
<1> QED BY <1>3, <1>4, <1>5 DEF model, acc, count, answered, limit

\* A row is applied to what is known of the rows before it, and all is known.
LEMMA AppliedKnows ==
  ASSUME NEW h, NEW g, NEW m, Longer(h, g, m), IsHeard(h, m), IsHeard(g, m + 1),
         NEW b, NEW a, a = Fields(a), Knows(h, m, b, a),
         NEW line, g[m + 1] = Parsed(line)
  PROVE  Knows(g, m + 1, b, Applied(a, line))
<1> DEFINE e == g[m + 1]
           k == Applied(a, line)
           seen == a.acc.seen
           id == e.id
           u == e.use
           prev == Earlier(a.acc, id)
           d == AddedIn(g)[m + 1]
<1>1. /\ k.model = IF e.model = NoModel THEN a.model ELSE e.model
      /\ k.acc = IF u = NoUse THEN a.acc ELSE Added(a.acc, id, u, k.model, e.ts)
      /\ k.prompt = IF u \in {NoUse, Zero} THEN a.prompt ELSE u.in
      /\ k.count = a.count + Len(e.tools)
  <2> HIDE DEF e, k
  <2>1. e = Parsed(line) /\ k = Applied(a, line)
    BY DEF e, k
  <2>2. /\ k.model = IF e.model = NoModel THEN a.model ELSE e.model
        /\ k.acc = IF e.use = NoUse THEN a.acc ELSE Added(a.acc, e.id, e.use, k.model, e.ts)
        /\ k.prompt = IF e.use \in {NoUse, Zero} THEN a.prompt ELSE e.use.in
        /\ k.count = a.count + Len(e.tools)
    BY <2>1, AppliedIs
  <2> QED BY <2>2
<1>2. m \in Nat /\ DOMAIN h = 1 .. m /\ DOMAIN g = 1 .. m + 1 /\ IsEvent(e)
  BY DEF Longer, IsHeard
<1>3. e.model \in Models \cup {NoModel} /\ (u # NoUse => Priceable(u) /\ u \in Usage)
  BY <1>2 DEF IsEvent, Priceable
<1> HIDE DEF k, e
<1>4. k.model = ModelIn(g, b, m + 1) /\ k.model \in Models \cup {NoModel}
  <2>1. ModelIn(g, b, m + 1) = IF e.model = NoModel THEN ModelIn(h, b, m) ELSE e.model
    BY ModelStep DEF e
  <2> QED BY <1>1, <1>3, <2>1 DEF Knows
<1>5. k.count = CountOf(g)
  BY <1>1, CountMore DEF Knows, e
<1>6. k.prompt = PromptOf(g)
  BY <1>1, PromptMore DEF Knows, e
<1>7. /\ DOMAIN seen = ToldIn(h)
      /\ \A x : x \in ToldIn(h) <=> RowsIn(h, x) # {}
      /\ \A x \in DOMAIN seen : \E i : Decides(h, x, i) /\ seen[x].usage = h[i].use
  <2>1. SeenOK(h, b, seen)
    BY DEF Knows
  <2>2. \A x : x \in ToldIn(h) <=> RowsIn(h, x) # {}
    BY RowsStep
  <2> HIDE DEF seen
  <2>3. ASSUME NEW x \in DOMAIN seen
        PROVE  \E i : Decides(h, x, i) /\ seen[x].usage = h[i].use
    <3>1. PICK i : /\ Decides(h, x, i)
                   /\ seen[x] = [usage |-> h[i].use, model |-> ModelIn(h, b, i)]
      BY <2>1 DEF SeenOK
    <3>2. seen[x].usage = h[i].use
      BY <3>1
    <3> QED BY <3>1, <3>2
  <2> QED BY <2>1, <2>2, <2>3 DEF SeenOK
<1>8. id \in DOMAIN seen => /\ prev = seen[id] /\ seen[id].usage \in Usage
                            /\ h[Latest(RowsIn(h, id))].use = seen[id].usage
  <2> SUFFICES ASSUME id \in DOMAIN seen
               PROVE  /\ prev = seen[id] /\ seen[id].usage \in Usage
                      /\ h[Latest(RowsIn(h, id))].use = seen[id].usage
    OBVIOUS
  <2>1. PICK i : Decides(h, id, i) /\ seen[id].usage = h[i].use
    BY <1>7
  <2>2. h[Latest(RowsIn(h, id))].use = h[i].use
    <3> HIDE DEF id
    <3> QED BY <1>2, <2>1, DecidesOnce
  <2>3. IsSeen(seen[id])
    BY DEF Knows, AccOK
  <2> QED BY <2>1, <2>2, <2>3 DEF Earlier, IsSeen, Priceable
<1>9. id \notin DOMAIN seen => prev.usage = Zero
  BY DEF Earlier
<1>10. d = IF u = NoUse THEN Zero ELSE Minus(u, prev.usage)
  <2>1. d = IF u = NoUse THEN Zero
            ELSE IF RowsIn(h, id) = {} THEN u ELSE Minus(u, h[Latest(RowsIn(h, id))].use)
    BY AddedInStep DEF e
  <2>2. u # NoUse => Minus(u, Zero) = u
    BY <1>3, UsageIs
  <2>3. RowsIn(h, id) = {} <=> id \notin DOMAIN seen
    BY <1>7
  <2> HIDE DEF u, d, prev, seen, id
  <2> QED BY <1>8, <1>9, <2>1, <2>2, <2>3
<1>11. AccOK(k.acc) /\ SeenOK(g, b, k.acc.seen) /\ WindowOK(g, k.acc.window)
  <2>1. CASE u = NoUse \/ (id \in DOMAIN seen /\ Minus(u, prev.usage) = Zero)
    <3>1. k.acc = a.acc
      <4>1. id \in DOMAIN seen /\ Minus(u, prev.usage) = Zero
            => Added(a.acc, id, u, k.model, e.ts) = a.acc
        BY DEF Added
      <4> HIDE DEF id, u, prev, seen
      <4> QED BY <1>1, <2>1, <4>1
    <3>2. d = Zero
      <4> HIDE DEF id, u, prev, seen, d
      <4> QED BY <1>10, <2>1
    <3>3. u # NoUse => id \in DOMAIN seen /\ u = seen[id].usage
      <4>1. u # NoUse => id \in DOMAIN seen /\ Minus(u, prev.usage) = Zero
        BY <2>1
      <4> DEFINE was == seen[id].usage
      <4>2. u # NoUse => id \in DOMAIN seen /\ Minus(u, was) = Zero /\ u \in Usage /\ was \in Usage
        BY <1>3, <1>8, <4>1
      <4> HIDE DEF id, u, prev, seen, was
      <4>3. u # NoUse => id \in DOMAIN seen /\ u = was
        BY <4>2, UsageIs
      <4> QED BY <4>3 DEF was
    <3>4. SeenOK(g, b, seen)
      <4>1. SeenOK(h, b, seen)
        BY DEF Knows
      <4> HIDE DEF seen
      <4> QED BY <3>3, <4>1, SeenStep DEF e
    <3>5. WindowOK(g, a.acc.window)
      <4> DEFINE w == a.acc.window
      <4>1. WindowOK(h, w)
        BY DEF Knows
      <4> HIDE DEF w
      <4>2. WindowOK(g, w)
        BY <3>2, <4>1, WindowStep
      <4> QED BY <4>2 DEF w
    <3> QED BY <3>1, <3>4, <3>5 DEF Knows
  <2>2. CASE u # NoUse /\ ~(id \in DOMAIN seen /\ Minus(u, prev.usage) = Zero)
    <3>1. /\ k.acc = Added(a.acc, id, u, k.model, e.ts)
          /\ k.acc.seen = Noted(seen, id, u, k.model)
          /\ k.acc.window = Recorded(a.acc.window, e.ts, Minus(u, prev.usage))
      <4>1. k.acc = Added(a.acc, id, u, k.model, e.ts)
        BY <1>1, <2>2
      <4>2. Added(a.acc, id, u, k.model, e.ts) =
              [usage |-> Plus(a.acc.usage, Minus(u, prev.usage)),
               seen |-> Noted(seen, id, u, k.model),
               ledger |-> Refiled(a.acc.ledger, prev, u, k.model),
               window |-> Recorded(a.acc.window, e.ts, Minus(u, prev.usage))]
        BY <2>2 DEF Added
      <4> QED BY <4>1, <4>2
    <3>2. AccOK(k.acc)
      <4> DEFINE acc == a.acc
                 model == k.model
                 ts == e.ts
      <4>1. AccOK(acc) /\ Priceable(u) /\ model \in Models \cup {NoModel}
            /\ ~(id \in DOMAIN acc.seen /\ Minus(u, Earlier(acc, id).usage) = Zero)
        BY <1>3, <1>4, <2>2 DEF Knows
      <4> HIDE DEF acc, model, ts, u, id
      <4>2. AccOK(Added(acc, id, u, model, ts))
        BY <4>1, AddedOK
      <4> QED BY <3>1, <4>2 DEF acc, model, ts
    <3>3. SeenOK(g, b, k.acc.seen)
      <4>1. id \in DOMAIN seen => u # seen[id].usage
        <5>1. id \in DOMAIN seen => Minus(u, prev.usage) # Zero
          BY <2>2
        <5> HIDE DEF id, u, seen, prev
        <5> QED BY <1>8, <5>1, UsageIs
      <4>2. SeenOK(h, b, seen)
        BY DEF Knows
      <4> DEFINE next == k.acc.seen
      <4>3. next = Noted(seen, g[m + 1].id, g[m + 1].use, ModelIn(g, b, m + 1))
            /\ g[m + 1].use # NoUse
            /\ (g[m + 1].id \in DOMAIN seen => g[m + 1].use # seen[g[m + 1].id].usage)
        BY <1>4, <2>2, <3>1, <4>1 DEF e
      <4> HIDE DEF next, seen
      <4>4. SeenOK(g, b, next)
        BY <4>2, <4>3, SeenStep
      <4> QED BY <4>4 DEF next
    <3>4. WindowOK(g, k.acc.window)
      <4> DEFINE w == a.acc.window
                 next == k.acc.window
      <4>1. WindowOK(h, w)
        BY DEF Knows
      <4>2. next = Recorded(w, g[m + 1].ts, AddedIn(g)[m + 1])
        BY <1>10, <2>2, <3>1 DEF e
      <4> HIDE DEF w, next
      <4>3. WindowOK(g, next)
        BY <4>1, <4>2, WindowStep
      <4> QED BY <4>3 DEF next
    <3> QED BY <3>2, <3>3, <3>4
  <2> QED BY <2>1, <2>2
<1>12. Knows(g, m + 1, b, k)
  BY <1>4, <1>5, <1>6, <1>11 DEF Knows
<1> QED BY <1>12 DEF k

-----------------------------------------------------------------------------
(***************************************************************************)
(* One poll: all the rows that are unread.                                 *)
(***************************************************************************)
ReadTo(tr, j) == [i \in 1 .. j |-> Parsed(tr[i])]
Quotas(tr, r, c) == {i \in 1 .. c : Parsed(tr[r + i]).quota # NoLimit}
Answers(tr, r, c) == UNION {Parsed(tr[r + i]).results : i \in 1 .. c}

\* What c rows after the first r make of a.
HasRead(k, a, tr, r, c, b) ==
  /\ k = Fields(k) /\ k.known = a.known /\ k.scanAt = a.scanAt /\ k.read = a.read
  /\ Knows(ReadTo(tr, r + c), r + c, b, k)
  /\ k.answered = a.answered \cup Answers(tr, r, c)
  /\ k.limit = IF Quotas(tr, r, c) = {} THEN a.limit
               ELSE Parsed(tr[r + Latest(Quotas(tr, r, c))]).quota

LEMMA ReadToIs ==
  ASSUME NEW tr \in Seq(Lines), NEW j \in 0 .. Len(tr)
  PROVE  /\ IsHeard(ReadTo(tr, j), j)
         /\ j < Len(tr) => /\ Longer(ReadTo(tr, j), ReadTo(tr, j + 1), j)
                           /\ ReadTo(tr, j + 1)[j + 1] = Parsed(tr[j + 1])
<1>1. Len(tr) \in Nat /\ j \in Nat /\ \A i \in 1 .. j : tr[i] \in Lines
  OBVIOUS
<1>2. \A i \in 1 .. j : IsEvent(Parsed(tr[i]))
  BY <1>1, EventIs DEF EventSet
<1>3. IsHeard(ReadTo(tr, j), j)
  BY <1>1, <1>2 DEF IsHeard, ReadTo
<1>4. ASSUME j < Len(tr)
      PROVE  /\ Longer(ReadTo(tr, j), ReadTo(tr, j + 1), j)
             /\ ReadTo(tr, j + 1)[j + 1] = Parsed(tr[j + 1])
  <2>1. \A i \in 1 .. j : i \in 1 .. j + 1
    BY <1>1
  <2>2. j + 1 \in 1 .. j + 1
    BY <1>1
  <2> QED BY <1>1, <2>1, <2>2 DEF Longer, ReadTo
<1> QED BY <1>3, <1>4

LEMMA ReadOneMore ==
  ASSUME NEW tr \in Seq(Lines), NEW r \in Nat, NEW c \in Nat, r + c < Len(tr),
         NEW b, NEW a, NEW k, HasRead(k, a, tr, r, c, b)
  PROVE  HasRead(Applied(k, tr[r + c + 1]), a, tr, r, c + 1, b)
<1> DEFINE j == r + c
           line == tr[j + 1]
           e == Parsed(line)
           n == Applied(k, line)
           h == ReadTo(tr, j)
           g == ReadTo(tr, j + 1)
           d == c + 1
<1>1. j \in Nat /\ j < Len(tr) /\ Len(tr) \in Nat /\ j + 1 = r + d /\ d \in Nat
  OBVIOUS
<1>2. /\ IsHeard(h, j) /\ IsHeard(g, j + 1) /\ Longer(h, g, j) /\ g[j + 1] = e
  <2>1. j \in 0 .. Len(tr) /\ j + 1 \in 0 .. Len(tr)
    BY <1>1
  <2> DEFINE i == j + 1
  <2> HIDE DEF j
  <2>2. IsHeard(h, j) /\ Longer(h, g, j) /\ g[j + 1] = e
    BY <1>1, <2>1, ReadToIs
  <2>3. IsHeard(ReadTo(tr, i), i)
    <3> HIDE DEF i
    <3> QED BY <2>1, ReadToIs DEF i
  <2> QED BY <2>2, <2>3
<1>3. k = Fields(k) /\ Knows(h, j, b, k)
  BY DEF HasRead
<1>4. /\ n = Fields(n) /\ n.known = k.known /\ n.scanAt = k.scanAt /\ n.read = k.read
      /\ n.answered = k.answered \cup e.results
      /\ n.limit = IF e.quota = NoLimit THEN k.limit ELSE e.quota
  <2> HIDE DEF line
  <2>1. e = Parsed(line) /\ n = Applied(k, line)
    OBVIOUS
  <2> HIDE DEF e, n
  <2> QED BY <1>3, <2>1, AppliedIs
<1>5. Knows(g, j + 1, b, n)
  <2> HIDE DEF j, line
  <2>1. g[j + 1] = Parsed(line)
    BY <1>2
  <2> HIDE DEF g, h, e
  <2> QED BY <1>2, <1>3, <2>1, AppliedKnows
<1>6. Knows(ReadTo(tr, r + d), r + d, b, n)
  <2> HIDE DEF n, d, j
  <2> QED BY <1>1, <1>5
<1>7. e = Parsed(tr[r + d])
  <2> HIDE DEF j, d
  <2> QED BY <1>1
<1>8. Answers(tr, r, d) = Answers(tr, r, c) \cup e.results
  <2>1. 1 .. d = (1 .. c) \cup {d}
    OBVIOUS
  <2> HIDE DEF d, e
  <2> QED BY <1>7, <2>1 DEF Answers
<1> DEFINE Q == Quotas(tr, r, c)
           P == Quotas(tr, r, d)
<1>9. P = IF e.quota = NoLimit THEN Q ELSE Q \cup {d}
  <2>1. 1 .. d = (1 .. c) \cup {d}
    OBVIOUS
  <2> HIDE DEF d, e
  <2> QED BY <1>7, <2>1 DEF Quotas
<1>10. Q \in SUBSET (1 .. c)
  BY DEF Quotas
<1>11. e.quota # NoLimit => P # {} /\ Latest(P) = d
  <2> SUFFICES ASSUME e.quota # NoLimit PROVE P # {} /\ Latest(P) = d
    OBVIOUS
  <2>1. P = Q \cup {d}
    BY <1>9
  <2>2. P \in SUBSET (1 .. d) /\ d \in P /\ \A i \in P : i <= d
    <3> HIDE DEF P, Q
    <3> QED BY <1>10, <2>1
  <2> HIDE DEF P, d
  <2> QED BY <1>1, <2>2, LatestIs
<1>12. n.limit = IF P = {} THEN a.limit ELSE Parsed(tr[r + Latest(P)]).quota
  <2>1. k.limit = IF Q = {} THEN a.limit ELSE Parsed(tr[r + Latest(Q)]).quota
    BY DEF HasRead
  <2>2. CASE e.quota = NoLimit
    <3>1. P = Q
      BY <1>9, <2>2
    <3> HIDE DEF P, Q, n, e
    <3> QED BY <1>4, <2>1, <2>2, <3>1
  <2>3. CASE e.quota # NoLimit
    <3> HIDE DEF P, Q, n, e, d
    <3> QED BY <1>4, <1>7, <1>11, <2>3
  <2> QED BY <2>2, <2>3
<1> HIDE DEF n, P, Q, e
<1>13. /\ n.known = a.known /\ n.scanAt = a.scanAt /\ n.read = a.read
       /\ n.answered = a.answered \cup Answers(tr, r, d)
  BY <1>4, <1>8 DEF HasRead
<1>14. HasRead(n, a, tr, r, d, b)
  <2> HIDE DEF d
  <2> QED BY <1>4, <1>6, <1>12, <1>13 DEF HasRead, P
<1> QED BY <1>14 DEF n

LEMMA ReadAll ==
  ASSUME NEW tr \in Seq(Lines), NEW r \in Nat, r <= Len(tr), NEW b,
         NEW a, a = Fields(a), Knows(ReadTo(tr, r), r, b, a)
  PROVE  HasRead(Folded(a, SubSeq(tr, r + 1, Len(tr))), a, tr, r, Len(tr) - r, b)
<1> DEFINE n == Len(tr) - r
           Gives(c) == Folded(a, SubSeq(tr, r + 1, r + c))
           G == {c \in 0 .. n : HasRead(Gives(c), a, tr, r, c, b)}
<1>1. n \in Nat /\ r + n = Len(tr) /\ Len(tr) \in Nat
  OBVIOUS
<1>2. 0 \in G
  <2>1. Folded(a, SubSeq(tr, r + 1, r)) = a
    BY FoldedNone
  <2>2. Gives(0) = a /\ r + 0 = r
    BY <2>1
  <2>3. Quotas(tr, r, 0) = {} /\ Answers(tr, r, 0) = {}
    BY DEF Quotas, Answers
  <2>4. HasRead(a, a, tr, r, 0, b)
    BY <2>2, <2>3 DEF HasRead
  <2> HIDE DEF n
  <2> QED BY <1>1, <2>2, <2>4
<1>3. ASSUME NEW c \in 0 .. n, c < n, c \in G PROVE c + 1 \in G
  <2>1. c \in Nat /\ r + c < Len(tr) /\ r <= r + c /\ r + c \in Nat /\ c + 1 \in 0 .. n
        /\ r + (c + 1) = r + c + 1
    BY <1>1, <1>3
  <2>2. Gives(c + 1) = Applied(Gives(c), tr[r + c + 1])
    <3> DEFINE j == r + c
    <3>1. j \in Nat /\ r <= j /\ j < Len(tr)
      BY <2>1
    <3> HIDE DEF j
    <3>2. Folded(a, SubSeq(tr, r + 1, j + 1)) = Applied(Folded(a, SubSeq(tr, r + 1, j)), tr[j + 1])
      BY <3>1, FoldedStep
    <3> QED BY <2>1, <3>2 DEF j
  <2>3. HasRead(Gives(c), a, tr, r, c, b)
    BY <1>3
  <2>4. HasRead(Applied(Gives(c), tr[r + c + 1]), a, tr, r, c + 1, b)
    <3> DEFINE k == Gives(c)
    <3>1. HasRead(k, a, tr, r, c, b)
      BY <2>3
    <3> HIDE DEF k, n
    <3>2. HasRead(Applied(k, tr[r + c + 1]), a, tr, r, c + 1, b)
      BY <2>1, <3>1, ReadOneMore
    <3> QED BY <3>2 DEF k
  <2> HIDE DEF Gives, n
  <2> QED BY <2>1, <2>2, <2>4
<1>4. n \in G
  <2> HIDE DEF n, G
  <2> QED BY <1>1, <1>2, <1>3, CountUp
<1> HIDE DEF n
<1>5. HasRead(Gives(n), a, tr, r, n, b)
  BY <1>4
<1>6. Gives(n) = Folded(a, SubSeq(tr, r + 1, Len(tr)))
  BY <1>1
<1> HIDE DEF Gives
<1>7. HasRead(Folded(a, SubSeq(tr, r + 1, Len(tr))), a, tr, r, n, b)
  BY <1>5, <1>6
<1> QED BY <1>7 DEF n

-----------------------------------------------------------------------------
(***************************************************************************)
(* The session over its polls.                                             *)
(***************************************************************************)
\* A transcript not yet found is looked for again within the interval.
Sought(a) == a.scanAt \in Nat /\ a.scanAt <= (IF present THEN born ELSE now) + Rescan

\* The limit shown is the last one told, unless that has lapsed.
LimitOK(a) == a.limit = lastLimit \/ (a.limit = NoLimit /\ Lapsed(lastLimit))

FileOK ==
  /\ now \in Nat /\ born \in Nat /\ born <= now /\ present \in BOOLEAN /\ rewritten \in BOOLEAN
  /\ transcript \in Seq(Lines)
  /\ \A i \in 1 .. Len(transcript) : Time(transcript[i].ts) <= now

HistoryOK ==
  /\ base \in Models \cup {NoModel} /\ (lastLimit # NoLimit => lastLimit.resets \in Nat)
  /\ agg = NoAgg => heard = <<>> /\ base = NoModel /\ lastLimit = NoLimit /\ answers = {}

AggOK(a) ==
  /\ a = Fields(a) /\ a.model \in Models \cup {NoModel}
  /\ answers \subseteq a.answered /\ LimitOK(a) /\ (~a.known => Sought(a))

ReadOK ==
  /\ agg.read \in 0 .. Len(transcript) /\ heard = ReadTo(transcript, agg.read)
  /\ Knows(heard, agg.read, base, agg)

SessionInv ==
  /\ FileOK /\ HistoryOK
  /\ agg # NoAgg => AggOK(agg)
  /\ agg # NoAgg /\ ~rewritten => ReadOK

LEMMA NoAggIs == \A a : a = Fields(a) => a # NoAgg
<1> SUFFICES ASSUME NEW a, a = Fields(a), a = NoAgg PROVE FALSE
  OBVIOUS
<1>1. "known" \in DOMAIN Fields(a)
  BY DEF Fields
<1>2. "known" \notin DOMAIN NoAgg
  BY DEF NoAgg
<1> QED BY <1>1, <1>2

\* What a poll has of the session before it reads.
Ready(a) ==
  /\ AggOK(a) /\ (present /\ now >= born + Rescan => a.known)
  /\ a.model = IF agg = NoAgg THEN NoModel ELSE agg.model
  /\ a.read = IF agg = NoAgg THEN 0 ELSE agg.read
  /\ a.acc = IF agg = NoAgg THEN NoUsage ELSE agg.acc
  /\ a.count = IF agg = NoAgg THEN 0 ELSE agg.count
  /\ a.prompt = IF agg = NoAgg THEN 0 ELSE agg.prompt

LEMMA FoundIsReady == ASSUME SessionInv PROVE Ready(Found)
<1> DEFINE b == IF agg = NoAgg THEN NewAgg ELSE agg
           a == Found
<1>1. now \in Nat /\ born \in Nat /\ born <= now /\ present \in BOOLEAN /\ Rescan \in Nat
  BY TimesAssumption DEF SessionInv, FileOK
<1>2. AggOK(b)
  <2>1. CASE agg = NoAgg
    <3>1. NewAgg = Fields(NewAgg)
      BY DEF NewAgg, Fields
    <3>2. NewAgg.model = NoModel /\ NewAgg.answered = {} /\ NewAgg.limit = NoLimit
          /\ NewAgg.scanAt = 0
      BY DEF NewAgg
    <3>3. lastLimit = NoLimit /\ answers = {}
      BY <2>1 DEF SessionInv, HistoryOK
    <3>4. Sought(NewAgg)
      BY <1>1, <3>2 DEF Sought
    <3> QED BY <2>1, <3>1, <3>2, <3>3, <3>4 DEF AggOK, LimitOK
  <2>2. CASE agg # NoAgg
    BY <2>2 DEF SessionInv
  <2> QED BY <2>1, <2>2
<1>3. /\ b.model = IF agg = NoAgg THEN NoModel ELSE agg.model
      /\ b.read = IF agg = NoAgg THEN 0 ELSE agg.read
      /\ b.acc = IF agg = NoAgg THEN NoUsage ELSE agg.acc
      /\ b.count = IF agg = NoAgg THEN 0 ELSE agg.count
      /\ b.prompt = IF agg = NoAgg THEN 0 ELSE agg.prompt
  BY DEF NewAgg
<1>4. a = LookedFor(b)
  BY DEF Found
<1> HIDE DEF a, b
<1>5. CASE a = b /\ (b.known \/ now < b.scanAt)
  <2>1. present /\ now >= born + Rescan => b.known
    BY <1>1, <1>2, <1>5 DEF AggOK, Sought
  <2>2. Ready(a)
    BY <1>2, <1>3, <1>5, <2>1 DEF Ready
  <2> QED BY <2>2 DEF a
<1>6. CASE a = [b EXCEPT !.known = TRUE]
  <2>1. b = Fields(b)
    BY <1>2 DEF AggOK
  <2>2. /\ a = Fields(a) /\ a.known /\ a.model = b.model /\ a.read = b.read /\ a.acc = b.acc
        /\ a.count = b.count /\ a.prompt = b.prompt /\ a.answered = b.answered
        /\ a.limit = b.limit
    BY <1>6, <2>1 DEF Fields
  <2>3. AggOK(a)
    BY <1>2, <2>2 DEF AggOK, LimitOK
  <2>4. Ready(a)
    BY <1>3, <2>2, <2>3 DEF Ready
  <2> QED BY <2>4 DEF a
<1>7. CASE a = [b EXCEPT !.scanAt = now + Rescan] /\ ~present
  <2>1. b = Fields(b)
    BY <1>2 DEF AggOK
  <2> DEFINE t == now + Rescan
  <2>2. t \in Nat
    BY <1>1
  <2> HIDE DEF t
  <2>3. /\ a = Fields(a) /\ a.scanAt = t /\ a.model = b.model /\ a.read = b.read
        /\ a.acc = b.acc /\ a.count = b.count /\ a.prompt = b.prompt
        /\ a.answered = b.answered /\ a.limit = b.limit
    BY <1>7, <2>1 DEF Fields, t
  <2>4. Sought(a)
    BY <1>1, <1>7, <2>2, <2>3 DEF Sought, t
  <2>5. AggOK(a)
    BY <1>2, <2>3, <2>4 DEF AggOK, LimitOK
  <2>6. Ready(a)
    BY <1>3, <1>7, <2>3, <2>5 DEF Ready
  <2> QED BY <2>6 DEF a
<1> QED BY <1>4, <1>5, <1>6, <1>7 DEF LookedFor

\* From what a poll reads, and onto what.
Start(a) == IF rewritten THEN Reset(a) ELSE a
From(a) == IF rewritten THEN 0 ELSE a.read
Base == IF agg = NoAgg THEN NoModel ELSE IF rewritten THEN agg.model ELSE base

LEMMA StartKnows ==
  ASSUME SessionInv, NEW a, Ready(a)
  PROVE  /\ Start(a) = Fields(Start(a)) /\ Start(a).known = a.known
         /\ Start(a).scanAt = a.scanAt /\ Start(a).limit = a.limit
         /\ Start(a).answered = a.answered
         /\ From(a) \in Nat /\ From(a) <= Len(transcript)
         /\ Base \in Models \cup {NoModel}
         /\ Knows(ReadTo(transcript, From(a)), From(a), Base, Start(a))
<1> DEFINE s == Start(a)
<1>1. a = Fields(a) /\ a.model \in Models \cup {NoModel}
  BY DEF Ready, AggOK
<1>2. s = Fields(s) /\ s.known = a.known /\ s.scanAt = a.scanAt /\ s.limit = a.limit
      /\ s.answered = a.answered /\ s.model = a.model
      /\ (rewritten => s.acc = NoUsage /\ s.count = 0 /\ s.prompt = 0)
      /\ (~rewritten => s = a)
  <2>1. CASE rewritten
    <3>1. s = [a EXCEPT !.acc = NoUsage, !.tools = <<>>, !.count = 0, !.mark = 0, !.prompt = 0]
      BY <2>1 DEF Start, Reset
    <3> HIDE DEF s
    <3> QED BY <1>1, <2>1, <3>1 DEF Fields
  <2>2. CASE ~rewritten
    <3>1. s = a
      BY <2>2 DEF Start
    <3> QED BY <1>1, <2>2, <3>1
  <2> QED BY <2>1, <2>2
<1>3. Base \in Models \cup {NoModel}
  BY DEF SessionInv, HistoryOK, AggOK, Base
<1>4. Len(transcript) \in Nat
  BY DEF SessionInv, FileOK
<1> HIDE DEF s
<1>5. CASE rewritten \/ agg = NoAgg
  <2>1. From(a) = 0
    BY <1>5 DEF From, Ready
  <2>2. s.acc = NoUsage /\ s.count = 0 /\ s.prompt = 0 /\ s.model = Base
    <3>1. CASE rewritten
      BY <1>2, <3>1 DEF Ready, Base
    <3>2. CASE ~rewritten /\ agg = NoAgg
      BY <1>2, <3>2 DEF Ready, Base
    <3> QED BY <1>5, <3>1, <3>2
  <2>3. DOMAIN ReadTo(transcript, 0) = 1 .. 0
    BY DEF ReadTo
  <2>4. Knows(ReadTo(transcript, 0), 0, Base, s)
    <3> DEFINE b == Base
               h == ReadTo(transcript, 0)
    <3>1. b \in Models \cup {NoModel} /\ s.model = b /\ DOMAIN h = 1 .. 0
      BY <1>3, <2>2, <2>3
    <3> HIDE DEF b, h
    <3>2. Knows(h, 0, b, s)
      BY <2>2, <3>1, KnowsNothing
    <3> QED BY <3>2 DEF b, h
  <2> QED BY <1>2, <1>3, <1>4, <2>1, <2>4 DEF s
<1>6. CASE ~rewritten /\ agg # NoAgg
  <2>1. ReadOK
    BY <1>6 DEF SessionInv
  <2>2. From(a) = agg.read /\ Base = base
    BY <1>6 DEF From, Ready, Base
  <2>3. From(a) \in Nat /\ From(a) <= Len(transcript)
    BY <1>4, <2>1, <2>2 DEF ReadOK
  <2>4. /\ s.acc = agg.acc /\ s.model = agg.model /\ s.count = agg.count
        /\ s.prompt = agg.prompt
    BY <1>2, <1>6 DEF Ready
  <2>5. Knows(ReadTo(transcript, agg.read), agg.read, base, s)
    BY <2>1, <2>4 DEF ReadOK, Knows
  <2> QED BY <1>2, <1>3, <2>2, <2>3, <2>5 DEF s
<1> QED BY <1>5, <1>6

\* What is heard of the rows a poll reads.
LEMMA HeardIs ==
  ASSUME SessionInv, NEW a, Ready(a)
  PROVE  /\ Unread(a) = SubSeq(transcript, From(a) + 1, Len(transcript))
         /\ DOMAIN Events(Unread(a)) = 1 .. (Len(transcript) - From(a))
         /\ \A i \in 1 .. (Len(transcript) - From(a)) :
               Events(Unread(a))[i] = Parsed(transcript[From(a) + i])
         /\ Events(transcript) = ReadTo(transcript, Len(transcript))
         /\ (IF rewritten \/ agg = NoAgg THEN Events(transcript) ELSE heard \o Events(Unread(a)))
            = ReadTo(transcript, Len(transcript))
<1> DEFINE tr == transcript
           r == From(a)
           n == Len(tr)
           u == Unread(a)
           new == Events(u)
<1>1. tr \in Seq(Lines) /\ n \in Nat /\ r \in Nat /\ r <= n
  BY StartKnows DEF SessionInv, FileOK
<1>2. u = SubSeq(tr, r + 1, n)
  <2>1. CASE rewritten
    <3>1. r = 0 /\ u = SubSeq(tr, 1, n)
      BY <2>1 DEF From, Unread
    <3> QED BY <3>1
  <2>2. CASE ~rewritten
    BY <2>2 DEF From, Unread
  <2> QED BY <2>1, <2>2
<1> HIDE DEF r, n, tr, u
<1>3. /\ u \in Seq(Lines) /\ DOMAIN u = 1 .. (n - r)
      /\ \A i \in 1 .. (n - r) : u[i] = tr[r + i]
  BY <1>1, <1>2 DEF n
<1>4. DOMAIN new = 1 .. (n - r) /\ \A i \in 1 .. (n - r) : new[i] = Parsed(tr[r + i])
  BY <1>3 DEF Events
<1>5. Events(tr) = ReadTo(tr, n)
  <2>1. DOMAIN tr = 1 .. n
    BY <1>1 DEF n
  <2> QED BY <2>1 DEF Events, ReadTo
<1>6. CASE ~(rewritten \/ agg = NoAgg)
  <2>1. heard = ReadTo(tr, r)
    BY <1>6 DEF SessionInv, ReadOK, From, Ready, r, tr
  <2>2. \A i \in 1 .. n : tr[i] \in Lines
    BY <1>1 DEF n
  <2>3. ReadTo(tr, r) \in Seq(EventSet) /\ Len(ReadTo(tr, r)) = r
    <3>1. \A i \in 1 .. r : Parsed(tr[i]) \in EventSet
      BY <1>1, <2>2 DEF EventSet
    <3> QED BY <1>1, <3>1 DEF ReadTo
  <2>4. new \in Seq(EventSet) /\ Len(new) = n - r
    <3>1. \A i \in 1 .. (n - r) : new[i] \in EventSet
      <4>1. \A i \in 1 .. (n - r) : r + i \in 1 .. n
        BY <1>1
      <4> HIDE DEF new
      <4> QED BY <1>4, <2>2, <4>1 DEF EventSet
    <3>2. n - r \in Nat
      BY <1>1
    <3>3. new = [i \in 1 .. (n - r) |-> new[i]]
      <4>1. new = [i \in DOMAIN new |-> new[i]]
        BY DEF Events
      <4> HIDE DEF new
      <4> QED BY <1>4, <4>1
    <3> HIDE DEF new
    <3> QED BY <3>1, <3>2, <3>3
  <2> DEFINE h == ReadTo(tr, r)
             g == ReadTo(tr, n)
  <2>5. \A i \in 1 .. r : h[i] = Parsed(tr[i])
    BY DEF ReadTo
  <2>6. DOMAIN g = 1 .. n /\ \A i \in 1 .. n : g[i] = Parsed(tr[i])
    BY DEF ReadTo
  <2>7. g = [i \in 1 .. n |-> g[i]]
    BY DEF ReadTo
  <2> HIDE DEF h, g, new
  <2>8. h \o new = g
    <3>1. h \o new \in Seq(EventSet) /\ Len(h \o new) = n
      <4>1. h \in Seq(EventSet) /\ Len(h) = r
        BY <2>3 DEF h
      <4> QED BY <1>1, <2>4, <4>1
    <3>2. \A i \in 1 .. n : (h \o new)[i] = g[i]
      <4> SUFFICES ASSUME NEW i \in 1 .. n PROVE (h \o new)[i] = g[i]
        OBVIOUS
      <4>1. h \in Seq(EventSet) /\ Len(h) = r
        BY <2>3 DEF h
      <4>2. CASE i <= r
        <5>1. i \in 1 .. r
          BY <1>1, <4>2
        <5>2. (h \o new)[i] = h[i]
          BY <2>4, <4>1, <5>1
        <5> QED BY <2>5, <2>6, <5>1, <5>2
      <4>3. CASE ~(i <= r)
        <5>1. i - r \in 1 .. (n - r) /\ r + (i - r) = i
          BY <1>1, <4>3
        <5>2. (h \o new)[i] = new[i - r]
          BY <1>1, <2>4, <4>1, <4>3
        <5>3. new[i - r] = Parsed(tr[r + (i - r)])
          BY <1>4, <5>1
        <5> QED BY <2>6, <5>1, <5>2, <5>3
      <4> QED BY <4>2, <4>3
    <3> DEFINE k == h \o new
    <3>3. k \in Seq(EventSet) /\ Len(k) = n /\ \A i \in 1 .. n : k[i] = g[i]
      BY <3>1, <3>2
    <3> HIDE DEF k
    <3>4. k = [i \in 1 .. n |-> k[i]]
      BY <3>3
    <3>5. k = g
      BY <2>7, <3>3, <3>4
    <3> QED BY <3>5 DEF k
  <2> QED BY <1>2, <1>4, <1>5, <1>6, <2>1, <2>8 DEF h, g, new, u, r, n, tr
<1>7. CASE rewritten \/ agg = NoAgg
  <2> HIDE DEF new
  <2> QED BY <1>2, <1>4, <1>5, <1>7 DEF new, u, r, n, tr
<1> QED BY <1>6, <1>7

\* What Read leaves in agg of what it was given.
LEMMA ReadGives ==
  ASSUME SessionInv, NEW a, Ready(a), Readable(a)
  PROVE  /\ Read(a) = Fields(Read(a)) /\ Read(a).known = a.known /\ Read(a).scanAt = a.scanAt
         /\ Read(a).read = Len(transcript)
         /\ Knows(ReadTo(transcript, Len(transcript)), Len(transcript), Base, Read(a))
         /\ Read(a).answered = a.answered
              \cup Answers(transcript, From(a), Len(transcript) - From(a))
         /\ LET Q == Quotas(transcript, From(a), Len(transcript) - From(a))
                told == IF Q = {} THEN a.limit
                        ELSE Parsed(transcript[From(a) + Latest(Q)]).quota
            IN Read(a).limit = IF Lapsed(told) THEN NoLimit ELSE told
<1> DEFINE tr == transcript
           n == Len(tr)
           r == From(a)
           s == Start(a)
           b == Base
           k == ReadInto(a)
           c == n - r
           Q == Quotas(tr, r, c)
           told == IF Q = {} THEN a.limit ELSE Parsed(tr[r + Latest(Q)]).quota
           z == Read(a)
<1>1. /\ s = Fields(s) /\ s.known = a.known /\ s.scanAt = a.scanAt /\ s.limit = a.limit
      /\ s.answered = a.answered /\ r \in Nat /\ r <= n /\ Knows(ReadTo(tr, r), r, b, s)
  BY StartKnows
<1>2. tr \in Seq(Lines) /\ n \in Nat /\ r + c = n
  <2>1. tr \in Seq(Lines) /\ n \in Nat
    BY DEF SessionInv, FileOK
  <2> HIDE DEF n, r
  <2> QED BY <1>1, <2>1
<1>3. k = Folded(s, SubSeq(tr, r + 1, n))
  BY HeardIs DEF ReadInto, Start, Folded
<1>4. z = [[k EXCEPT !.read = n] EXCEPT !.limit = IF Lapsed(@) THEN NoLimit ELSE @]
  BY DEF Read
<1> HIDE DEF s, r, b, k, z, tr
<1>5. HasRead(k, s, tr, r, c, b)
  BY <1>1, <1>2, <1>3, ReadAll
<1>6. /\ k = Fields(k) /\ k.known = s.known /\ k.scanAt = s.scanAt
      /\ Knows(ReadTo(tr, r + c), r + c, b, k) /\ k.answered = s.answered \cup Answers(tr, r, c)
      /\ k.limit = told
  BY <1>1, <1>5 DEF HasRead
<1> HIDE DEF c, n, Q, told
<1> DEFINE limit == IF Lapsed(k.limit) THEN NoLimit ELSE k.limit
<1>7. /\ z = [k EXCEPT !.read = n, !.limit = limit]
  BY <1>4, <1>6 DEF Fields
<1> HIDE DEF limit
<1>8. /\ z = Fields(z) /\ z.known = k.known /\ z.scanAt = k.scanAt /\ z.read = n
      /\ z.acc = k.acc /\ z.model = k.model /\ z.count = k.count /\ z.prompt = k.prompt
      /\ z.answered = k.answered /\ z.limit = limit
  BY <1>6, <1>7 DEF Fields
<1>9. Knows(ReadTo(tr, n), n, b, z)
  BY <1>2, <1>6, <1>8 DEF Knows
<1>10. z.limit = IF Lapsed(told) THEN NoLimit ELSE told
  BY <1>6, <1>8 DEF limit
<1> QED BY <1>1, <1>6, <1>8, <1>9, <1>10 DEF s, r, b, z, tr, n, c, Q, told

LEMMA ReadGivesNothing ==
  ASSUME SessionInv, NEW a, Ready(a), ~Readable(a)
  PROVE  /\ Read(a) = Fields(Read(a)) /\ Read(a).known = a.known /\ Read(a).scanAt = a.scanAt
         /\ Read(a).read = a.read /\ Read(a).answered = a.answered /\ Read(a).model = a.model
         /\ Read(a).acc = a.acc /\ Read(a).count = a.count /\ Read(a).prompt = a.prompt
         /\ Read(a).limit = IF Lapsed(a.limit) THEN NoLimit ELSE a.limit
<1> DEFINE limit == IF Lapsed(a.limit) THEN NoLimit ELSE a.limit
           z == Read(a)
<1>1. a = Fields(a)
  BY DEF Ready, AggOK
<1>2. z = [a EXCEPT !.limit = IF Lapsed(@) THEN NoLimit ELSE @]
  BY DEF Read
<1>3. z = [a EXCEPT !.limit = limit]
  BY <1>1, <1>2 DEF Fields
<1> HIDE DEF limit, z
<1>4. /\ z = Fields(z) /\ z.known = a.known /\ z.scanAt = a.scanAt
      /\ z.read = a.read /\ z.answered = a.answered /\ z.model = a.model
      /\ z.acc = a.acc /\ z.count = a.count /\ z.prompt = a.prompt /\ z.limit = limit
  BY <1>1, <1>3 DEF Fields
<1> QED BY <1>4 DEF z, limit

\* The session after a poll, shown or not.
PollEnds ==
  /\ agg' = Read(Found) /\ Heard(Found)
  /\ UNCHANGED <<now, present, transcript, born>>

LimitShown(a, last, t) ==
  a.limit # NoLimit <=> last # NoLimit /\ ~(last # NoLimit /\ last.resets # 0 /\ t > last.resets)

LEMMA PollKeeps ==
  ASSUME SessionInv, PollEnds
  PROVE  /\ SessionInv'
         /\ (present /\ now >= born + Rescan => agg'.known)
         /\ LimitShown(agg', lastLimit', now)
         /\ answers' \subseteq agg'.answered
         /\ (agg'.known /\ present =>
              /\ heard' = Events(transcript)
              /\ agg'.count = CountOf(heard') /\ agg'.prompt = PromptOf(heard'))
<1> DEFINE a == Found
           z == Read(a)
           tr == transcript
           n == Len(tr)
           new == Events(Unread(a))
           Q == {i \in DOMAIN new : new[i].quota # NoLimit}
<1>1. Ready(a)
  BY FoundIsReady
<1>2. agg' = z /\ now' = now /\ present' = present /\ transcript' = tr /\ born' = born
  BY DEF PollEnds
<1>3. /\ FileOK /\ HistoryOK /\ AggOK(a) /\ n \in Nat
      /\ (present /\ now >= born + Rescan => a.known)
  BY <1>1 DEF SessionInv, FileOK, Ready
<1>4. CASE Readable(a)
  <2> DEFINE r == From(a)
             c == n - r
             P == Quotas(tr, r, c)
             told == IF P = {} THEN a.limit ELSE Parsed(tr[r + Latest(P)]).quota
  <2>1. /\ z = Fields(z) /\ z.known = a.known /\ z.scanAt = a.scanAt /\ z.read = n
        /\ Knows(ReadTo(tr, n), n, Base, z) /\ z.answered = a.answered \cup Answers(tr, r, c)
        /\ z.limit = IF Lapsed(told) THEN NoLimit ELSE told
    BY <1>1, <1>4, ReadGives
  <2>2. /\ heard' = IF rewritten \/ agg = NoAgg THEN Events(tr) ELSE heard \o new
        /\ base' = Base /\ rewritten' = FALSE
        /\ lastLimit' = IF Q = {} THEN lastLimit ELSE new[Latest(Q)].quota
        /\ answers' = answers \cup UNION {new[i].results : i \in DOMAIN new}
    BY <1>4 DEF PollEnds, Heard, Base, Latest
  <2>3. /\ DOMAIN new = 1 .. c /\ \A i \in 1 .. c : new[i] = Parsed(tr[r + i])
        /\ Events(tr) = ReadTo(tr, n) /\ heard' = ReadTo(tr, n)
    BY <1>1, <2>2, HeardIs
  <2>4. r \in Nat /\ r <= n /\ Base \in Models \cup {NoModel} /\ tr \in Seq(Lines)
    BY <1>1, <1>3, StartKnows DEF FileOK
  <2> HIDE DEF a, z, new, n, r, tr
  <2>5. Q = P /\ Q \in SUBSET (1 .. c) /\ c \in Nat
    BY <1>3, <2>3, <2>4 DEF Quotas
  <2>6. UNION {new[i].results : i \in DOMAIN new} = Answers(tr, r, c)
    BY <2>3 DEF Answers
  <2>7. answers' \subseteq z.answered
    BY <1>3, <2>1, <2>2, <2>6 DEF AggOK
  <2>8. Q # {} => Latest(Q) \in 1 .. c /\ lastLimit' = Parsed(tr[r + Latest(Q)]).quota
                  /\ IsEvent(Parsed(tr[r + Latest(Q)])) /\ lastLimit' # NoLimit
    <3> SUFFICES ASSUME Q # {}
                 PROVE Latest(Q) \in 1 .. c /\ lastLimit' = Parsed(tr[r + Latest(Q)]).quota
                       /\ IsEvent(Parsed(tr[r + Latest(Q)])) /\ lastLimit' # NoLimit
      OBVIOUS
    <3> DEFINE l == Latest(Q)
    <3>1. l \in Q
      <4> HIDE DEF Q, c
      <4> QED BY <2>5, LatestIs
    <3>2. l \in 1 .. c /\ new[l].quota # NoLimit /\ lastLimit' = new[l].quota
      BY <2>2, <2>5, <3>1
    <3> HIDE DEF l, Q
    <3>3. r + l \in 1 .. n /\ l \in 1 .. c
      BY <1>3, <2>4, <3>2
    <3>4. tr[r + l] \in Lines
      BY <2>4, <3>3 DEF n
    <3>5. IsEvent(Parsed(tr[r + l]))
      BY <3>4, EventIs DEF EventSet
    <3>6. new[l] = Parsed(tr[r + l])
      BY <2>3, <3>3
    <3> QED BY <3>2, <3>3, <3>5, <3>6 DEF l
  <2> HIDE DEF Q, c, P
  <2>9. (told = lastLimit' \/ (told = NoLimit /\ Lapsed(lastLimit')))
        /\ (lastLimit' # NoLimit => lastLimit'.resets \in Nat)
    <3>1. CASE Q = {}
      <4>1. told = a.limit /\ lastLimit' = lastLimit
        BY <2>2, <2>5, <3>1
      <4> QED BY <1>3, <4>1 DEF AggOK, LimitOK, HistoryOK
    <3>2. CASE Q # {}
      BY <2>5, <2>8, <3>2 DEF IsEvent
    <3> QED BY <3>1, <3>2
  <2> HIDE DEF told
  <2>10. /\ z.limit = lastLimit' \/ (z.limit = NoLimit /\ Lapsed(lastLimit'))
         /\ (z.limit # NoLimit <=> lastLimit' # NoLimit /\ ~Lapsed(lastLimit'))
    BY <2>1, <2>9 DEF Lapsed
  <2>11. LimitShown(z, lastLimit', now)
    BY <2>10 DEF LimitShown, Lapsed
  <2>12. FileOK'
    BY <1>2, <1>3, <2>2 DEF FileOK, tr
  <2>13. z # NoAgg
    BY <2>1, NoAggIs
  <2>14. HistoryOK'
    BY <1>2, <2>2, <2>4, <2>9, <2>13 DEF HistoryOK
  <2>15. AggOK(agg)'
    <3>1. LimitOK(agg)'
      BY <1>2, <2>10 DEF LimitOK, Lapsed
    <3>2. ~agg'.known => Sought(agg)'
      BY <1>2, <1>3, <2>1 DEF AggOK, Sought
    <3>3. z.model \in Models \cup {NoModel}
      BY <2>1 DEF Knows
    <3> QED BY <1>2, <2>1, <2>7, <3>1, <3>2, <3>3 DEF AggOK
  <2>16. ReadOK'
    <3>1. n \in 0 .. n
      BY <1>3
    <3> QED BY <1>2, <2>1, <2>2, <2>3, <3>1 DEF ReadOK, n, tr
  <2>17. SessionInv'
    BY <2>12, <2>14, <2>15, <2>16 DEF SessionInv
  <2>18. heard' = Events(tr) /\ agg'.count = CountOf(heard') /\ agg'.prompt = PromptOf(heard')
    BY <1>2, <2>1, <2>3 DEF Knows
  <2> QED BY <1>2, <1>3, <2>1, <2>7, <2>11, <2>17, <2>18 DEF tr
<1>5. CASE ~Readable(a)
  <2>1. /\ z = Fields(z) /\ z.known = a.known /\ z.scanAt = a.scanAt
        /\ z.read = a.read /\ z.answered = a.answered /\ z.model = a.model
        /\ z.acc = a.acc /\ z.count = a.count /\ z.prompt = a.prompt
        /\ z.limit = IF Lapsed(a.limit) THEN NoLimit ELSE a.limit
    BY <1>1, <1>5, ReadGivesNothing
  <2>2. /\ heard' = heard /\ base' = base /\ lastLimit' = lastLimit /\ answers' = answers
        /\ rewritten' = rewritten
    BY <1>5 DEF PollEnds, Heard, history
  <2>3. ~(a.known /\ present)
    BY <1>5 DEF Readable
  <2>4. Ready(a)
    BY <1>1
  <2> HIDE DEF a, z, new, n, tr
  <2>5. /\ z.limit = lastLimit \/ (z.limit = NoLimit /\ Lapsed(lastLimit))
        /\ (z.limit # NoLimit <=> lastLimit # NoLimit /\ ~Lapsed(lastLimit))
    BY <1>3, <2>1 DEF AggOK, LimitOK, Lapsed
  <2>6. LimitShown(z, lastLimit', now)
    BY <2>2, <2>5 DEF LimitShown, Lapsed
  <2>7. z # NoAgg
    BY <2>1, NoAggIs
  <2>8. FileOK'
    BY <1>2, <1>3, <2>2 DEF FileOK, tr
  <2>9. HistoryOK'
    BY <1>2, <1>3, <2>2, <2>7 DEF HistoryOK
  <2>10. AggOK(agg)'
    <3>1. LimitOK(agg)'
      BY <1>2, <2>2, <2>5 DEF LimitOK, Lapsed
    <3>2. ~agg'.known => Sought(agg)'
      BY <1>2, <1>3, <2>1 DEF AggOK, Sought
    <3> QED BY <1>2, <1>3, <2>1, <2>2, <3>1, <3>2 DEF AggOK
  <2>11. ~rewritten => ReadOK'
    <3> SUFFICES ASSUME ~rewritten PROVE ReadOK'
      OBVIOUS
    <3>1. CASE agg # NoAgg
      <4>1. ReadOK
        BY <3>1 DEF SessionInv
      <4>2. z.read = agg.read /\ z.acc = agg.acc /\ z.model = agg.model
            /\ z.count = agg.count /\ z.prompt = agg.prompt
        BY <2>1, <2>4, <3>1 DEF Ready
      <4> QED BY <1>2, <2>2, <4>1, <4>2 DEF ReadOK, Knows, tr
    <3>2. CASE agg = NoAgg
      <4>1. heard = <<>> /\ base = NoModel
        BY <1>3, <3>2 DEF HistoryOK
      <4>2. z.read = 0 /\ z.acc = NoUsage /\ z.model = NoModel /\ z.count = 0 /\ z.prompt = 0
        BY <2>1, <2>4, <3>2 DEF Ready
      <4> DEFINE h == ReadTo(tr, 0)
      <4>3. h = <<>> /\ DOMAIN h = 1 .. 0
        BY DEF ReadTo
      <4> HIDE DEF h
      <4>4. Knows(h, 0, NoModel, z)
        BY <4>2, <4>3, KnowsNothing
      <4>5. 0 \in 0 .. n
        BY <1>3
      <4> QED BY <1>2, <2>2, <4>1, <4>2, <4>3, <4>4, <4>5 DEF ReadOK, h, n, tr
    <3> QED BY <3>1, <3>2
  <2>12. SessionInv'
    BY <2>2, <2>8, <2>9, <2>10, <2>11 DEF SessionInv
  <2> QED BY <1>2, <1>3, <2>1, <2>2, <2>3, <2>6, <2>12 DEF AggOK
<1> QED BY <1>4, <1>5

-----------------------------------------------------------------------------
(***************************************************************************)
(* The invariant.                                                          *)
(***************************************************************************)
LEMMA InitKeeps == ASSUME Init PROVE SessionInv
<1>1. transcript = <<>> /\ Len(transcript) = 0 /\ transcript \in Seq(Lines)
  BY DEF Init
<1>2. \A i \in 1 .. Len(transcript) : Time(transcript[i].ts) <= now
  <2>1. 1 .. Len(transcript) = {}
    BY <1>1
  <2> QED BY <2>1
<1>3. FileOK
  <2>1. now \in Nat /\ born \in Nat /\ born <= now
    BY DEF Init
  <2>2. present \in BOOLEAN /\ rewritten \in BOOLEAN
    BY DEF Init
  <2> QED BY <1>1, <1>2, <2>1, <2>2 DEF FileOK
<1> QED BY <1>3 DEF Init, SessionInv, HistoryOK

LEMMA LineAt ==
  ASSUME NEW row \in Rows, NEW age \in Ages, now \in Nat
  PROVE  At(row, age) \in Lines /\ Time(At(row, age).ts) <= now
<1> DEFINE ts == IF age < now THEN now - age ELSE NoTime
           quota == IF row.quota = NoLimit \/ row.quota.resets = NoTime THEN row.quota
                    ELSE [row.quota EXCEPT !.resets = now + @]
           line == At(row, age)
<1>1. line = Line(row, ts, now)
  BY DEF At, Line
<1>2. age \in Nat
  BY TimesAssumption
<1>3. ts \in Nat \cup {NoTime} /\ Time(ts) <= now
  BY <1>2 DEF Time
<1>4. line = [row EXCEPT !.ts = ts, !.quota = quota]
  BY DEF At
<1>5. "ts" \in DOMAIN row
  BY RowsAssumption DEF IsRecord
<1> HIDE DEF ts, quota, line
<1>6. line.ts = ts
  BY <1>4, <1>5
<1> QED BY <1>1, <1>3, <1>6 DEF Lines, line

LEMMA SessionIsKept == ASSUME SessionInv, [Next]_vars PROVE SessionInv'
<1>1. FileOK /\ HistoryOK /\ (agg # NoAgg => AggOK(agg)) /\ (agg # NoAgg /\ ~rewritten => ReadOK)
  BY DEF SessionInv
<1>2. now \in Nat /\ born \in Nat /\ born <= now /\ Len(transcript) \in Nat /\ Rescan \in Nat
      /\ transcript \in Seq(Lines)
  BY <1>1, TimesAssumption DEF FileOK
<1>3. CASE Tick
  <2>1. now' = now + 1 /\ UNCHANGED <<file, listed, agg, shown, history>>
    BY <1>3 DEF Tick
  <2>2. FileOK'
    <3>1. \A i \in 1 .. Len(transcript) : Time(transcript[i].ts) <= now + 1
      <4> SUFFICES ASSUME NEW i \in 1 .. Len(transcript) PROVE Time(transcript[i].ts) <= now + 1
        OBVIOUS
      <4> DEFINE e == Parsed(transcript[i])
                 t == Time(transcript[i].ts)
      <4>1. transcript[i] \in Lines
        BY <1>2
      <4>2. IsEvent(e)
        BY <4>1, EventIs DEF EventSet
      <4>3. e.ts = t
        BY DEF Parsed
      <4>4. t \in Nat
        <5> HIDE DEF e, t
        <5> QED BY <4>2, <4>3 DEF IsEvent
      <4>5. t <= now
        BY <1>1 DEF FileOK
      <4> HIDE DEF t
      <4>6. t <= now + 1
        BY <1>2, <4>4, <4>5
      <4> QED BY <4>6 DEF t
    <3> QED BY <1>1, <1>2, <2>1, <3>1 DEF FileOK, file
  <2>3. HistoryOK'
    BY <1>1, <2>1 DEF HistoryOK, history
  <2>4. agg # NoAgg => AggOK(agg)'
    <3>1. ASSUME LimitOK(agg) PROVE LimitOK(agg)'
      BY <1>1, <1>2, <2>1, <3>1 DEF LimitOK, Lapsed, HistoryOK, history
    <3>2. ASSUME Sought(agg) PROVE Sought(agg)'
      BY <1>2, <2>1, <3>2 DEF Sought, file
    <3> QED BY <1>1, <2>1, <3>1, <3>2 DEF AggOK, history
  <2>5. agg # NoAgg /\ ~rewritten => ReadOK'
    BY <1>1, <2>1 DEF ReadOK, file, history
  <2> QED BY <2>1, <2>2, <2>3, <2>4, <2>5 DEF SessionInv, file
<1>4. CASE Write
  <2>1. PICK row \in Rows, age \in Ages : transcript' = Append(transcript, At(row, age))
    BY <1>4 DEF Write
  <2>2. UNCHANGED <<now, present, born, rewritten, rewrites, listed, agg, shown, history>>
    BY <1>4 DEF Write
  <2> DEFINE line == At(row, age)
  <2>3. line \in Lines /\ Time(line.ts) <= now
    BY <1>2, LineAt
  <2> HIDE DEF line
  <2>4. transcript' = Append(transcript, line)
    BY <2>1 DEF line
  <2>5. /\ transcript' \in Seq(Lines) /\ Len(transcript') = Len(transcript) + 1
        /\ \A i \in 1 .. Len(transcript) : transcript'[i] = transcript[i]
        /\ transcript'[Len(transcript) + 1] = line
    BY <1>2, <2>3, <2>4
  <2>6. FileOK'
    <3>1. \A i \in 1 .. Len(transcript) + 1 :
            i \in 1 .. Len(transcript) \/ i = Len(transcript) + 1
      BY <1>2
    <3>2. \A i \in 1 .. Len(transcript') : Time(transcript'[i].ts) <= now
      BY <1>1, <2>3, <2>5, <3>1 DEF FileOK
    <3> QED BY <1>1, <2>2, <2>5, <3>2 DEF FileOK
  <2>7. HistoryOK'
    BY <1>1, <2>2 DEF HistoryOK, history
  <2>8. agg # NoAgg => AggOK(agg)'
    BY <1>1, <2>2 DEF AggOK, LimitOK, Lapsed, Sought, history
  <2>9. agg # NoAgg /\ ~rewritten => ReadOK'
    <3> SUFFICES ASSUME ReadOK PROVE ReadOK'
      BY <1>1
    <3> DEFINE r == agg.read
    <3>1. r \in 0 .. Len(transcript)
      BY DEF ReadOK
    <3> HIDE DEF r
    <3>2. \A i \in 1 .. r : transcript'[i] = transcript[i]
      BY <1>2, <2>5, <3>1
    <3>3. ReadTo(transcript', r) = ReadTo(transcript, r)
      BY <3>2 DEF ReadTo
    <3>4. r \in 0 .. Len(transcript')
      BY <1>2, <2>5, <3>1
    <3> QED BY <2>2, <3>3, <3>4 DEF ReadOK, history, r
  <2> QED BY <2>2, <2>6, <2>7, <2>8, <2>9 DEF SessionInv
<1>5. CASE Compact
  <2>1. PICK i \in 1 .. Len(transcript) : transcript' = SubSeq(transcript, i + 1, Len(transcript))
    BY <1>5 DEF Compact
  <2>2. rewritten' = TRUE /\ UNCHANGED <<now, present, born, written, listed, agg, shown, history>>
    BY <1>5 DEF Compact
  <2>3. /\ transcript' \in Seq(Lines) /\ Len(transcript') = Len(transcript) - i
        /\ \A j \in 1 .. Len(transcript) - i : transcript'[j] = transcript[i + j]
    BY <1>2, <2>1
  <2>4. \A j \in 1 .. Len(transcript) - i : i + j \in 1 .. Len(transcript)
    BY <1>2
  <2>5. \A j \in 1 .. Len(transcript') : Time(transcript'[j].ts) <= now
    BY <1>1, <2>3, <2>4 DEF FileOK
  <2>6. FileOK'
    BY <1>1, <2>2, <2>3, <2>5 DEF FileOK
  <2> QED BY <1>1, <2>2, <2>6
          DEF SessionInv, HistoryOK, AggOK, LimitOK, Lapsed, Sought, history
<1>6. CASE RemoveTranscript
  <2>1. /\ present /\ present' = FALSE /\ transcript' = <<>> /\ rewritten' = TRUE
        /\ UNCHANGED <<now, born, written, listed, agg, shown, history>>
    BY <1>6 DEF RemoveTranscript
  <2>2. FileOK'
    <3>1. transcript' \in Seq(Lines) /\ 1 .. Len(transcript') = {}
      BY <2>1
    <3>2. \A i \in 1 .. Len(transcript') : Time(transcript'[i].ts) <= now
      BY <3>1
    <3> QED BY <1>1, <2>1, <3>1, <3>2 DEF FileOK
  <2>3. ASSUME Sought(agg) PROVE Sought(agg)'
    BY <1>2, <2>1, <2>3 DEF Sought
  <2>4. agg # NoAgg => AggOK(agg)'
    BY <1>1, <2>1, <2>3 DEF AggOK, LimitOK, Lapsed, history
  <2> QED BY <1>1, <2>1, <2>2, <2>4 DEF SessionInv, HistoryOK, history
<1>7. CASE MakeTranscript
  <2>1. /\ ~present /\ present' = TRUE /\ born' = now
        /\ UNCHANGED <<now, transcript, rewritten, written, rewrites, listed, agg, shown, history>>
    BY <1>7 DEF MakeTranscript
  <2>2. FileOK'
    BY <1>1, <1>2, <2>1 DEF FileOK
  <2>3. ASSUME Sought(agg) PROVE Sought(agg)'
    BY <1>2, <2>1, <2>3 DEF Sought
  <2>4. agg # NoAgg => AggOK(agg)'
    BY <1>1, <2>1, <2>3 DEF AggOK, LimitOK, Lapsed, history
  <2> QED BY <1>1, <2>1, <2>2, <2>4 DEF SessionInv, HistoryOK, ReadOK, history
<1>8. CASE PollFailsToRead
  <2>1. agg' = Found /\ UNCHANGED <<now, file, listed, shown, history>>
    BY <1>8 DEF PollFailsToRead
  <2> DEFINE a == Found
  <2>2. Ready(a)
    BY FoundIsReady
  <2> HIDE DEF a
  <2>3. agg' = a /\ a = Fields(a) /\ AggOK(a)
    BY <2>1, <2>2 DEF Ready, AggOK, a
  <2>4. a # NoAgg
    BY <2>3, NoAggIs
  <2>5. FileOK'
    BY <1>1, <2>1 DEF FileOK, file
  <2>6. HistoryOK'
    BY <1>1, <2>1, <2>3, <2>4 DEF HistoryOK, history
  <2>7. AggOK(agg)'
    BY <2>1, <2>3 DEF AggOK, LimitOK, Lapsed, Sought, history, file
  <2>8. ~rewritten => ReadOK'
    <3> SUFFICES ASSUME ~rewritten PROVE ReadOK'
      OBVIOUS
    <3>1. CASE agg # NoAgg
      <4>1. ReadOK
        BY <1>1, <3>1
      <4>2. a.read = agg.read /\ a.acc = agg.acc /\ a.model = agg.model
            /\ a.count = agg.count /\ a.prompt = agg.prompt
        BY <2>2, <3>1 DEF Ready
      <4> QED BY <2>1, <2>3, <4>1, <4>2 DEF ReadOK, Knows, file, history
    <3>2. CASE agg = NoAgg
      <4>1. heard = <<>> /\ base = NoModel
        BY <1>1, <3>2 DEF HistoryOK
      <4>2. a.read = 0 /\ a.acc = NoUsage /\ a.model = NoModel /\ a.count = 0 /\ a.prompt = 0
        BY <2>2, <3>2 DEF Ready
      <4> DEFINE h == ReadTo(transcript, 0)
      <4>3. h = <<>> /\ DOMAIN h = 1 .. 0
        BY DEF ReadTo
      <4> HIDE DEF h
      <4>4. Knows(h, 0, NoModel, a)
        BY <4>2, <4>3, KnowsNothing
      <4>5. 0 \in 0 .. Len(transcript)
        BY <1>2
      <4> QED BY <2>1, <2>3, <4>1, <4>2, <4>3, <4>4, <4>5 DEF ReadOK, h, file, history
    <3> QED BY <3>1, <3>2
  <2> QED BY <2>1, <2>5, <2>6, <2>7, <2>8 DEF SessionInv, file
<1>9. CASE PollFailsLater \/ Poll
  <2>1. PollEnds
    BY <1>9 DEF PollFailsLater, Poll, PollEnds
  <2> QED BY <2>1, PollKeeps
<1>10. CASE PollWithoutIt
  <2>1. /\ agg' = NoAgg /\ heard' = <<>> /\ base' = NoModel /\ lastLimit' = NoLimit
        /\ answers' = {} /\ rewritten' = FALSE
        /\ UNCHANGED <<now, present, transcript, born>>
    BY <1>10 DEF PollWithoutIt
  <2> QED BY <1>1, <2>1 DEF SessionInv, FileOK, HistoryOK
<1>11. CASE ToggleListed \/ UNCHANGED vars
  <2>1. UNCHANGED <<now, file, agg, history>>
    BY <1>11 DEF ToggleListed, vars
  <2> QED BY <1>1, <2>1
          DEF SessionInv, FileOK, HistoryOK, AggOK, LimitOK, Lapsed, Sought, ReadOK, file, history
<1> QED BY <1>3, <1>4, <1>5, <1>6, <1>7, <1>8, <1>9, <1>10, <1>11 DEF Next

\* The inductive invariant: what is accumulated is what was heard of the rows
\* read since the last reset (source.go:203-292).
THEOREM SessionKnowsWhatItRead == Spec => []SessionInv
<1> QED BY InitKeeps, SessionIsKept, PTL DEF Spec

-----------------------------------------------------------------------------
(***************************************************************************)
(* What the session is told.                                               *)
(***************************************************************************)
LEMMA AllReadIs ==
  ASSUME SessionInv, AllRead
  PROVE  /\ Len(transcript) \in Nat /\ now \in Nat
         /\ heard = ReadTo(transcript, Len(transcript)) /\ IsHeard(heard, Len(transcript))
         /\ Knows(heard, Len(transcript), base, agg)
         /\ \A i \in DOMAIN heard : heard[i].ts <= now
<1> DEFINE n == Len(transcript)
<1>1. transcript \in Seq(Lines) /\ n \in Nat /\ now \in Nat
  BY DEF SessionInv, FileOK
<1>2. heard = ReadTo(transcript, n) /\ Knows(heard, n, base, agg)
  BY DEF SessionInv, AllRead, ReadOK
<1>3. IsHeard(heard, n)
  <2>1. n \in 0 .. Len(transcript)
    BY <1>1
  <2> HIDE DEF n
  <2> QED BY <1>1, <1>2, <2>1, ReadToIs
<1>4. \A i \in 1 .. n : heard[i].ts = Time(transcript[i].ts)
  BY <1>2 DEF ReadTo, Parsed
<1>5. DOMAIN heard = 1 .. n
  BY <1>2 DEF ReadTo
<1> QED BY <1>1, <1>2, <1>3, <1>4, <1>5 DEF SessionInv, FileOK

\* Each message is seen with what its deciding row says.
LEMMA WhatIsSeen ==
  ASSUME SessionInv, AllRead, NEW seen, seen = agg.acc.seen
  PROVE  /\ AccOK(agg.acc) /\ Told = DOMAIN seen /\ agg.model \in Models \cup {NoModel}
         /\ \A m \in Told : /\ seen[m].usage = heard[Deciding(m)].use
                           /\ seen[m].model = ModelAt(Deciding(m))
<1> DEFINE n == Len(transcript)
<1>1. /\ n \in Nat /\ DOMAIN heard = 1 .. n /\ AccOK(agg.acc) /\ SeenOK(heard, base, seen)
      /\ agg.model \in Models \cup {NoModel}
  BY AllReadIs DEF Knows, IsHeard
<1>2. Told = ToldIn(heard) /\ Told = DOMAIN seen
  BY <1>1 DEF Told, ToldIn, Uses, SeenOK
<1>3. \A m : RowsOf(m) = RowsIn(heard, m)
  BY DEF RowsOf, RowsIn, Uses
<1>4. \A i : ModelAt(i) = ModelIn(heard, base, i)
  BY DEF ModelAt, ModelIn, NamedIn
<1> HIDE DEF n
<1>5. ASSUME NEW m \in Told
      PROVE  /\ seen[m].usage = heard[Deciding(m)].use
             /\ seen[m].model = ModelAt(Deciding(m))
  <2>1. PICK i : /\ Decides(heard, m, i)
                 /\ seen[m] = [usage |-> heard[i].use, model |-> ModelIn(heard, base, i)]
    BY <1>1, <1>2 DEF SeenOK
  <2>2. \A j : Decides(heard, m, j) => j = i
    BY <1>1, <2>1, DecidesOnce
  <2>3. Deciding(m) = CHOOSE j \in RowsIn(heard, m) : Decides(heard, m, j)
    BY <1>3 DEF Deciding, Decides
  <2>4. i \in RowsIn(heard, m)
    BY <2>1 DEF Decides
  <2>5. Deciding(m) = i
    BY <2>1, <2>2, <2>3, <2>4
  <2>6. seen[m].usage = heard[i].use /\ seen[m].model = ModelIn(heard, base, i)
    BY <2>1
  <2> QED BY <1>4, <2>5, <2>6
<1> QED BY <1>1, <1>2, <1>5

LEMMA EachMessage == ASSUME SessionInv PROVE EachMessageOnce
<1> SUFFICES ASSUME AllRead PROVE EachMessageOnce
  BY DEF EachMessageOnce
<1> DEFINE seen == agg.acc.seen
           last == [m \in Told |-> Deciding(m)]
           final == [m \in Told |-> heard[last[m]].use]
           own == [m \in Told |-> <<ModelAt(last[m]), PromptK(final[m].in)>>]
<1>1. AccOK(agg.acc)
  BY WhatIsSeen
<1>2. Told = DOMAIN seen
  BY WhatIsSeen
<1>3. \A m \in Told : /\ seen[m].usage = heard[Deciding(m)].use
                     /\ seen[m].model = ModelAt(Deciding(m))
  BY WhatIsSeen
<1>4. final = UsedIn(seen)
  <2>1. ASSUME NEW m \in Told PROVE final[m] = seen[m].usage
    <3>1. last[m] = Deciding(m) /\ final[m] = heard[last[m]].use
      OBVIOUS
    <3> HIDE DEF last, final, seen
    <3>2. seen[m].usage = heard[Deciding(m)].use
      BY <1>3
    <3> QED BY <3>1, <3>2
  <2>2. UsedIn(seen) = [m \in Told |-> seen[m].usage]
    BY <1>2 DEF UsedIn
  <2>3. final = [m \in Told |-> final[m]]
    OBVIOUS
  <2> HIDE DEF final, seen
  <2> QED BY <2>1, <2>2, <2>3
<1>5. \A b : {m \in Told : own[m] = b} = InBucket(seen, b)
  <2>1. ASSUME NEW m \in Told PROVE own[m] = FiledIn(seen[m])
    <3>1. /\ last[m] = Deciding(m) /\ final[m] = heard[last[m]].use
          /\ own[m] = <<ModelAt(last[m]), PromptK(final[m].in)>>
      OBVIOUS
    <3> HIDE DEF last, final, own, seen
    <3>2. seen[m].usage = heard[Deciding(m)].use /\ seen[m].model = ModelAt(Deciding(m))
      BY <1>3
    <3> QED BY <3>1, <3>2 DEF FiledIn
  <2> HIDE DEF own, seen
  <2> QED BY <1>2, <2>1 DEF InBucket
<1>6. /\ agg.acc.usage = Total(UsedIn(seen), Told)
      /\ \A b \in Bucket : agg.acc.ledger[b] = Total(UsedIn(seen), InBucket(seen, b))
  BY <1>1, <1>2 DEF AccOK
<1>7. /\ agg.acc.usage = Total(final, Told)
      /\ \A b \in Bucket : agg.acc.ledger[b] = Total(final, {m \in Told : own[m] = b})
  <2> HIDE DEF final, own, seen
  <2> QED BY <1>4, <1>5, <1>6
<1> QED BY <1>7 DEF EachMessageOnce

LEMMA RateIs == ASSUME SessionInv PROVE RateIsTheLastMinute
<1> SUFFICES ASSUME AllRead PROVE RateIsTheLastMinute
  BY DEF RateIsTheLastMinute
<1> DEFINE w == agg.acc.window
           n == Len(transcript)
           c == now - Span
           added == [i \in DOMAIN heard |->
                       IF ~Uses(i) THEN Zero
                       ELSE IF {j \in RowsOf(heard[i].id) : j < i} = {} THEN heard[i].use
                       ELSE Minus(heard[i].use,
                                  heard[Latest({j \in RowsOf(heard[i].id) : j < i})].use)]
           recent == {i \in DOMAIN heard : heard[i].ts > now - Span /\ heard[i].ts > 0}
<1>1. now \in Nat /\ WindowOK(heard, w) /\ \A i \in DOMAIN heard : heard[i].ts <= now
  BY AllReadIs DEF Knows
<1>2. Span \in Nat \ {0}
  BY SpanAssumption
<1>3. w.latest \in Nat /\ w.latest <= now /\ DOMAIN w.at \subseteq (w.latest - Span) .. w.latest
  BY <1>1 DEF WindowOK
<1>4. added = AddedIn(heard)
  BY DEF AddedIn, Prior, RowsOf, RowsIn, Uses
<1>5. recent = After(heard, c)
  BY DEF After
<1> HIDE DEF added, recent
<1>6. {s \in DOMAIN w.at : s > now - Span /\ s <= now} = KeptAfter(w.at, c)
  <2> DEFINE l == w.latest
             D == DOMAIN w.at
  <2>1. l \in Nat /\ l <= now /\ D \subseteq (l - Span) .. l
    BY <1>3
  <2> HIDE DEF D, l
  <2>2. \A s \in D : s \in Int /\ s <= now
    BY <1>1, <1>2, <2>1
  <2> QED BY <2>2 DEF KeptAfter, D
<1>7. c \in Int /\ c >= w.latest - Span - 1
  <2> DEFINE l == w.latest
  <2>1. l \in Nat /\ l <= now
    BY <1>3
  <2> HIDE DEF l
  <2>2. c \in Int /\ c >= l - Span - 1
    BY <1>1, <1>2, <2>1
  <2> QED BY <2>2 DEF l
<1>8. Total(w.at, KeptAfter(w.at, c)) = Total(AddedIn(heard), After(heard, c))
  BY <1>1, <1>7 DEF WindowOK
<1>9. Rate(w, now) = NonNegative(Total(added, recent))
  <2> HIDE DEF w
  <2> QED BY <1>4, <1>5, <1>6, <1>8 DEF Rate
<1>10. Cardinality(DOMAIN w.at) <= Span + 1
  <2> DEFINE l == w.latest
             D == DOMAIN w.at
             p == l - Span
             I == p .. l
  <2>1. D \in SUBSET I /\ l \in Int /\ p \in Int /\ p <= l
    BY <1>2, <1>3
  <2>2. Span + 1 = l - p + 1 /\ p <= l
    BY <1>2, <1>3
  <2> HIDE DEF D, l, p
  <2>3. IsFiniteSet(I) /\ Cardinality(I) = l - p + 1
    BY <2>1, FS_Interval
  <2>4. IsFiniteSet(D) /\ Cardinality(D) <= Cardinality(I)
    <3> HIDE DEF I
    <3> QED BY <2>1, <2>3, FS_Subset
  <2>5. Cardinality(D) <= Span + 1
    BY <2>2, <2>3, <2>4
  <2> QED BY <2>5 DEF D
<1> QED BY <1>9, <1>10 DEF RateIsTheLastMinute, added, recent

\* However rows repeat, revise and change model or tier, over compactions and
\* failed polls, each message counts once, in its own bucket (usage.go:46-100,
\* source.go:211-221).
THEOREM MessagesCountOnce == Spec => []EachMessageOnce
<1> QED BY SessionKnowsWhatItRead, EachMessage, PTL

\* The rate is what the last Span seconds added, however the times of the rows
\* are ordered, and the window stays small (window.go:18-61).
THEOREM RateFollowsTheRows == Spec => []RateIsTheLastMinute
<1> QED BY SessionKnowsWhatItRead, RateIs, PTL

LEMMA ShownBy ==
  ASSUME [Next]_vars, shown' # shown, shown' # NoSession
  PROVE  Poll
BY DEF Next, vars, Tick, Write, Compact, RemoveTranscript, MakeTranscript, ToggleListed,
       PollFailsToRead, PollFailsLater, PollWithoutIt

LEMMA PollIs ==
  ASSUME SessionInv, Poll
  PROVE  PollEnds /\ shown'.limited = (agg'.limit # NoLimit)
BY DEF Poll, PollEnds, Session

\* A limit is shown exactly while the last one told is in force, and an answered
\* call stays answered, though the rows that told are compacted away
\* (source.go:75-90, 277-292).
THEOREM FactsAreKept == Spec => FactsOutliveCompaction
<1>1. ASSUME SessionInv, [Next]_vars
      PROVE  [shown' # shown /\ shown' # NoSession
               => /\ (shown.limited <=> lastLimit # NoLimit /\ ~Lapsed(lastLimit))'
                  /\ answers' \subseteq agg'.answered]_vars
  <2> SUFFICES ASSUME shown' # shown, shown' # NoSession
               PROVE  /\ (shown.limited <=> lastLimit # NoLimit /\ ~Lapsed(lastLimit))'
                      /\ answers' \subseteq agg'.answered
    OBVIOUS
  <2>1. Poll
    BY <1>1, ShownBy
  <2>2. PollEnds /\ shown'.limited = (agg'.limit # NoLimit)
    BY <1>1, <2>1, PollIs
  <2>3. LimitShown(agg', lastLimit', now) /\ answers' \subseteq agg'.answered
    BY <1>1, <2>2, PollKeeps
  <2>4. now' = now
    BY <2>2 DEF PollEnds
  <2> QED BY <2>2, <2>3, <2>4 DEF LimitShown, Lapsed
<1> QED BY <1>1, SessionKnowsWhatItRead, PTL DEF Spec, FactsOutliveCompaction

\* A poll that returns the session has applied every row of the transcript
\* exactly once, what a failed poll read included (source.go:156-163, 203-298).
THEOREM RowsAreReadOnce == Spec => EveryRowOnce
<1>1. ASSUME SessionInv, [Next]_vars
      PROVE  [shown' # shown /\ shown' # NoSession /\ agg'.known /\ present'
               => LET asks == {i \in DOMAIN heard' : heard'[i].use \notin {NoUse, Zero}}
                  IN /\ heard' = Events(transcript)
                     /\ agg'.count = FoldSeq(LAMBDA row, n : n + Len(row.tools), 0, heard')
                     /\ agg'.prompt = IF asks = {} THEN 0 ELSE heard'[Latest(asks)].use.in]_vars
  <2> SUFFICES ASSUME shown' # shown, shown' # NoSession, agg'.known, present'
               PROVE  /\ heard' = Events(transcript)
                      /\ agg'.count = CountOf(heard') /\ agg'.prompt = PromptOf(heard')
    BY DEF CountOf, PromptOf, Asks
  <2>1. Poll
    BY <1>1, ShownBy
  <2>2. PollEnds /\ present' = present
    BY <1>1, <2>1, PollIs DEF PollEnds
  <2> QED BY <1>1, <2>2, PollKeeps
<1> QED BY <1>1, SessionKnowsWhatItRead, PTL DEF Spec, EveryRowOnce

\* A transcript that appears late is read within the rescan interval
\* (source.go:193-199).
THEOREM LateTranscriptIsRead == Spec => FoundInTime
<1>1. ASSUME SessionInv, [Next]_vars
      PROVE  [shown' # shown /\ shown' # NoSession /\ present /\ now >= born + Rescan
               => agg'.known]_vars
  <2> SUFFICES ASSUME shown' # shown, shown' # NoSession, present, now >= born + Rescan
               PROVE  agg'.known
    OBVIOUS
  <2>1. Poll
    BY <1>1, ShownBy
  <2>2. PollEnds
    BY <1>1, <2>1, PollIs
  <2> QED BY <1>1, <2>2, PollKeeps
<1> QED BY <1>1, SessionKnowsWhatItRead, PTL DEF Spec, FoundInTime

-----------------------------------------------------------------------------
(***************************************************************************)
(* Usage by request.                                                       *)
(***************************************************************************)
LEMMA TotalOfImage ==
  ASSUME NEW f, NEW g, NEW S, IsFiniteSet(S), \A x \in S : f[x] \in Usage,
         NEW r, \A x, y \in S : r[x] = r[y] => x = y, \A x \in S : g[r[x]] = f[x]
  PROVE  IsFiniteSet({r[x] : x \in S}) /\ Total(g, {r[x] : x \in S}) = Total(f, S)
<1> DEFINE I(T) == {r[x] : x \in T}
           G == {T \in SUBSET S : IsFiniteSet(I(T)) /\ Total(g, I(T)) = Total(f, T)}
<1>1. \A T \in SUBSET S : IsFiniteSet(T)
  BY FS_Subset
<1>2. {} \in G
  <2>1. I({}) = {}
    OBVIOUS
  <2> HIDE DEF I
  <2> QED BY <2>1, TotalEmpty, FS_EmptySet
<1>3. ASSUME NEW T \in SUBSET S, T # {}, \A x \in T : T \ {x} \in G PROVE T \in G
  <2> PICK x \in T : TRUE
    BY <1>3
  <2> DEFINE y == r[x]
             R == T \ {x}
  <2>1. I(T) \ {y} = I(R) /\ I(T) = I(R) \cup {y} /\ y \in I(T)
    OBVIOUS
  <2>2. R \in G /\ IsFiniteSet(I(R)) /\ Total(g, I(R)) = Total(f, R)
    BY <1>3
  <2>3. \A z \in I(T) : g[z] \in Usage
    OBVIOUS
  <2>4. Total(f, T) = Plus(f[x], Total(f, R))
    BY <1>1, TotalAny
  <2>5. g[y] = f[x]
    OBVIOUS
  <2> HIDE DEF I, y, R
  <2>6. IsFiniteSet(I(T))
    BY <2>1, <2>2, FS_AddElement
  <2>7. Total(g, I(T)) = Plus(g[y], Total(g, I(T) \ {y}))
    BY <2>1, <2>3, <2>6, TotalAny
  <2>8. Total(g, I(T)) = Total(f, T)
    BY <2>1, <2>2, <2>4, <2>5, <2>7
  <2> QED BY <2>6, <2>8
<1> HIDE DEF G
<1>4. \A T \in SUBSET S : T \in G
  BY <1>2, <1>3, SubsetBySubset
<1> QED BY <1>4 DEF G

\* What used nothing adds nothing, and what used anything shows.
LEMMA TotalOfUsed ==
  ASSUME NEW f, NEW S, IsFiniteSet(S), \A x \in S : f[x] \in [in : Nat, out : Nat]
  PROVE  /\ Total(f, S) \in [in : Nat, out : Nat]
         /\ Total(f, S) = Total(f, {x \in S : f[x] # Zero})
         /\ Total(f, S) = Zero <=> \A x \in S : f[x] = Zero
<1> DEFINE N(T) == {x \in T : f[x] # Zero}
           Fine(T) == /\ Total(f, T) \in [in : Nat, out : Nat]
                      /\ Total(f, T) = Total(f, N(T))
                      /\ Total(f, T) = Zero <=> \A x \in T : f[x] = Zero
           G == {T \in SUBSET S : Fine(T)}
<1>1. \A x \in S : f[x] \in Usage
  BY DEF Usage
<1>2. \A T \in SUBSET S : IsFiniteSet(T) /\ Total(f, T) \in Usage
  <2>1. TAKE T \in SUBSET S
  <2>2. IsFiniteSet(T)
    BY FS_Subset
  <2> QED BY <1>1, <2>2, TotalType
<1>3. {} \in G
  <2>1. N({}) = {} /\ Zero \in [in : Nat, out : Nat]
    BY DEF Zero, Use
  <2> HIDE DEF N
  <2> QED BY <2>1, TotalEmpty
<1>4. ASSUME NEW T \in SUBSET S, T # {}, \A x \in T : T \ {x} \in G PROVE T \in G
  <2> PICK x \in T : TRUE
    BY <1>4
  <2> DEFINE R == T \ {x}
             u == f[x]
             t == Total(f, T)
             s == Total(f, R)
             n == Total(f, N(T))
  <2>1. t = Plus(u, s)
    BY <1>1, <1>2, TotalAny
  <2>2. Fine(R) /\ u \in [in : Nat, out : Nat] /\ s \in [in : Nat, out : Nat]
    BY <1>4
  <2>3. n = t
    <3>1. CASE u = Zero
      <4>1. N(T) = N(R)
        BY <3>1
      <4>2. n = s
        BY <2>2, <4>1
      <4> HIDE DEF u, s, n, t
      <4>3. s \in Usage
        BY <2>2 DEF Usage
      <4> QED BY <2>1, <3>1, <4>2, <4>3, UsageIs
    <3>2. CASE u # Zero
      <4>1. N(T) \in SUBSET S /\ x \in N(T) /\ N(T) \ {x} = N(R)
        BY <3>2
      <4>2. n = Plus(u, Total(f, N(T) \ {x}))
        <5> DEFINE M == N(T)
        <5>1. M \in SUBSET S /\ x \in M /\ n = Total(f, M)
          BY <4>1
        <5> HIDE DEF M, n
        <5>2. n = Plus(f[x], Total(f, M \ {x}))
          BY <1>1, <1>2, <5>1, TotalAny
        <5> QED BY <5>2 DEF M
      <4>3. n = Plus(u, Total(f, N(R)))
        BY <4>1, <4>2
      <4>4. Total(f, N(R)) = s
        BY <2>2
      <4> HIDE DEF u, s, n, t, N, R
      <4> QED BY <2>1, <4>3, <4>4
    <3> QED BY <3>1, <3>2
  <2>4. t \in [in : Nat, out : Nat] /\ (t = Zero <=> u = Zero /\ s = Zero)
    <3> HIDE DEF t, u, s
    <3> QED BY <2>1, <2>2 DEF Plus, Zero, Use
  <2>5. t = Zero <=> \A y \in T : f[y] = Zero
    <3>1. s = Zero <=> \A y \in R : f[y] = Zero
      BY <2>2
    <3>2. (\A y \in T : f[y] = Zero) <=> u = Zero /\ \A y \in R : f[y] = Zero
      OBVIOUS
    <3> HIDE DEF t, u, s, R
    <3> QED BY <2>4, <3>1, <3>2
  <2>6. Fine(T)
    <3> HIDE DEF N
    <3> QED BY <2>3, <2>4, <2>5
  <2> QED BY <2>6
<1> HIDE DEF G
<1>5. S \in G
  <2>1. \A T \in SUBSET S : T \in G
    BY <1>3, <1>4, SubsetBySubset
  <2> QED BY <2>1
<1> QED BY <1>5 DEF G

-----------------------------------------------------------------------------
(***************************************************************************)
(* What a request costs.                                                   *)
(***************************************************************************)
LEMMA HighestTier ==
  ASSUME NEW S, IsFiniteSet(S), S # {}, \A k \in S : k.above \in Nat
  PROVE  \E k \in S : \A j \in S : j.above <= k.above
<1> DEFINE Top(T) == T = {} \/ \E k \in T : \A j \in T : j.above <= k.above
           G == {T \in SUBSET S : Top(T)}
<1>1. {} \in G
  OBVIOUS
<1>2. ASSUME NEW T \in SUBSET S, T # {}, \A x \in T : T \ {x} \in G PROVE T \in G
  <2> PICK x \in T : TRUE
    BY <1>2
  <2>1. Top(T \ {x})
    BY <1>2
  <2>2. CASE T \ {x} = {}
    <3>1. \A j \in T : j.above <= x.above
      BY <2>2
    <3> QED BY <3>1
  <2>3. CASE T \ {x} # {}
    <3>1. PICK k \in T \ {x} : \A j \in T \ {x} : j.above <= k.above
      BY <2>1, <2>3
    <3>2. x.above \in Nat /\ k.above \in Nat /\ \A j \in T : j.above \in Nat
      OBVIOUS
    <3>3. CASE x.above <= k.above
      BY <3>1, <3>3
    <3>4. CASE k.above <= x.above
      <4>1. \A j \in T : j.above <= x.above
        BY <3>1, <3>2, <3>4
      <4> QED BY <4>1
    <3> QED BY <3>2, <3>3, <3>4
  <2> QED BY <2>2, <2>3
<1> HIDE DEF G
<1>3. \A T \in SUBSET S : T \in G
  BY <1>1, <1>2, SubsetBySubset
<1> QED BY <1>3 DEF G

LEMMA RateType ==
  ASSUME NEW model \in DOMAIN Entries, NEW kind, NEW prompt
  PROVE  RateOf(Entries[model], kind, prompt) \in Int
<1> DEFINE entry == Entries[model]
           fits == {k \in entry : k.base = kind /\ (k.above = 0 \/ prompt > k.above * K)}
<1>1. IsFiniteSet(fits) /\ \A k \in fits : k.above \in Nat /\ k.rate \in Int
  <2>1. IsFiniteSet(entry) /\ \A k \in entry : k.above \in Nat /\ k.rate \in Int
    BY EntriesAssumption
  <2>2. fits \in SUBSET entry
    OBVIOUS
  <2> HIDE DEF entry, fits
  <2> QED BY <2>1, <2>2, FS_Subset
<1>2. RateOf(entry, kind, prompt) =
        IF fits = {} THEN 0 ELSE (CHOOSE k \in fits : \A j \in fits : j.above <= k.above).rate
  BY DEF RateOf
<1> HIDE DEF fits, entry
<1>3. fits # {} => \E k \in fits : \A j \in fits : j.above <= k.above
  BY <1>1, HighestTier
<1>4. fits # {} => (CHOOSE k \in fits : \A j \in fits : j.above <= k.above) \in fits
  BY <1>3
<1> QED BY <1>1, <1>2, <1>4 DEF entry

\* A bucket's prompt size is above a tier's threshold exactly when the prompt is.
LEMMA TierOfBucket ==
  ASSUME NEW p \in Nat, NEW a \in Nat
  PROVE  PromptK(p) * K > a * K <=> p > a * K
<1> DEFINE q == PromptK(p)
           m == a * K
<1>1. K \in Nat /\ K > 0 /\ q \in Nat /\ m \in Nat
  <2>1. K \in Nat /\ K > 0
    BY KAssumption
  <2>2. q \in Nat
    BY PromptKGrows
  <2> QED BY <2>1, <2>2
<1>2. CASE p = 0
  <2>1. q = 0
    BY <1>2 DEF PromptK
  <2>2. q * K = 0
    BY <1>1, <2>1
  <2> HIDE DEF q, m
  <2> QED BY <1>1, <1>2, <2>2 DEF q, m
<1>3. CASE p > 0
  <2> DEFINE n == p + K - 1
  <2>1. q = n \div K /\ n \in Nat
    BY <1>1, <1>3 DEF PromptK
  <2> HIDE DEF q
  <2>2. q * K <= n /\ n < q * K + K
    <3> HIDE DEF n, m
    <3>1. n = K * (n \div K) + (n % K) /\ n % K \in 0 .. K - 1
      BY <1>1, <2>1
    <3>2. K * q = q * K
      BY <1>1
    <3>3. n = q * K + (n % K) /\ n % K \in Int /\ n % K >= 0 /\ n % K < K
      BY <1>1, <2>1, <3>1, <3>2
    <3> QED BY <1>1, <2>1, <3>3
  <2>3. ASSUME p > m PROVE q * K > m
    <3>1. q * K + K > m + K
      BY <1>1, <2>2, <2>3
    <3> QED BY <1>1, <3>1
  <2>4. ASSUME q * K > m PROVE p > m
    <3>1. q > a
      BY <1>1, <2>4
    <3>2. q * K >= (a + 1) * K
      BY <1>1, <3>1
    <3>3. (a + 1) * K = m + K
      BY <1>1
    <3> HIDE DEF m
    <3> QED BY <1>1, <2>2, <3>2, <3>3
  <2> HIDE DEF m
  <2>5. q * K > m <=> p > m
    BY <2>3, <2>4
  <2> QED BY <2>5 DEF q, m
<1> QED BY <1>2, <1>3

LEMMA RateOfBucket ==
  ASSUME NEW model \in DOMAIN Entries, NEW kind, NEW p \in Nat
  PROVE  RateOf(Entries[model], kind, PromptK(p) * K) = RateOf(Entries[model], kind, p)
<1> DEFINE entry == Entries[model]
           fits(n) == {k \in entry : k.base = kind /\ (k.above = 0 \/ n > k.above * K)}
<1>1. \A k \in entry : k.above \in Nat
  BY EntriesAssumption
<1>2. \A k \in entry : PromptK(p) * K > k.above * K <=> p > k.above * K
  <2> HIDE DEF entry
  <2> QED BY <1>1, TierOfBucket
<1>3. fits(PromptK(p) * K) = fits(p)
  <2> HIDE DEF entry
  <2> QED BY <1>2
<1>4. \A n : RateOf(entry, kind, n) =
        IF fits(n) = {} THEN 0 ELSE (CHOOSE k \in fits(n) : \A j \in fits(n) : j.above <= k.above).rate
  BY DEF RateOf
<1> HIDE DEF fits, entry
<1>5. RateOf(entry, kind, PromptK(p) * K) = RateOf(entry, kind, p)
  BY <1>3, <1>4
<1> QED BY <1>5 DEF entry

\* A price is a number, and that of a sum is the sum of the prices.
LEMMA CostType ==
  ASSUME NEW model \in DOMAIN Entries, NEW u \in Usage, NEW prompt
  PROVE  /\ CostOf(model, u, prompt) \in Int
         /\ u = Zero => CostOf(model, u, prompt) = 0
         /\ \A v \in Usage : CostOf(model, Plus(u, v), prompt)
                               = CostOf(model, u, prompt) + CostOf(model, v, prompt)
<1> DEFINE r == RateOf(Entries[model], "input", prompt)
           s == RateOf(Entries[model], "output", prompt)
<1>1. r \in Int /\ s \in Int
  BY RateType
<1>2. \A v : CostOf(model, v, prompt) = v.in * r + v.out * s
  BY DEF CostOf
<1> HIDE DEF r, s
<1>3. u.in \in Int /\ u.out \in Int
  BY UsageIs
<1>4. CostOf(model, u, prompt) \in Int
  <2> DEFINE a == u.in
             b == u.out
  <2>1. a \in Int /\ b \in Int
    BY <1>3
  <2> HIDE DEF a, b
  <2>2. a * r \in Int /\ b * s \in Int
    BY <1>1, <2>1
  <2>3. a * r + b * s \in Int
    BY <2>2
  <2> QED BY <1>2, <2>3 DEF a, b
<1>5. u = Zero => CostOf(model, u, prompt) = 0
  <2> SUFFICES ASSUME u = Zero PROVE CostOf(model, u, prompt) = 0
    OBVIOUS
  <2>1. u.in = 0 /\ u.out = 0
    BY DEF Zero, Use
  <2>2. 0 * r + 0 * s = 0
    BY <1>1
  <2> QED BY <1>2, <2>1, <2>2
<1>6. ASSUME NEW v \in Usage
      PROVE  CostOf(model, Plus(u, v), prompt)
               = CostOf(model, u, prompt) + CostOf(model, v, prompt)
  <2> DEFINE a == u.in
             b == u.out
             c == v.in
             d == v.out
  <2>1. a \in Int /\ b \in Int /\ c \in Int /\ d \in Int
    BY <1>3, UsageIs
  <2>2. Plus(u, v).in = a + c /\ Plus(u, v).out = b + d
    BY DEF Plus, Use
  <2> HIDE DEF a, b, c, d
  <2>3. (a + c) * r = a * r + c * r /\ (b + d) * s = b * s + d * s
    BY <1>1, <2>1
  <2>4. a * r \in Int /\ b * s \in Int /\ c * r \in Int /\ d * s \in Int
    BY <1>1, <2>1
  <2>5. (a + c) * r + (b + d) * s = (a * r + b * s) + (c * r + d * s)
    BY <2>3, <2>4
  <2> QED BY <1>2, <2>2, <2>5 DEF a, b, c, d
<1> QED BY <1>4, <1>5, <1>6

LEMMA CostOfTotal ==
  ASSUME NEW model \in DOMAIN Entries, NEW prompt,
         NEW f, NEW S, IsFiniteSet(S), \A x \in S : f[x] \in Usage,
         NEW g, \A x \in S : g[x] = CostOf(model, f[x], prompt)
  PROVE  CostOf(model, Total(f, S), prompt) = Sum(g, S)
<1> DEFINE G == {T \in SUBSET S : CostOf(model, Total(f, T), prompt) = Sum(g, T)}
<1>1. \A T \in SUBSET S : IsFiniteSet(T) /\ Total(f, T) \in Usage
  <2>1. TAKE T \in SUBSET S
  <2>2. IsFiniteSet(T)
    BY FS_Subset
  <2> QED BY <2>2, TotalType
<1>2. {} \in G
  <2>1. Total(f, {}) = Zero /\ Sum(g, {}) = 0
    BY TotalEmpty, SumEmpty
  <2>2. CostOf(model, Zero, prompt) = 0
    BY UsageIs, CostType
  <2> QED BY <2>1, <2>2
<1>3. ASSUME NEW T \in SUBSET S, T # {}, \A x \in T : T \ {x} \in G PROVE T \in G
  <2> DEFINE c == First(T)
             R == T \ {c}
             u == Total(f, R)
  <2>1. c \in T /\ Total(f, T) = Plus(f[c], u) /\ Sum(g, T) = g[c] + Sum(g, R)
    BY <1>1, <1>3, TotalFirst, SumFirst
  <2>2. u \in Usage /\ f[c] \in Usage /\ g[c] = CostOf(model, f[c], prompt)
    BY <1>1, <2>1
  <2>3. CostOf(model, u, prompt) = Sum(g, R)
    BY <1>3, <2>1
  <2> DEFINE v == f[c]
  <2> HIDE DEF G, c, R, u, v
  <2>4. CostOf(model, Plus(v, u), prompt) = CostOf(model, v, prompt) + CostOf(model, u, prompt)
    BY <2>2, CostType DEF v
  <2>5. CostOf(model, Total(f, T), prompt) = Sum(g, T)
    BY <2>1, <2>2, <2>3, <2>4 DEF v
  <2> QED BY <2>5 DEF G
<1> HIDE DEF G
<1>4. \A T \in SUBSET S : T \in G
  BY <1>2, <1>3, SubsetBySubset
<1> QED BY <1>4 DEF G

-----------------------------------------------------------------------------
(***************************************************************************)
(* What a row costs.                                                       *)
(***************************************************************************)
IsRequest(q) ==
  q.model \in Models \cup {NoModel} /\ q.use \in [in : 0 .. MaxPrompt, out : Nat]

UseOf(Q) == [q \in Q |-> q.use]
BucketOf(q) == <<q.model, PromptK(q.use.in)>>
Of(Q, b) == {q \in Q : BucketOf(q) = b}

\* The row of these requests.
IsRowOf(row, Q) ==
  /\ IsFiniteSet(Q) /\ \A q \in Q : IsRequest(q)
  /\ row.ledger \in Ledger /\ \A b \in Bucket : row.ledger[b] = Total(UseOf(Q), Of(Q, b))
  /\ row.usage = Total(UseOf(Q), Q)

LEMMA RequestIs ==
  ASSUME NEW q, IsRequest(q)
  PROVE  /\ q.use \in [in : Nat, out : Nat] /\ q.use \in Usage /\ q.use.in \in Nat
         /\ BucketOf(q) \in Bucket
<1> DEFINE u == q.use
           m == q.model
<1>1. u \in [in : 0 .. MaxPrompt, out : Nat] /\ m \in Models \cup {NoModel}
  BY DEF IsRequest
<1>2. BucketOf(q) = <<m, PromptK(u.in)>>
  BY DEF BucketOf
<1> HIDE DEF u, m
<1>3. MaxPrompt \in Nat
  BY MaxPromptAssumption
<1>4. u.in \in 0 .. MaxPrompt /\ u.out \in Nat /\ u = [in |-> u.in, out |-> u.out]
  BY <1>1
<1>5. u.in \in Nat /\ u.in \in Int /\ MaxPrompt \in Int /\ u.in <= MaxPrompt
  BY <1>3, <1>4
<1>6. u \in [in : Nat, out : Nat] /\ u \in Usage
  BY <1>4, <1>5 DEF Usage
<1>7. PromptK(u.in) \in 0 .. PromptK(MaxPrompt)
  <2>1. PromptK(u.in) \in Nat /\ PromptK(MaxPrompt) \in Nat /\ PromptK(u.in) <= PromptK(MaxPrompt)
    BY <1>5, PromptKGrows
  <2> QED BY <2>1
<1> QED BY <1>1, <1>2, <1>5, <1>6, <1>7 DEF Bucket, u

\* A bucket has what its requests that used anything have.
LEMMA BucketIs ==
  ASSUME NEW row, NEW Q, IsRowOf(row, Q), NEW N, N = {q \in Q : q.use # Zero}
  PROVE  /\ \A b \in Bucket : row.ledger[b] = Total(UseOf(Q), Of(N, b))
         /\ Kept(row.ledger) = {BucketOf(q) : q \in N}
         /\ row.usage = Zero <=> N = {}
<1>1. IsFiniteSet(Q) /\ \A q \in Q : IsRequest(q) /\ UseOf(Q)[q] = q.use
  BY DEF IsRowOf, UseOf
<1>2. \A q \in Q : UseOf(Q)[q] \in [in : Nat, out : Nat] /\ BucketOf(q) \in Bucket
  BY <1>1, RequestIs
<1>3. ASSUME NEW T \in SUBSET Q
      PROVE  /\ Total(UseOf(Q), T) = Total(UseOf(Q), {q \in T : q.use # Zero})
             /\ Total(UseOf(Q), T) = Zero <=> \A q \in T : q.use = Zero
  <2>1. IsFiniteSet(T) /\ \A q \in T : UseOf(Q)[q] \in [in : Nat, out : Nat]
    BY <1>1, <1>2, FS_Subset
  <2>2. /\ Total(UseOf(Q), T) = Total(UseOf(Q), {q \in T : UseOf(Q)[q] # Zero})
        /\ Total(UseOf(Q), T) = Zero <=> \A q \in T : UseOf(Q)[q] = Zero
    BY <2>1, TotalOfUsed
  <2>3. \A q \in T : UseOf(Q)[q] = q.use
    BY <1>1
  <2>4. {q \in T : UseOf(Q)[q] # Zero} = {q \in T : q.use # Zero}
    BY <2>3
  <2> QED BY <2>2, <2>3, <2>4
<1>4. ASSUME NEW b \in Bucket
      PROVE  /\ row.ledger[b] = Total(UseOf(Q), Of(N, b))
             /\ row.ledger[b] # Zero <=> \E q \in N : BucketOf(q) = b
  <2>1. Of(Q, b) \in SUBSET Q /\ Of(N, b) = {q \in Of(Q, b) : q.use # Zero}
    BY DEF Of
  <2>2. row.ledger[b] = Total(UseOf(Q), Of(Q, b))
    BY DEF IsRowOf
  <2>3. row.ledger[b] # Zero <=> \E q \in Of(Q, b) : q.use # Zero
    BY <1>3, <2>1, <2>2
  <2>4. (\E q \in Of(Q, b) : q.use # Zero) <=> \E q \in N : BucketOf(q) = b
    BY DEF Of
  <2> QED BY <1>3, <2>1, <2>2, <2>3, <2>4
<1>5. DOMAIN row.ledger = Bucket
  BY DEF IsRowOf, Ledger
<1>6. \A q \in N : BucketOf(q) \in Bucket
  BY <1>2
<1>7. Kept(row.ledger) = {BucketOf(q) : q \in N}
  BY <1>4, <1>5, <1>6 DEF Kept
<1>8. row.usage = Zero <=> N = {}
  <2>1. row.usage = Total(UseOf(Q), Q) /\ Q \in SUBSET Q
    BY DEF IsRowOf
  <2>2. row.usage = Zero <=> \A q \in Q : q.use = Zero
    BY <1>3, <2>1
  <2> QED BY <2>2
<1> QED BY <1>4, <1>7, <1>8

LEMMA ImageIsFinite ==
  ASSUME NEW S, IsFiniteSet(S), NEW r
  PROVE  IsFiniteSet({r[x] : x \in S})
<1> DEFINE I(T) == {r[x] : x \in T}
           G == {T \in SUBSET S : IsFiniteSet(I(T))}
<1>1. {} \in G
  <2>1. I({}) = {}
    OBVIOUS
  <2> QED BY <2>1, FS_EmptySet
<1>2. ASSUME NEW T \in SUBSET S, T # {}, \A x \in T : T \ {x} \in G PROVE T \in G
  <2> PICK x \in T : TRUE
    BY <1>2
  <2> DEFINE y == r[x]
             R == T \ {x}
  <2>1. I(T) = I(R) \cup {y} /\ IsFiniteSet(I(R))
    BY <1>2
  <2> HIDE DEF I, y, R
  <2>2. IsFiniteSet(I(T))
    BY <2>1, FS_AddElement
  <2> QED BY <2>2
<1> HIDE DEF G
<1>3. S \in G
  BY <1>1, <1>2, SubsetBySubset
<1> QED BY <1>3 DEF G

LEMMA SumWithout ==
  ASSUME NEW f, NEW S, IsFiniteSet(S), \A x \in S : f[x] \in Int,
         NEW R \in SUBSET S, \A x \in S \ R : f[x] = 0
  PROVE  Sum(f, S) = Sum(f, R)
<1> DEFINE G == {T \in SUBSET S : Sum(f, T) = Sum(f, T \cap R)}
<1>1. \A T \in SUBSET S : IsFiniteSet(T) /\ Sum(f, T) \in Int
  <2>1. TAKE T \in SUBSET S
  <2>2. IsFiniteSet(T)
    BY FS_Subset
  <2> QED BY <2>2, SumType
<1>2. {} \in G
  <2>1. {} \cap R = {}
    OBVIOUS
  <2> QED BY <2>1
<1>3. ASSUME NEW T \in SUBSET S, T # {}, \A x \in T : T \ {x} \in G PROVE T \in G
  <2> PICK x \in T : TRUE
    BY <1>3
  <2> DEFINE U == T \ {x}
             r == Sum(f, U)
  <2>1. U \in G /\ Sum(f, T) = f[x] + r /\ r \in Int /\ r = Sum(f, U \cap R)
    <3>1. U \in G
      BY <1>3
    <3>2. Sum(f, T) = f[x] + r
      BY <1>1, SumAny
    <3>3. U \in SUBSET S
      OBVIOUS
    <3> QED BY <1>1, <3>1, <3>2, <3>3
  <2>2. CASE x \in R
    <3> DEFINE V == T \cap R
    <3>1. V \in SUBSET S /\ x \in V /\ V \ {x} = U \cap R
      BY <2>2
    <3> HIDE DEF V, U, r
    <3>2. Sum(f, V) = f[x] + Sum(f, V \ {x})
      BY <1>1, <3>1, SumAny
    <3>3. Sum(f, T) = Sum(f, V)
      BY <2>1, <3>1, <3>2
    <3> QED BY <3>3 DEF V
  <2>3. CASE x \notin R
    <3>1. T \cap R = U \cap R /\ f[x] = 0
      BY <2>3
    <3> HIDE DEF U, r, G
    <3>2. Sum(f, T) = r
      BY <2>1, <3>1
    <3>3. Sum(f, T) = Sum(f, T \cap R)
      BY <2>1, <3>1, <3>2
    <3> QED BY <3>3 DEF G
  <2> QED BY <2>2, <2>3
<1> HIDE DEF G
<1>4. Sum(f, S) = Sum(f, S \cap R)
  <2>1. \A T \in SUBSET S : T \in G
    BY <1>2, <1>3, SubsetBySubset
  <2> QED BY <2>1 DEF G
<1>5. S \cap R = R
  OBVIOUS
<1> QED BY <1>4, <1>5

PricedOf(R) == {q \in R : Priced(q.model)}

LEMMA CostOfAllIs ==
  ASSUME NEW R, IsFiniteSet(R), \A q \in R : IsRequest(q),
         NEW f, \A q \in PricedOf(R) : f[q] = CostOf(q.model, q.use, q.use.in)
  PROVE  /\ IsFiniteSet(PricedOf(R)) /\ \A q \in PricedOf(R) : f[q] \in Int
         /\ CostOfAll(R) = Sum(f, PricedOf(R)) /\ CostOfAll(R) \in Int
<1> DEFINE P == PricedOf(R)
           g == [q \in P |-> CostOf(q.model, q.use, q.use.in)]
<1>1. P \in SUBSET R /\ \A q \in P : q.model \in DOMAIN Entries
  BY DEF PricedOf, Priced
<1>2. IsFiniteSet(P)
  BY <1>1, FS_Subset
<1>3. CostOfAll(R) = SumFunction(g) /\ DOMAIN g = P /\ \A q \in P : g[q] = f[q]
  BY DEF CostOfAll, PricedOf
<1>4. \A q \in P : f[q] \in Int
  <2>1. \A q \in P : q.use \in Usage
    BY <1>1, RequestIs
  <2> QED BY <1>1, <2>1, CostType
<1> HIDE DEF g, P
<1>5. CostOfAll(R) = Sum(g, P)
  BY <1>3, SumFunctionIs
<1>6. Sum(g, P) = Sum(f, P)
  BY <1>2, <1>3, SumSame
<1>7. Sum(f, P) \in Int
  BY <1>2, <1>4, SumType
<1> QED BY <1>2, <1>4, <1>5, <1>6, <1>7 DEF P

\* CostLedger: bucket by bucket is request by request.
LEMMA LedgerPriceIs ==
  ASSUME NEW row, NEW Q, IsRowOf(row, Q), NEW N, N = {q \in Q : q.use # Zero}
  PROVE  LET p == LedgerPrice(row.ledger)
         IN  /\ p.usd = CostOfAll(N) /\ p.missing = {q.model : q \in N} \ DOMAIN Entries
             /\ p.ok = (\E q \in N : Priced(q.model))
             /\ p.partial = ((\E q \in N : Priced(q.model)) /\ ~ AllPriced(N))
<1> DEFINE ledger == row.ledger
           kept == Kept(ledger)
           priced == {b \in kept : Priced(b[1])}
           missing == {b[1] : b \in kept \ priced}
           cost == [b \in priced |-> CostOf(b[1], ledger[b], b[2] * K)]
           p == LedgerPrice(ledger)
           P == PricedOf(N)
           each == [q \in N |-> CostOf(q.model, q.use, q.use.in)]
           of == [q \in N |-> BucketOf(q)]
           parts == [b \in priced |-> Sum(each, {q \in P : of[q] = b})]
<1>1. p = [usd |-> SumFunction(cost), missing |-> missing, ok |-> priced # {},
           partial |-> priced # {} /\ missing # {}]
  BY DEF LedgerPrice
<1>2. /\ IsFiniteSet(N) /\ \A q \in N : IsRequest(q)
      /\ \A b \in Bucket : ledger[b] = Total(UseOf(Q), Of(N, b))
      /\ kept = {BucketOf(q) : q \in N}
  <2>1. N \in SUBSET Q /\ IsFiniteSet(Q) /\ \A q \in Q : IsRequest(q)
    BY DEF IsRowOf
  <2>2. IsFiniteSet(N)
    BY <2>1, FS_Subset
  <2> QED BY <2>1, <2>2, BucketIs
<1>3. \A q \in N : BucketOf(q)[1] = q.model /\ BucketOf(q)[2] = PromptK(q.use.in)
  BY DEF BucketOf
<1>4. priced = {BucketOf(q) : q \in P}
  BY <1>2, <1>3 DEF PricedOf
<1>5. missing = {q.model : q \in N} \ DOMAIN Entries
  BY <1>2, <1>3 DEF Priced
<1>6. (priced # {}) = (\E q \in N : Priced(q.model))
  BY <1>4 DEF PricedOf
<1>7. (missing # {}) = (~ AllPriced(N))
  BY <1>5 DEF AllPriced, Priced
<1>8. /\ IsFiniteSet(P) /\ \A q \in P : each[q] \in Int
      /\ CostOfAll(N) = Sum(each, P)
  <2>1. \A q \in P : each[q] = CostOf(q.model, q.use, q.use.in)
    BY DEF PricedOf
  <2> HIDE DEF each
  <2> QED BY <1>2, <2>1, CostOfAllIs
<1>9. IsFiniteSet(priced)
  <2>1. priced = {of[q] : q \in P}
    BY <1>4 DEF PricedOf
  <2> HIDE DEF P, priced, of
  <2> QED BY <1>8, <2>1, ImageIsFinite
<1>10. Sum(each, P) = Sum(parts, priced)
  <2>1. \A q \in P : of[q] \in priced
    BY <1>4 DEF PricedOf
  <2> HIDE DEF P, priced, each, of
  <2> QED BY <1>8, <1>9, <2>1, SumOfParts
<1>11. ASSUME NEW b \in priced PROVE cost[b] = parts[b]
  <2> DEFINE T == Of(N, b)
             m == b[1]
             n == b[2] * K
             f == UseOf(Q)
  <2>1. m \in DOMAIN Entries /\ b \in Bucket
    <3>1. PICK q \in P : b = BucketOf(q)
      BY <1>4
    <3>2. q \in N /\ Priced(q.model)
      BY DEF PricedOf
    <3> QED BY <1>2, <1>3, <3>1, <3>2, RequestIs DEF Priced
  <2>2. T = {q \in P : of[q] = b}
    BY <1>3, <2>1 DEF Of, PricedOf, Priced
  <2>3. \A q \in T : q \in N /\ q \in Q /\ q.model = m /\ f[q] = q.use /\ b[2] = PromptK(q.use.in)
    BY <1>3 DEF Of, UseOf
  <2>4. IsFiniteSet(T)
    <3>1. T \in SUBSET N
      BY DEF Of
    <3> QED BY <1>2, <3>1, FS_Subset
  <2>5. ASSUME NEW q \in T PROVE f[q] \in Usage /\ each[q] = CostOf(m, f[q], n)
    <3>1. q \in N /\ q.use \in Usage /\ q.use.in \in Nat
      BY <1>2, <2>3, RequestIs
    <3>2. each[q] = CostOf(q.model, q.use, q.use.in)
      BY <3>1
    <3>3. \A kind : RateOf(Entries[m], kind, n) = RateOf(Entries[m], kind, q.use.in)
      BY <2>1, <2>3, <3>1, RateOfBucket
    <3> HIDE DEF each, m, n, f, T
    <3>4. CostOf(m, q.use, n) = CostOf(m, q.use, q.use.in)
      BY <3>3 DEF CostOf
    <3> QED BY <2>3, <3>1, <3>2, <3>4
  <2>6. CostOf(m, Total(f, T), n) = Sum(each, T)
    <3> HIDE DEF m, n, f, T, each
    <3> QED BY <2>1, <2>4, <2>5, CostOfTotal
  <2>7. cost[b] = CostOf(m, ledger[b], n) /\ ledger[b] = Total(f, T)
    BY <1>2, <2>1
  <2>8. parts[b] = Sum(each, {q \in P : of[q] = b})
    OBVIOUS
  <2> HIDE DEF m, n, f, T, each, cost, parts, of, P, ledger
  <2> QED BY <2>2, <2>6, <2>7, <2>8
<1>12. SumFunction(cost) = Sum(parts, priced)
  <2>1. DOMAIN cost = priced
    OBVIOUS
  <2> HIDE DEF cost, parts, priced
  <2>2. SumFunction(cost) = Sum(cost, priced)
    BY <2>1, SumFunctionIs
  <2>3. Sum(cost, priced) = Sum(parts, priced)
    BY <1>9, <1>11, SumSame
  <2> QED BY <2>2, <2>3
<1> HIDE DEF cost, parts, priced, missing, each, P, p, ledger
<1>13. /\ p.usd = SumFunction(cost) /\ p.missing = missing
       /\ p.ok = (priced # {}) /\ p.partial = (priced # {} /\ missing # {})
  BY <1>1
<1>14. /\ p.usd = CostOfAll(N) /\ p.missing = {q.model : q \in N} \ DOMAIN Entries
       /\ p.ok = (\E q \in N : Priced(q.model))
       /\ p.partial = ((\E q \in N : Priced(q.model)) /\ ~ AllPriced(N))
  BY <1>5, <1>6, <1>7, <1>8, <1>10, <1>12, <1>13
<1> QED BY <1>14 DEF p, ledger

\* What a row costs is what each of its requests costs.
LEMMA RowPriceIs ==
  ASSUME NEW row, NEW Q, IsRowOf(row, Q), row.model \in Models \cup {NoModel},
         NEW A, A = Asked(row.model, Q)
  PROVE  LET price == PricedRow(row)
         IN  /\ IsFiniteSet(A) /\ \A q \in A : IsRequest(q)
             /\ price.usd = CostOfAll(A) /\ price.usd \in Int
             /\ price.missing = {q.model : q \in A} \ DOMAIN Entries
             /\ price.ok <=> \E q \in A : Priced(q.model)
             /\ price.partial <=> (\E q \in A : Priced(q.model)) /\ ~AllPriced(A)
             /\ price.billed <=> row.model # NoModel \/ \E q \in A : q.use # Zero
<1> DEFINE N == {q \in Q : q.use # Zero}
           nothing == [model |-> row.model, use |-> Zero]
           p == PriceUsage(row)
<1>1. /\ PricedRow(row).usd = p.usd /\ PricedRow(row).missing = p.missing
      /\ PricedRow(row).ok = p.ok /\ PricedRow(row).partial = p.partial
      /\ PricedRow(row).billed = (row.model # NoModel \/ row.usage # Zero)
  BY DEF PricedRow
<1>2. A = IF N = {} THEN {nothing} ELSE N
  BY DEF Asked
<1>3. (Kept(row.ledger) = {} <=> N = {}) /\ (row.usage = Zero <=> N = {})
  <2>1. Kept(row.ledger) = {BucketOf(q) : q \in N} /\ (row.usage = Zero <=> N = {})
    BY BucketIs
  <2> HIDE DEF N
  <2>2. {BucketOf(q) : q \in N} = {} <=> N = {}
    OBVIOUS
  <2> QED BY <2>1, <2>2
<1>4. /\ IsFiniteSet(N) /\ \A q \in N : IsRequest(q)
  <2>1. N \in SUBSET Q /\ IsFiniteSet(Q) /\ \A q \in Q : IsRequest(q)
    BY DEF IsRowOf
  <2> QED BY <2>1, FS_Subset
<1>5. IsRequest(nothing) /\ nothing.model = row.model /\ nothing.use = Zero
  <2>1. Zero \in [in : 0 .. MaxPrompt, out : Nat]
    BY MaxPromptAssumption DEF Zero, Use
  <2> QED BY <2>1 DEF IsRequest
<1>6. IsFiniteSet(A) /\ \A q \in A : IsRequest(q)
  BY <1>2, <1>4, <1>5, FS_Singleton
<1>7. CostOfAll(A) \in Int
  <2> DEFINE f == [q \in A |-> CostOf(q.model, q.use, q.use.in)]
  <2>1. \A q \in PricedOf(A) : f[q] = CostOf(q.model, q.use, q.use.in)
    BY DEF PricedOf
  <2> HIDE DEF f
  <2> QED BY <1>6, <2>1, CostOfAllIs
<1>8. row.usage # Zero <=> \E q \in A : q.use # Zero
  BY <1>2, <1>3, <1>5
<1>9. CASE N # {}
  <2>1. p = LedgerPrice(row.ledger)
    BY <1>3, <1>9 DEF PriceUsage
  <2> DEFINE l == LedgerPrice(row.ledger)
  <2>2. /\ l.usd = CostOfAll(N) /\ l.missing = {q.model : q \in N} \ DOMAIN Entries
        /\ l.ok = (\E q \in N : Priced(q.model))
        /\ l.partial = ((\E q \in N : Priced(q.model)) /\ ~AllPriced(N))
    BY LedgerPriceIs
  <2>3. A = N
    BY <1>2, <1>9
  <2> HIDE DEF l, p, N
  <2>4. p = l
    BY <2>1 DEF l
  <2> QED BY <1>1, <1>6, <1>7, <1>8, <2>2, <2>3, <2>4
<1>10. CASE N = {}
  <2> DEFINE cost == IF Priced(row.model) THEN CostOf(row.model, row.usage, row.used) ELSE 0
  <2>1. p = [usd |-> cost, missing |-> {row.model} \ DOMAIN Entries,
             ok |-> Priced(row.model), partial |-> FALSE]
    BY <1>3, <1>10 DEF PriceUsage
  <2>2. A = {nothing}
    BY <1>2, <1>10
  <2>3. cost = 0
    <3>1. row.usage \in Usage /\ row.usage = Zero
      BY <1>3, <1>10, UsageIs
    <3> QED BY <3>1, CostType DEF Priced
  <2>4. CostOfAll(A) = 0
    <3> DEFINE f == [q \in A |-> 0]
    <3>1. \A q \in PricedOf(A) : f[q] = CostOf(q.model, q.use, q.use.in)
      <4>1. TAKE q \in PricedOf(A)
      <4>2. q \in A /\ q = nothing /\ q.model \in DOMAIN Entries /\ q.use = Zero /\ f[q] = 0
        BY <1>5, <2>2 DEF PricedOf, Priced
      <4>3. CostOf(q.model, q.use, q.use.in) = 0
        BY <4>2, UsageIs, CostType
      <4> QED BY <4>2, <4>3
    <3>2. \A q \in PricedOf(A) : f[q] = 0
      BY DEF PricedOf
    <3> HIDE DEF f
    <3>3. IsFiniteSet(PricedOf(A)) /\ CostOfAll(A) = Sum(f, PricedOf(A))
      BY <1>6, <3>1, CostOfAllIs
    <3> QED BY <3>2, <3>3, SumNothing
  <2>5. /\ {q.model : q \in A} = {row.model}
        /\ (\E q \in A : Priced(q.model)) <=> Priced(row.model)
        /\ (\E q \in A : Priced(q.model)) => AllPriced(A)
    BY <1>5, <2>2 DEF AllPriced
  <2> HIDE DEF p, cost, nothing, N
  <2>6. p.usd = 0 /\ p.missing = {row.model} \ DOMAIN Entries /\ p.ok = Priced(row.model)
        /\ p.partial = FALSE
    BY <2>1, <2>3
  <2> QED BY <1>1, <1>6, <1>7, <1>8, <2>4, <2>5, <2>6
<1> QED BY <1>9, <1>10

-----------------------------------------------------------------------------
(***************************************************************************)
(* The rows the reducer is given.                                          *)
(***************************************************************************)
FileStep(T, it) ==
  IF T = {} THEN NoLedger
  ELSE Filed(it[T \ {First(T)}], First(T).model, First(T).use.in, First(T).use)
Filings(it, S) == it = [T \in SUBSET S |-> FileStep(T, it)]

\* What has been filed, in whatever order, is in its own buckets.
LEMMA FilingIs ==
  ASSUME NEW Q, IsFiniteSet(Q), \A q \in Q : IsRequest(q),
         NEW it, it = [T \in SUBSET Q |-> [b \in Bucket |-> Total(UseOf(Q), Of(T, b))]]
  PROVE  it[Q] \in Ledger /\ Filings(it, Q)
<1> DEFINE f == UseOf(Q)
<1>1. \A q \in Q : f[q] = q.use /\ f[q] \in Usage /\ BucketOf(q) \in Bucket
  BY RequestIs DEF UseOf
<1> HIDE DEF f
<1>2. ASSUME NEW T \in SUBSET Q, NEW b \in Bucket
      PROVE  /\ it[T][b] = Total(f, Of(T, b)) /\ it[T][b] \in Usage
             /\ IsFiniteSet(Of(T, b)) /\ Of(T, b) \in SUBSET Q
  <2>1. Of(T, b) \in SUBSET Q /\ it[T][b] = Total(f, Of(T, b))
    BY DEF Of, f
  <2>2. IsFiniteSet(Of(T, b))
    BY <2>1, FS_Subset
  <2> QED BY <1>1, <2>1, <2>2, TotalType
<1>3. \A T \in SUBSET Q : it[T] \in Ledger
  <2>1. \A T \in SUBSET Q : it[T] = [b \in Bucket |-> it[T][b]]
    OBVIOUS
  <2> QED BY <1>2, <2>1 DEF Ledger
<1>4. ASSUME NEW T \in SUBSET Q PROVE it[T] = FileStep(T, it)
  <2>1. CASE T = {}
    <3>1. \A b \in Bucket : it[T][b] = Zero
      <4>1. TAKE b \in Bucket
      <4>2. Of(T, b) = {}
        BY <2>1 DEF Of
      <4> QED BY <1>2, <4>2, TotalEmpty
    <3>2. it[T] = NoLedger
      <4>1. it[T] = [b \in Bucket |-> it[T][b]]
        OBVIOUS
      <4> QED BY <3>1, <4>1 DEF NoLedger
    <3> QED BY <2>1, <3>2 DEF FileStep
  <2>2. CASE T # {}
    <3> DEFINE q == First(T)
               R == T \ {q}
               c == BucketOf(q)
               l == it[R]
    <3>1. q \in T /\ q \in Q /\ R \in SUBSET Q
      BY <2>2 DEF First
    <3>2. FileStep(T, it) = [l EXCEPT ![c] = Plus(@, q.use)]
      BY <2>2 DEF FileStep, Filed, BucketOf
    <3>3. l \in Ledger /\ c \in Bucket
      BY <1>1, <1>3, <3>1
    <3>4. it[T][c] = Plus(l[c], q.use)
      <4> DEFINE V == Of(T, c)
      <4>1. q \in V /\ V \ {q} = Of(R, c)
        BY <3>1 DEF Of
      <4> HIDE DEF q, R, c, V
      <4>2. IsFiniteSet(V) /\ \A x \in V : f[x] \in Usage
        BY <1>1, <1>2, <3>3 DEF V
      <4>3. Total(f, V) = Plus(f[q], Total(f, V \ {q}))
        BY <4>1, <4>2, TotalAny
      <4>4. it[T][c] = Total(f, V) /\ l[c] = Total(f, V \ {q}) /\ l[c] \in Usage
        BY <1>2, <3>1, <3>3, <4>1 DEF V
      <4>5. f[q] = q.use /\ f[q] \in Usage
        BY <1>1, <3>1
      <4> HIDE DEF l
      <4>6. Plus(f[q], l[c]) = Plus(l[c], f[q])
        BY <4>4, <4>5, UsageIs
      <4> QED BY <4>3, <4>4, <4>5, <4>6
    <3>5. \A b \in Bucket : b # c => it[T][b] = l[b]
      <4>1. TAKE b \in Bucket
      <4>2. b # c => Of(T, b) = Of(R, b)
        BY DEF Of
      <4> HIDE DEF q, R, c
      <4> QED BY <1>2, <3>1, <4>2
    <3>6. it[T] \in Ledger
      BY <1>3
    <3> DEFINE t == it[T]
    <3> HIDE DEF q, R, c, l, t
    <3>7. t = [l EXCEPT ![c] = Plus(@, q.use)]
      BY <3>3, <3>4, <3>5, <3>6 DEF Ledger, t
    <3> QED BY <3>2, <3>7 DEF t
  <2> QED BY <2>1, <2>2
<1>5. it = [T \in SUBSET Q |-> it[T]]
  OBVIOUS
<1>6. Filings(it, Q)
  BY <1>4, <1>5 DEF Filings
<1> QED BY <1>3, <1>6

LEMMA KidRowIs ==
  ASSUME NEW kid, IsFiniteSet(kid.requests), \A q \in kid.requests : IsRequest(q)
  PROVE  IsRowOf(KidRow(kid), kid.requests) /\ KidRow(kid).model = kid.model
<1> DEFINE Q == kid.requests
           l == KidRow(kid).ledger
           iter[s \in SUBSET Q] ==
             IF s = {} THEN NoLedger
             ELSE LET x == CHOOSE x \in s : TRUE
                  IN  Filed(iter[s \ {x}], x.model, x.use.in, x.use)
           it == [T \in SUBSET Q |-> [b \in Bucket |-> Total(UseOf(Q), Of(T, b))]]
<1>1. KidRow(kid).model = kid.model /\ KidRow(kid).usage = Total(UseOf(Q), Q)
  BY DEF KidRow, UseOf
<1>2. l = iter[Q]
  BY DEF KidRow, FoldSet, MapThenFoldSet
<1>3. iter = CHOOSE i : Filings(i, Q)
  BY DEF Filings, FileStep, First
<1>4. it[Q] \in Ledger /\ Filings(it, Q) /\ \A b \in Bucket : it[Q][b] = Total(UseOf(Q), Of(Q, b))
  <2>1. \A b \in Bucket : it[Q][b] = Total(UseOf(Q), Of(Q, b))
    OBVIOUS
  <2>2. it = [T \in SUBSET Q |-> [b \in Bucket |-> Total(UseOf(Q), Of(T, b))]]
    OBVIOUS
  <2> HIDE DEF it, Q
  <2>3. IsFiniteSet(Q) /\ \A q \in Q : IsRequest(q)
    BY DEF Q
  <2> QED BY <2>1, <2>2, <2>3, FilingIs
<1> HIDE DEF iter, it
<1>5. Filings(iter, Q)
  BY <1>3, <1>4
<1>6. iter[Q] = it[Q]
  <2> DEFINE G == {T \in SUBSET Q : iter[T] = it[T]}
  <2>1. \A T \in SUBSET Q : /\ iter[T] = FileStep(T, iter) /\ it[T] = FileStep(T, it)
                            /\ (T # {} => First(T) \in T)
    BY <1>4, <1>5 DEF Filings, First
  <2>2. {} \in G
    BY <2>1 DEF FileStep
  <2>3. ASSUME NEW T \in SUBSET Q, T # {}, \A x \in T : T \ {x} \in G PROVE T \in G
    BY <2>1, <2>3 DEF FileStep
  <2>4. IsFiniteSet(Q)
    OBVIOUS
  <2> HIDE DEF G, Q
  <2>5. Q \in G
    BY <2>2, <2>3, <2>4, SubsetBySubset
  <2> QED BY <2>5 DEF G
<1> HIDE DEF l
<1> QED BY <1>1, <1>2, <1>4, <1>6 DEF IsRowOf, l

RequestIn(x, m) == [model |-> x.model, use |-> x.usage, by |-> m]
RequestsIn(seen) == {RequestIn(seen[m], m) : m \in DOMAIN seen}

\* The session's own row is that of its messages.
LEMMA OwnRowIs ==
  ASSUME SessionInv, AllRead, NEW seen, seen = agg.acc.seen
  PROVE  /\ IsRowOf(OwnRow, RequestsIn(seen)) /\ OwnRow.model \in Models \cup {NoModel}
         /\ Requests = Asked(OwnRow.model, RequestsIn(seen))
<1> DEFINE D == DOMAIN seen
           Q == RequestsIn(seen)
           r == [m \in D |-> RequestIn(seen[m], m)]
           f == UsedIn(seen)
           g == UseOf(Q)
           l == agg.acc.ledger
<1>1. /\ AccOK(agg.acc) /\ Told = D /\ agg.model \in Models \cup {NoModel}
      /\ \A m \in Told : /\ seen[m].usage = heard[Deciding(m)].use
                         /\ seen[m].model = ModelAt(Deciding(m))
  BY WhatIsSeen
<1>2. /\ IsFiniteSet(D) /\ \A m \in D : IsSeen(seen[m])
      /\ agg.acc.usage = Total(f, D)
      /\ l \in Ledger /\ \A b \in Bucket : l[b] = Total(f, InBucket(seen, b))
  BY <1>1 DEF AccOK
<1>3. \A m \in D : /\ r[m].model = seen[m].model /\ r[m].use = seen[m].usage /\ r[m].by = m
                   /\ r[m] = RequestIn(seen[m], m) /\ f[m] = seen[m].usage
  BY DEF RequestIn, UsedIn
<1>4. Q = {r[m] : m \in D}
  BY DEF RequestsIn
<1> HIDE DEF r, f, Q
<1>5. ASSUME NEW m \in D PROVE IsRequest(r[m]) /\ f[m] \in Usage
  <2> DEFINE u == seen[m].usage
  <2>1. /\ u \in Usage /\ u.in \in Nat /\ u.out \in Nat /\ u.in <= MaxPrompt
        /\ seen[m].model \in Models \cup {NoModel}
    BY <1>2 DEF IsSeen, Priceable
  <2> HIDE DEF u
  <2>2. u \in [in : 0 .. MaxPrompt, out : Nat]
    <3>1. u = [in |-> u.in, out |-> u.out]
      BY <2>1 DEF Usage
    <3>2. u.in \in 0 .. MaxPrompt
      BY <2>1, MaxPromptAssumption
    <3> QED BY <2>1, <3>1, <3>2
  <2>3. r[m].use = u /\ f[m] = u /\ r[m].model = seen[m].model
    BY <1>3 DEF u
  <2> QED BY <2>1, <2>2, <2>3 DEF IsRequest
<1>6. /\ \A m \in D : r[m] \in Q /\ g[r[m]] = f[m]
      /\ \A m, n \in D : r[m] = r[n] => m = n
  BY <1>3, <1>4 DEF UseOf
<1> HIDE DEF g, D
<1>7. ASSUME NEW T \in SUBSET D
      PROVE  IsFiniteSet({r[m] : m \in T}) /\ Total(g, {r[m] : m \in T}) = Total(f, T)
  <2>1. IsFiniteSet(T) /\ \A m \in T : f[m] \in Usage /\ g[r[m]] = f[m]
    BY <1>2, <1>5, <1>6, FS_Subset
  <2>2. \A m, n \in T : r[m] = r[n] => m = n
    BY <1>6
  <2> QED BY <2>1, <2>2, TotalOfImage
<1>8. IsFiniteSet(Q) /\ Total(g, Q) = Total(f, D) /\ \A q \in Q : IsRequest(q)
  BY <1>4, <1>5, <1>7
<1>9. ASSUME NEW b \in Bucket PROVE l[b] = Total(g, Of(Q, b))
  <2> DEFINE T == InBucket(seen, b)
  <2>1. \A m \in D : BucketOf(r[m]) = FiledIn(seen[m])
    BY <1>3 DEF BucketOf, FiledIn
  <2>2. T \in SUBSET D /\ Of(Q, b) = {r[m] : m \in T}
    BY <1>4, <2>1 DEF InBucket, Of, D
  <2> HIDE DEF T
  <2>3. l[b] = Total(f, T)
    BY <1>2 DEF T
  <2> QED BY <1>7, <2>2, <2>3
<1>10. /\ OwnRow.model = agg.model /\ OwnRow.usage = agg.acc.usage /\ OwnRow.ledger = l
  BY DEF OwnRow
<1>11. IsRowOf(OwnRow, Q)
  <2> HIDE DEF l
  <2> QED BY <1>2, <1>8, <1>9, <1>10 DEF IsRowOf, g
<1>12. Requests = Asked(agg.model, Q)
  <2> DEFINE last == [m \in Told |-> Deciding(m)]
             of(m) == [model |-> ModelAt(last[m]), use |-> heard[last[m]].use, by |-> m]
             R == {of(m) : m \in DOMAIN last}
  <2>1. Requests = Asked(agg.model, R)
    BY DEF Requests
  <2>2. DOMAIN last = D /\ \A m \in D : last[m] = Deciding(m)
    BY <1>1
  <2>3. \A m \in D : of(m) = r[m]
    <3> HIDE DEF last
    <3> QED BY <1>1, <1>3, <2>2 DEF RequestIn
  <2>4. R = Q
    <3> HIDE DEF last, of
    <3> QED BY <1>4, <2>2, <2>3
  <2> QED BY <2>1, <2>4
<1> QED BY <1>1, <1>10, <1>11, <1>12 DEF Q

-----------------------------------------------------------------------------
(***************************************************************************)
(* What the children cost.                                                 *)
(***************************************************************************)
IsKid(kid) ==
  /\ kid.model \in Models \cup {NoModel}
  /\ IsFiniteSet(kid.requests) /\ kid.requests \subseteq Request

AskedBy(kid) == {q \in Asked(kid.model, kid.requests) : q.use # Zero \/ q.model # NoModel}
By(q, kid) == [model |-> q.model, use |-> q.use, by |-> kid.id]

LEMMA KidAsks ==
  ASSUME NEW kid, IsKid(kid), NEW A, A = Asked(kid.model, kid.requests)
  PROVE  /\ A \subseteq Request /\ AskedBy(kid) \subseteq A
         /\ \A q \in A : IsRequest(q) /\ q = [model |-> q.model, use |-> q.use]
         /\ \A q \in A : q.use = Zero => A = {q} /\ q.model = kid.model
         /\ AskedBy(kid) = {} => kid.model = NoModel
         /\ \A q \in A \ AskedBy(kid) : q.use = Zero /\ q.model = NoModel /\ A = {q}
         /\ \A q \in AskedBy(kid) : q.use # Zero \/ q.model # NoModel
<1> DEFINE nothing == [model |-> kid.model, use |-> Zero]
           N == {q \in kid.requests : q.use # Zero}
<1>1. A = IF N = {} THEN {nothing} ELSE N
  BY DEF Asked
<1>2. nothing \in Request
  <2>1. Zero \in [in : 0 .. MaxPrompt, out : Nat]
    BY MaxPromptAssumption DEF Zero, Use
  <2> QED BY <2>1 DEF Request, IsKid
<1>3. nothing.use = Zero /\ nothing.model = kid.model
  OBVIOUS
<1>4. N \subseteq Request /\ \A q \in N : q.use # Zero
  BY DEF IsKid
<1> HIDE DEF nothing, N
<1>5. A \subseteq Request
  BY <1>1, <1>2, <1>4
<1>6. \A q \in A : IsRequest(q) /\ q = [model |-> q.model, use |-> q.use]
  BY <1>5 DEF Request, IsRequest
<1>7. \A q \in A : q.use = Zero => A = {q} /\ q.model = kid.model
  BY <1>1, <1>3, <1>4
<1>8. \E q \in A : q.use # Zero \/ q.model = kid.model
  BY <1>1, <1>3, <1>4
<1>9. AskedBy(kid) = {q \in A : q.use # Zero \/ q.model # NoModel}
  BY DEF AskedBy
<1> QED BY <1>5, <1>6, <1>7, <1>8, <1>9

LEMMA AskedByOne == ASSUME NEW kid PROVE KidRequests({kid}) = {By(q, kid) : q \in AskedBy(kid)}
BY DEF KidRequests, AskedBy, By

\* What a child costs is what its requests cost; it is left out, in part or in
\* whole, exactly when one of them is.
LEMMA KidIs ==
  ASSUME NEW kid, IsKid(kid), NEW T, T = KidRequests({kid})
  PROVE  LET p == PricedRow(KidRow(kid))
         IN  /\ IsFiniteSet(T) /\ \A q \in T : IsRequest(q) /\ q.by = kid.id
             /\ p.usd \in Int /\ CostOfAll(T) = p.usd /\ (~p.ok => p.usd = 0)
             /\ p.missing \ {NoModel} = {q.model : q \in T} \ (DOMAIN Entries \cup {NoModel})
             /\ (IF p.ok THEN p.partial ELSE p.billed) <=> ~AllPriced(T)
<1> DEFINE p == PricedRow(KidRow(kid))
           A == Asked(kid.model, kid.requests)
           B == AskedBy(kid)
           r == [q \in A |-> By(q, kid)]
           f == [q \in A |-> CostOf(q.model, q.use, q.use.in)]
           g == [q \in T |-> CostOf(q.model, q.use, q.use.in)]
           some == \E q \in A : Priced(q.model)
<1>1. IsRowOf(KidRow(kid), kid.requests) /\ KidRow(kid).model = kid.model
  <2>1. \A q \in kid.requests : IsRequest(q)
    BY DEF IsKid, IsRequest, Request
  <2> QED BY <2>1, KidRowIs DEF IsKid
<1>2. /\ IsFiniteSet(A) /\ \A q \in A : IsRequest(q)
      /\ p.usd = CostOfAll(A) /\ p.usd \in Int
      /\ p.missing = {q.model : q \in A} \ DOMAIN Entries
      /\ p.ok <=> some
      /\ p.partial <=> some /\ ~AllPriced(A)
      /\ p.billed <=> kid.model # NoModel \/ \E q \in A : q.use # Zero
  <2> DEFINE row == KidRow(kid)
             Q == kid.requests
  <2>1. IsRowOf(row, Q) /\ row.model = kid.model /\ row.model \in Models \cup {NoModel}
        /\ A = Asked(row.model, Q)
    BY <1>1 DEF IsKid
  <2>2. p = PricedRow(row)
    OBVIOUS
  <2> HIDE DEF row, Q, A, p
  <2>3. LET price == PricedRow(row)
        IN  /\ IsFiniteSet(A) /\ \A q \in A : IsRequest(q)
            /\ price.usd = CostOfAll(A) /\ price.usd \in Int
            /\ price.missing = {q.model : q \in A} \ DOMAIN Entries
            /\ price.ok <=> \E q \in A : Priced(q.model)
            /\ price.partial <=> (\E q \in A : Priced(q.model)) /\ ~AllPriced(A)
            /\ price.billed <=> row.model # NoModel \/ \E q \in A : q.use # Zero
    BY <2>1, RowPriceIs
  <2> QED BY <2>1, <2>2, <2>3
<1>3. /\ B \subseteq A /\ \A q \in A : q = [model |-> q.model, use |-> q.use]
      /\ \A q \in A : q.use = Zero => A = {q} /\ q.model = kid.model
      /\ B = {} => kid.model = NoModel
      /\ \A q \in A \ B : q.use = Zero /\ q.model = NoModel /\ A = {q}
      /\ \A q \in B : q.use # Zero \/ q.model # NoModel
  BY KidAsks
<1> HIDE DEF A, B, p
<1>4. /\ T = {r[q] : q \in B} /\ DOMAIN r = A
      /\ \A q \in A : r[q].model = q.model /\ r[q].use = q.use /\ r[q].by = kid.id
  <2>1. T = {By(q, kid) : q \in B}
    BY AskedByOne DEF B
  <2>2. \A q \in B : r[q] = By(q, kid)
    BY <1>3
  <2>3. \A q \in A : /\ r[q] = By(q, kid) /\ By(q, kid).model = q.model
                     /\ By(q, kid).use = q.use /\ By(q, kid).by = kid.id
    BY DEF By
  <2>4. DOMAIN r = A
    OBVIOUS
  <2> HIDE DEF r
  <2>5. T = {r[q] : q \in B}
    BY <2>1, <2>2
  <2> QED BY <2>3, <2>4, <2>5
<1> HIDE DEF r
<1>5. IsFiniteSet(B) /\ IsFiniteSet(T) /\ \A q \in T : IsRequest(q) /\ q.by = kid.id
  <2>1. IsFiniteSet(B)
    BY <1>2, <1>3, FS_Subset
  <2>2. IsFiniteSet({r[q] : q \in B})
    BY <2>1, ImageIsFinite
  <2>3. \A q \in B : q \in A /\ IsRequest(r[q]) /\ r[q].by = kid.id
    BY <1>2, <1>3, <1>4 DEF IsRequest
  <2>4. T = {r[q] : q \in B}
    BY <1>4
  <2> HIDE DEF f, g
  <2>5. IsFiniteSet(T)
    BY <2>2, <2>4
  <2>6. ASSUME NEW t \in T PROVE IsRequest(t) /\ t.by = kid.id
    <3>1. PICK q \in B : t = r[q]
      BY <2>4
    <3> QED BY <2>3, <3>1
  <2> QED BY <2>1, <2>5, <2>6
<1>6. CostOfAll(T) = p.usd
  <2> DEFINE a == PricedOf(A)
             b == PricedOf(B)
  <2>1. /\ IsFiniteSet(a) /\ \A q \in a : f[q] \in Int
        /\ CostOfAll(A) = Sum(f, a)
    <3>1. \A q \in PricedOf(A) : f[q] = CostOf(q.model, q.use, q.use.in)
      BY DEF PricedOf
    <3> HIDE DEF f
    <3> QED BY <1>2, <3>1, CostOfAllIs
  <2>2. b \in SUBSET a /\ \A q \in a \ b : f[q] = 0
    <3>1. b \in SUBSET a
      BY <1>3 DEF PricedOf
    <3>2. ASSUME NEW q \in a \ b PROVE f[q] = 0
      <4>1. q \in A \ B /\ q.model \in DOMAIN Entries /\ q.use = Zero
            /\ f[q] = CostOf(q.model, q.use, q.use.in)
        BY <1>3 DEF PricedOf, Priced
      <4> HIDE DEF f
      <4> QED BY <4>1, UsageIs, CostType
    <3> QED BY <3>1, <3>2
  <2>3. Sum(f, a) = Sum(f, b)
    <3> HIDE DEF a, b, f
    <3> QED BY <2>1, <2>2, SumWithout
  <2>4. CostOfAll(T) = Sum(g, PricedOf(T))
    <3>1. \A q \in PricedOf(T) : g[q] = CostOf(q.model, q.use, q.use.in)
      BY DEF PricedOf
    <3> HIDE DEF g
    <3> QED BY <1>5, <3>1, CostOfAllIs
  <2>5. PricedOf(T) = {r[q] : q \in b}
    BY <1>3, <1>4 DEF PricedOf
  <2>6. Sum(g, {r[q] : q \in b}) = Sum(f, b)
    <3>1. IsFiniteSet(b) /\ \A q \in b : f[q] \in Int
      <4> HIDE DEF a, b, f
      <4> QED BY <2>1, <2>2, FS_Subset
    <3>2. \A q, s \in b : r[q] = r[s] => q = s
      <4>1. \A q \in b : q \in A
        BY <1>3 DEF PricedOf
      <4>2. \A q, s \in A : r[q] = r[s] => q = s
        <5> SUFFICES ASSUME NEW q \in A, NEW s \in A, r[q] = r[s] PROVE q = s
          OBVIOUS
        <5>1. q.model = s.model /\ q.use = s.use
          BY <1>4
        <5> QED BY <1>3, <5>1
      <4> HIDE DEF b
      <4> QED BY <4>1, <4>2
    <3>3. \A q \in b : g[r[q]] = f[q]
      <4>1. TAKE q \in b
      <4>2. q \in A /\ q \in B /\ r[q] \in T
        BY <1>3, <1>4 DEF PricedOf
      <4>3. g[r[q]] = CostOf(r[q].model, r[q].use, r[q].use.in)
        BY <4>2
      <4>4. f[q] = CostOf(q.model, q.use, q.use.in)
        BY <4>2
      <4>5. r[q].model = q.model /\ r[q].use = q.use
        BY <1>4, <4>2
      <4> HIDE DEF g, f, b
      <4> QED BY <4>3, <4>4, <4>5
    <3> HIDE DEF g, f, b
    <3> QED BY <3>1, <3>2, <3>3, SumOfImage
  <2> HIDE DEF f, g, a, b
  <2> QED BY <1>2, <2>1, <2>3, <2>4, <2>5, <2>6
<1>7. ~p.ok => p.usd = 0
  <2> SUFFICES ASSUME ~p.ok PROVE p.usd = 0
    OBVIOUS
  <2>1. PricedOf(A) = {}
    BY <1>2 DEF PricedOf
  <2>2. CostOfAll(A) = Sum(f, PricedOf(A))
    <3>1. \A q \in PricedOf(A) : f[q] = CostOf(q.model, q.use, q.use.in)
      BY DEF PricedOf
    <3> HIDE DEF f
    <3> QED BY <1>2, <3>1, CostOfAllIs
  <2> HIDE DEF f
  <2>3. Sum(f, {}) = 0
    BY SumEmpty
  <2> QED BY <1>2, <2>1, <2>2, <2>3
<1>8. p.missing \ {NoModel} = {q.model : q \in T} \ (DOMAIN Entries \cup {NoModel})
  <2>1. {q.model : q \in T} = {q.model : q \in B}
    BY <1>3, <1>4
  <2>2. {q.model : q \in A} \ {NoModel} = {q.model : q \in B} \ {NoModel}
    BY <1>3
  <2> QED BY <1>2, <2>1, <2>2
<1>9. AllPriced(T) <=> \A q \in B : Priced(q.model)
  BY <1>3, <1>4 DEF AllPriced
<1>10. (IF p.ok THEN p.partial ELSE p.billed) <=> ~AllPriced(T)
  <2>1. CASE p.ok
    <3>1. AllPriced(A) <=> \A q \in B : Priced(q.model)
      BY <1>2, <1>3, <2>1 DEF AllPriced
    <3>2. p.partial <=> ~AllPriced(A)
      BY <1>2, <2>1
    <3> QED BY <1>9, <2>1, <3>1, <3>2
  <2>2. CASE ~p.ok
    <3>1. AllPriced(T) <=> B = {}
      BY <1>2, <1>3, <1>9, <2>2
    <3>2. p.billed <=> B # {}
      BY <1>2, <1>3
    <3> QED BY <2>2, <3>1, <3>2
  <2> QED BY <2>1, <2>2
<1> QED BY <1>2, <1>5, <1>6, <1>7, <1>8, <1>10 DEF p

PricesOf(S) == {KidPrice[kid] : kid \in S}

LEMMA KidPriceIs ==
  ASSUME NEW kid \in UNION Families, NEW p, p = PricedRow(KidRow(kid))
  PROVE  /\ KidPrice[kid].id = kid.id
         /\ KidPrice[kid].usd = p.usd /\ KidPrice[kid].missing = p.missing
         /\ KidPrice[kid].ok = p.ok /\ KidPrice[kid].partial = p.partial
         /\ KidPrice[kid].billed = p.billed
BY DEF KidPrice

LEMMA KidsAsk ==
  ASSUME NEW S PROVE KidRequests(S) = UNION {KidRequests({kid}) : kid \in S}
<1> DEFINE asks(kid) == {By(q, kid) : q \in AskedBy(kid)}
           all(kid) == KidRequests({kid})
<1>1. KidRequests(S) = UNION {asks(kid) : kid \in S}
  BY DEF KidRequests, AskedBy, By
<1>2. \A kid \in S : all(kid) = asks(kid)
  BY AskedByOne
<1> HIDE DEF asks, all
<1>3. {all(kid) : kid \in S} = {asks(kid) : kid \in S}
  BY <1>2
<1>4. KidRequests(S) = UNION {all(kid) : kid \in S}
  BY <1>1, <1>3
<1> QED BY <1>4 DEF all

LEMMA KnownSum ==
  ASSUME NEW S, IsFiniteSet(S), NEW r, NEW f,
         \A kid, other \in S : r[kid] = r[other] => kid = other,
         \A kid \in S : f[kid] \in Int /\ r[kid].usd = f[kid],
         \A kid \in S : ~r[kid].ok => f[kid] = 0
  PROVE  /\ SumOf({r[kid] : kid \in S}) = Sum(f, S)
         /\ Known({r[kid] : kid \in S}) = {} => Sum(f, S) = 0
<1> DEFINE kids == {r[kid] : kid \in S}
           W == {kid \in S : r[kid].ok}
           V == {r[kid] : kid \in W}
           g == [kid \in V |-> kid.usd]
<1>1. W \in SUBSET S /\ \A kid \in S \ W : f[kid] = 0
  OBVIOUS
<1>2. Known(kids) = V
  BY DEF Known
<1>3. SumOf(kids) = SumFunction(g) /\ DOMAIN g = V
  BY <1>2 DEF SumOf
<1>4. \A kid \in W : g[r[kid]] = f[kid] /\ f[kid] \in Int
  OBVIOUS
<1>5. V = {} <=> W = {}
  OBVIOUS
<1>6. IsFiniteSet(W)
  BY <1>1, FS_Subset
<1> HIDE DEF g, W
<1>7. Sum(f, S) = Sum(f, W)
  BY <1>1, SumWithout
<1>8. \A kid, other \in W : r[kid] = r[other] => kid = other
  BY <1>1
<1>9. Sum(g, {r[kid] : kid \in W}) = Sum(f, W)
  <2> HIDE DEF V
  <2> QED BY <1>4, <1>6, <1>8, SumOfImage
<1>10. Sum(g, V) = Sum(f, W)
  BY <1>9
<1> HIDE DEF V, kids
<1>11. SumFunction(g) = Sum(g, V)
  BY <1>3, SumFunctionIs
<1>12. SumOf(kids) = Sum(f, S) /\ (Known(kids) = {} => Sum(f, S) = 0)
  BY <1>2, <1>3, <1>5, <1>7, <1>10, <1>11, SumEmpty
<1> QED BY <1>12 DEF kids

IsFamily(S) ==
  /\ IsFiniteSet(S) /\ S \subseteq UNION Families /\ \A kid \in S : IsKid(kid)
  /\ \A kid, other \in S : kid.id = other.id => kid = other

LEMMA FamilyIs == \A family \in Families : IsFamily(family)
<1> SUFFICES ASSUME NEW family \in Families PROVE IsFamily(family)
  OBVIOUS
<1>1. family \subseteq UNION Families
  OBVIOUS
<1> QED BY <1>1, FamiliesAssumption DEF IsFamily, IsKid

LEMMA SomeOfFamily == ASSUME NEW family, IsFamily(family), NEW S \in SUBSET family PROVE IsFamily(S)
BY FS_Subset DEF IsFamily

CostsOf(f, S) == \A kid \in S : f[kid] = PricedRow(KidRow(kid)).usd

\* Some children cost what their requests cost, and what is left out is told.
LEMMA FamilyCosts ==
  ASSUME NEW S, IsFamily(S), NEW f, CostsOf(f, S)
  PROVE  /\ IsFiniteSet(KidRequests(S)) /\ \A q \in KidRequests(S) : IsRequest(q)
         /\ \A kid \in S : f[kid] \in Int
         /\ Sum(f, S) \in Int
         /\ SumOf(PricesOf(S)) = Sum(f, S) /\ CostOfAll(KidRequests(S)) = Sum(f, S)
         /\ Known(PricesOf(S)) = {} => Sum(f, S) = 0
         /\ Omits(PricesOf(S)) <=> ~AllPriced(KidRequests(S))
         /\ (UNION {price.missing : price \in PricesOf(S)}) \ {NoModel}
              = {q.model : q \in KidRequests(S)} \ (DOMAIN Entries \cup {NoModel})
<1> DEFINE kids == PricesOf(S)
           T == KidRequests(S)
<1>1. /\ IsFiniteSet(S) /\ S \subseteq UNION Families
      /\ \A kid \in S : IsKid(kid) /\ f[kid] = PricedRow(KidRow(kid)).usd
      /\ \A kid, other \in S : kid.id = other.id => kid = other
      /\ kids = PricesOf(S) /\ T = KidRequests(S)
  BY DEF IsFamily, CostsOf
<1> HIDE DEF kids, T
<1> DEFINE p == [kid \in S |-> PricedRow(KidRow(kid))]
           tk == [kid \in S |-> KidRequests({kid})]
           r == [kid \in S |-> KidPrice[kid]]
<1>2. ASSUME NEW kid \in S
      PROVE  /\ IsFiniteSet(tk[kid]) /\ \A q \in tk[kid] : IsRequest(q) /\ q.by = kid.id
             /\ f[kid] = p[kid].usd /\ f[kid] \in Int /\ CostOfAll(tk[kid]) = f[kid]
             /\ ~p[kid].ok => f[kid] = 0
             /\ p[kid].missing \ {NoModel}
                  = {q.model : q \in tk[kid]} \ (DOMAIN Entries \cup {NoModel})
             /\ (IF p[kid].ok THEN p[kid].partial ELSE p[kid].billed) <=> ~AllPriced(tk[kid])
  <2> DEFINE x == PricedRow(KidRow(kid))
             t == KidRequests({kid})
  <2>1. tk[kid] = t /\ p[kid] = x /\ f[kid] = x.usd /\ IsKid(kid)
    BY <1>1
  <2>2. /\ IsFiniteSet(t) /\ \A q \in t : IsRequest(q) /\ q.by = kid.id
        /\ x.usd \in Int /\ CostOfAll(t) = x.usd /\ (~x.ok => x.usd = 0)
        /\ x.missing \ {NoModel} = {q.model : q \in t} \ (DOMAIN Entries \cup {NoModel})
        /\ (IF x.ok THEN x.partial ELSE x.billed) <=> ~AllPriced(t)
    BY <2>1, KidIs
  <2> HIDE DEF x, t, p, tk
  <2> QED BY <2>1, <2>2
<1>3. \A kid \in S : /\ r[kid].id = kid.id
                     /\ r[kid].usd = p[kid].usd /\ r[kid].missing = p[kid].missing
                     /\ r[kid].ok = p[kid].ok /\ r[kid].partial = p[kid].partial
                     /\ r[kid].billed = p[kid].billed
  <2>1. TAKE kid \in S
  <2> DEFINE x == PricedRow(KidRow(kid))
             y == KidPrice[kid]
  <2>2. r[kid] = y /\ p[kid] = x /\ kid \in UNION Families
    BY <1>1
  <2>3. /\ y.id = kid.id /\ y.usd = x.usd /\ y.missing = x.missing /\ y.ok = x.ok
        /\ y.partial = x.partial /\ y.billed = x.billed
    BY <2>2, KidPriceIs
  <2> HIDE DEF x, y, r, p
  <2> QED BY <2>2, <2>3
<1>4. kids = {r[kid] : kid \in S}
  BY <1>1 DEF PricesOf
<1>5. T = UNION {tk[kid] : kid \in S}
  <2> DEFINE all(kid) == KidRequests({kid})
  <2>1. \A kid \in S : tk[kid] = all(kid)
    OBVIOUS
  <2>2. T = UNION {all(kid) : kid \in S}
    BY <1>1, KidsAsk
  <2> HIDE DEF tk, all
  <2>3. {tk[kid] : kid \in S} = {all(kid) : kid \in S}
    BY <2>1
  <2> QED BY <2>2, <2>3
<1> HIDE DEF p, tk, r
<1>6. IsFiniteSet(T) /\ \A q \in T : IsRequest(q)
  <2>1. IsFiniteSet({tk[kid] : kid \in S})
    BY <1>1, ImageIsFinite
  <2>2. \A t \in {tk[kid] : kid \in S} : IsFiniteSet(t)
    BY <1>2
  <2>3. IsFiniteSet(T)
    BY <1>5, <2>1, <2>2, FS_UNION
  <2>4. \A q \in T : IsRequest(q)
    BY <1>2, <1>5
  <2> QED BY <2>3, <2>4
<1>7. \A kid \in S : \A q \in tk[kid] : q \in T
  BY <1>5
<1>8. Omits(kids) <=> ~AllPriced(T)
  <2>1. Omits(kids) <=> \E kid \in S : IF r[kid].ok THEN r[kid].partial ELSE r[kid].billed
    BY <1>4 DEF Omits
  <2>2. AllPriced(T) <=> \A kid \in S : AllPriced(tk[kid])
    BY <1>5 DEF AllPriced
  <2> QED BY <1>2, <1>3, <2>1, <2>2
<1>9. (UNION {price.missing : price \in kids}) \ {NoModel}
        = {q.model : q \in T} \ (DOMAIN Entries \cup {NoModel})
  <2> DEFINE U == UNION {price.missing : price \in kids}
             N == DOMAIN Entries \cup {NoModel}
             M == {q.model : q \in T}
  <2>1. ASSUME NEW m PROVE m \in U <=> \E kid \in S : m \in p[kid].missing
    <3>1. m \in U <=> \E price \in kids : m \in price.missing
      OBVIOUS
    <3>2. (\E price \in kids : m \in price.missing) <=> \E kid \in S : m \in r[kid].missing
      BY <1>4
    <3>3. \A kid \in S : r[kid].missing = p[kid].missing
      BY <1>3
    <3> HIDE DEF U, M, N
    <3> QED BY <3>1, <3>2, <3>3
  <2>2. ASSUME NEW m PROVE m \in M <=> \E kid \in S : \E q \in tk[kid] : q.model = m
    BY <1>5
  <2>3. ASSUME NEW m, m # NoModel, NEW kid \in S
        PROVE  m \in p[kid].missing <=> m \notin N /\ \E q \in tk[kid] : q.model = m
    <3>1. m \in p[kid].missing \ {NoModel}
            <=> m \in {q.model : q \in tk[kid]} \ (DOMAIN Entries \cup {NoModel})
      BY <1>2
    <3> QED BY <2>3, <3>1
  <2> HIDE DEF U, M
  <2>4. ASSUME NEW m PROVE m \in U \ {NoModel} <=> m \in M \ N
    BY <2>1, <2>2, <2>3
  <2> HIDE DEF N
  <2>5. U \ {NoModel} = M \ N
    BY <2>4
  <2> QED BY <2>5 DEF U, M, N
<1>10. SumOf(kids) = Sum(f, S) /\ (Known(kids) = {} => Sum(f, S) = 0)
  <2> DEFINE all == {r[kid] : kid \in S}
  <2>1. \A kid \in S : f[kid] \in Int /\ r[kid].usd = f[kid]
    BY <1>2, <1>3
  <2>2. \A kid \in S : ~r[kid].ok => f[kid] = 0
    BY <1>2, <1>3
  <2>3. \A kid, other \in S : r[kid] = r[other] => kid = other
    BY <1>1, <1>3
  <2>4. SumOf(all) = Sum(f, S) /\ (Known(all) = {} => Sum(f, S) = 0)
    BY <1>1, <2>1, <2>2, <2>3, KnownSum
  <2> HIDE DEF all
  <2>5. kids = all
    BY <1>4 DEF all
  <2> QED BY <2>4, <2>5
<1>11. CostOfAll(T) = Sum(f, S)
  <2> DEFINE g == [q \in T |-> CostOf(q.model, q.use, q.use.in)]
             owner == [q \in T |-> CHOOSE kid \in S : q \in tk[kid]]
             P == PricedOf(T)
             parts == [kid \in S |-> Sum(g, {q \in P : owner[q] = kid})]
  <2>1. \A q \in P : q \in T /\ g[q] = CostOf(q.model, q.use, q.use.in)
    BY DEF PricedOf
  <2>2. \A q \in T : owner[q] \in S /\ q \in tk[owner[q]]
    BY <1>5
  <2>3. IsFiniteSet(P) /\ (\A q \in P : g[q] \in Int) /\ CostOfAll(T) = Sum(g, P)
    <3> HIDE DEF g
    <3> QED BY <1>6, <2>1, CostOfAllIs DEF P
  <2>4. Sum(g, P) = Sum(parts, S)
    <3> HIDE DEF g, owner, P
    <3> QED BY <1>1, <2>1, <2>2, <2>3, SumOfParts
  <2>5. ASSUME NEW kid \in S PROVE parts[kid] = f[kid]
    <3> DEFINE t == tk[kid]
    <3>1. \A q \in T : owner[q] = kid <=> q \in t
      <4>1. ASSUME NEW q \in T, q \in t PROVE owner[q] = kid
        <5>1. owner[q] \in S /\ q \in tk[owner[q]]
          BY <2>2
        <5> HIDE DEF owner, P, g, parts
        <5>2. q.by = owner[q].id /\ q.by = kid.id
          BY <1>2, <4>1, <5>1
        <5> QED BY <1>1, <5>1, <5>2
      <4> HIDE DEF owner
      <4> QED BY <2>2, <4>1
    <3>2. {q \in P : owner[q] = kid} = PricedOf(t)
      <4> HIDE DEF owner, g, parts
      <4> QED BY <1>7, <3>1 DEF PricedOf
    <3>3. CostOfAll(t) = Sum(g, PricedOf(t))
      <4>1. \A q \in PricedOf(t) : g[q] = CostOf(q.model, q.use, q.use.in)
        BY <1>7 DEF PricedOf
      <4>2. IsFiniteSet(t) /\ \A q \in t : IsRequest(q)
        BY <1>2
      <4> HIDE DEF g, t
      <4> QED BY <4>1, <4>2, CostOfAllIs
    <3>4. parts[kid] = Sum(g, {q \in P : owner[q] = kid})
      OBVIOUS
    <3> HIDE DEF parts, g, owner, P
    <3> QED BY <1>2, <3>2, <3>3, <3>4
  <2>6. Sum(parts, S) = Sum(f, S)
    <3> HIDE DEF parts
    <3> QED BY <1>1, <2>5, SumSame
  <2> QED BY <2>3, <2>4, <2>6
<1>12. Sum(f, S) \in Int
  BY <1>1, <1>2, SumType
<1> QED BY <1>2, <1>6, <1>8, <1>9, <1>10, <1>11, <1>12 DEF kids, T

-----------------------------------------------------------------------------
(***************************************************************************)
(* The session with its children.                                          *)
(***************************************************************************)
FlowOf(family, w) == {kid \in family : kid.workflow = w}
FlowsOf(family) == {kid.workflow : kid \in family}
FlowPrice(family, w) == WorkflowPrice(PricesOf(FlowOf(family, w)))

\* A workflow's price is that of its children.
LEMMA FlowIs ==
  ASSUME NEW family, IsFamily(family), NEW f, CostsOf(f, family), NEW w,
         NEW x, x = FlowPrice(family, w).cost
  PROVE  /\ Sum(f, FlowOf(family, w)) = IF x = NoCost THEN 0 ELSE x
         /\ x # NoCost => (FlowPrice(family, w).partial <=> ~AllPriced(KidRequests(FlowOf(family, w))))
<1> DEFINE S == FlowOf(family, w)
           p == PricesOf(S)
           s == Sum(f, S)
<1>1. IsFamily(S) /\ CostsOf(f, S)
  <2>1. S \in SUBSET family
    BY DEF FlowOf
  <2> HIDE DEF S
  <2> QED BY <2>1, SomeOfFamily DEF CostsOf
<1>2. /\ SumOf(p) = s /\ s \in Int /\ (Known(p) = {} => s = 0)
      /\ Omits(p) <=> ~AllPriced(KidRequests(S))
  <2> HIDE DEF S
  <2> QED BY <1>1, FamilyCosts
<1>3. /\ x = IF Known(p) = {} THEN NoCost ELSE SumOf(p)
      /\ FlowPrice(family, w).partial = (Known(p) # {} /\ Omits(p))
  BY DEF FlowPrice, WorkflowPrice
<1> HIDE DEF s, p, S
<1>4. s # NoCost
  BY <1>2, NoCostAssumption
<1>5. s = (IF x = NoCost THEN 0 ELSE x) /\ (x # NoCost => Known(p) # {})
  BY <1>2, <1>3, <1>4
<1> QED BY <1>2, <1>3, <1>5 DEF s, S

\* The workflows add up.
LEMMA FlowsAddUp ==
  ASSUME NEW family, IsFamily(family), NEW f, CostsOf(f, family),
         NEW cost, DOMAIN cost = FlowsOf(family),
         \A w \in FlowsOf(family) : cost[w] = Sum(f, FlowOf(family, w))
  PROVE  SumFunction(cost) = Sum(f, family)
<1> DEFINE h == [kid \in family |-> kid.workflow]
           B == FlowsOf(family)
<1>1. B = {h[kid] : kid \in family} /\ \A kid \in family : h[kid] \in B /\ h[kid] = kid.workflow
  BY DEF FlowsOf
<1>2. IsFiniteSet(family) /\ \A kid \in family : f[kid] \in Int
  BY FamilyCosts DEF IsFamily
<1> HIDE DEF h
<1>3. IsFiniteSet({h[kid] : kid \in family})
  BY <1>2, ImageIsFinite
<1>4. IsFiniteSet(B)
  BY <1>1, <1>3
<1>5. ASSUME NEW w \in B PROVE cost[w] = Sum(f, {kid \in family : h[kid] = w})
  <2>1. FlowOf(family, w) = {kid \in family : h[kid] = w}
    BY <1>1 DEF FlowOf
  <2> QED BY <2>1
<1>6. SumFunction(cost) = Sum(cost, B)
  BY SumFunctionIs
<1> HIDE DEF B
<1>7. \A kid \in family : h[kid] \in B
  BY <1>1
<1>8. Sum(f, family) = Sum(cost, B)
  BY <1>2, <1>4, <1>5, <1>7, SumByParts
<1> QED BY <1>6, <1>8

ModelsOf(S) == {q.model : q \in S}
MissingIn(kids) == UNION {price.missing : price \in kids}

\* What is missing, of the session's own row and its children's.
LEMMA MissingIs ==
  ASSUME NEW own, NEW kids, NEW A, NEW T,
         own.missing = ModelsOf(A) \ DOMAIN Entries,
         MissingIn(kids) \ {NoModel} = ModelsOf(T) \ (DOMAIN Entries \cup {NoModel})
  PROVE  SessionPrice(own, kids).unpriced
           = ModelsOf(A \cup T) \ (DOMAIN Entries \cup {NoModel})
<1>1. SessionPrice(own, kids).unpriced
        = (UNION {row.missing : row \in {own} \cup kids}) \ {NoModel}
  BY DEF SessionPrice
<1> DEFINE V == UNION {row.missing : row \in {own} \cup kids}
<1>2. \A m : m \in V <=> m \in own.missing \/ m \in MissingIn(kids)
  BY DEF MissingIn
<1>3. \A m : m \in ModelsOf(A \cup T) <=> m \in ModelsOf(A) \/ m \in ModelsOf(T)
  BY DEF ModelsOf
<1> HIDE DEF V
<1>4. V \ {NoModel} = ModelsOf(A \cup T) \ (DOMAIN Entries \cup {NoModel})
  BY <1>2, <1>3
<1> QED BY <1>1, <1>4 DEF V

LEMMA PricedIs == ASSUME SessionInv PROVE PricedAsBilled
<1> SUFFICES ASSUME AllRead PROVE PricedAsBilled
  BY DEF PricedAsBilled
<1> DEFINE asked == Requests
           own == PricedRow(OwnRow)
           price(family) == SessionPrice(own, PricesOf(family))
           cost(family) ==
             [w \in FlowsOf(family) |->
                IF FlowPrice(family, w).cost = NoCost THEN 0 ELSE FlowPrice(family, w).cost]
<1>1. /\ \A q \in asked : IsRequest(q)
      /\ own.usd = CostOfAll(asked) /\ own.usd \in Int
      /\ own.missing = {q.model : q \in asked} \ DOMAIN Entries
      /\ own.ok <=> \E q \in asked : Priced(q.model)
      /\ own.partial <=> (\E q \in asked : Priced(q.model)) /\ ~AllPriced(asked)
  <2> DEFINE Q == RequestsIn(agg.acc.seen)
             row == OwnRow
  <2>1. /\ IsRowOf(row, Q) /\ row.model \in Models \cup {NoModel}
        /\ asked = Asked(row.model, Q)
    BY OwnRowIs
  <2> HIDE DEF Q, row, asked
  <2>2. LET p == PricedRow(row)
        IN  /\ IsFiniteSet(asked) /\ \A q \in asked : IsRequest(q)
            /\ p.usd = CostOfAll(asked) /\ p.usd \in Int
            /\ p.missing = {q.model : q \in asked} \ DOMAIN Entries
            /\ p.ok <=> \E q \in asked : Priced(q.model)
            /\ p.partial <=> (\E q \in asked : Priced(q.model)) /\ ~AllPriced(asked)
            /\ p.billed <=> row.model # NoModel \/ \E q \in asked : q.use # Zero
    BY <2>1, RowPriceIs
  <2> QED BY <2>2 DEF row
<1> HIDE DEF asked, own
<1>2. ASSUME NEW family \in Families
      PROVE  LET p == price(family)
                 T == KidRequests(family)
             IN  /\ p.cost = NoCost <=> \A q \in asked : ~Priced(q.model)
                 /\ p.cost # NoCost =>
                      /\ p.cost = CostOfAll(asked) + CostOfAll(T)
                      /\ p.partial <=> ~AllPriced(asked \cup T)
                      /\ p.cost = own.usd + SumFunction(cost(family))
                 /\ \A w \in FlowsOf(family) : FlowPrice(family, w).cost # NoCost =>
                      (FlowPrice(family, w).partial
                         <=> ~AllPriced(KidRequests(FlowOf(family, w))))
                 /\ p.unpriced = {q.model : q \in asked \cup T} \ (DOMAIN Entries \cup {NoModel})
  <2> DEFINE p == price(family)
             T == KidRequests(family)
             kids == PricesOf(family)
             f == [kid \in family |-> PricedRow(KidRow(kid)).usd]
             s == Sum(f, family)
             c == cost(family)
  <2>1. IsFamily(family) /\ CostsOf(f, family)
    BY FamilyIs DEF CostsOf
  <2> HIDE DEF f
  <2>2. /\ s \in Int /\ SumOf(kids) = s /\ CostOfAll(T) = s
        /\ Omits(kids) <=> ~AllPriced(T)
    BY <2>1, FamilyCosts
  <2>3. p.unpriced = {q.model : q \in asked \cup T} \ (DOMAIN Entries \cup {NoModel})
    <3>1. MissingIn(kids) \ {NoModel} = ModelsOf(T) \ (DOMAIN Entries \cup {NoModel})
      BY <2>1, FamilyCosts DEF MissingIn, ModelsOf
    <3>2. own.missing = ModelsOf(asked) \ DOMAIN Entries
      BY <1>1 DEF ModelsOf
    <3> HIDE DEF kids, T
    <3>3. SessionPrice(own, kids).unpriced
            = ModelsOf(asked \cup T) \ (DOMAIN Entries \cup {NoModel})
      BY <3>1, <3>2, MissingIs
    <3> QED BY <3>3 DEF kids, ModelsOf
  <2>4. ASSUME NEW w \in FlowsOf(family)
        PROVE  /\ c[w] = Sum(f, FlowOf(family, w))
               /\ FlowPrice(family, w).cost # NoCost =>
                    (FlowPrice(family, w).partial <=> ~AllPriced(KidRequests(FlowOf(family, w))))
    <3> DEFINE x == FlowPrice(family, w).cost
    <3>1. c[w] = IF x = NoCost THEN 0 ELSE x
      OBVIOUS
    <3> HIDE DEF c
    <3>2. /\ Sum(f, FlowOf(family, w)) = IF x = NoCost THEN 0 ELSE x
          /\ x # NoCost => (FlowPrice(family, w).partial
                              <=> ~AllPriced(KidRequests(FlowOf(family, w))))
      BY <2>1, FlowIs
    <3> QED BY <3>1, <3>2
  <2>5. SumFunction(c) = s
    <3>1. DOMAIN c = FlowsOf(family)
      OBVIOUS
    <3> HIDE DEF c
    <3>2. \A w \in FlowsOf(family) : c[w] = Sum(f, FlowOf(family, w))
      BY <2>4
    <3> QED BY <2>1, <3>1, <3>2, FlowsAddUp
  <2>6. /\ p.cost = IF own.ok THEN own.usd + SumOf(kids) ELSE NoCost
        /\ p.partial = (own.ok /\ (own.partial \/ Omits(kids)))
    BY DEF SessionPrice
  <2> DEFINE some == \E q \in asked : Priced(q.model)
  <2>7. own.ok <=> some
    BY <1>1
  <2>8. AllPriced(asked \cup T) <=> AllPriced(asked) /\ AllPriced(T)
    BY DEF AllPriced
  <2> DEFINE u == own.usd
  <2> HIDE DEF s, c, p, kids, T, price, cost, some, u
  <2>9. u \in Int /\ u + s \in Int /\ u + s # NoCost /\ SumOf(kids) = s
    BY <1>1, <2>2, NoCostAssumption DEF u
  <2>10. p.cost = IF own.ok THEN u + s ELSE NoCost
    BY <2>6, <2>9 DEF u
  <2>11. p.cost = NoCost <=> ~some
    BY <2>7, <2>9, <2>10
  <2>12. p.cost # NoCost =>
           /\ p.cost = CostOfAll(asked) + CostOfAll(T)
           /\ p.partial <=> ~AllPriced(asked \cup T)
           /\ p.cost = u + SumFunction(c)
    <3> SUFFICES ASSUME p.cost # NoCost
                 PROVE  /\ p.cost = CostOfAll(asked) + CostOfAll(T)
                        /\ p.partial <=> ~AllPriced(asked \cup T)
                        /\ p.cost = u + SumFunction(c)
      OBVIOUS
    <3>1. own.ok /\ some /\ p.cost = u + s
      BY <2>7, <2>10
    <3>2. CostOfAll(asked) = u
      BY <1>1 DEF u
    <3>3. p.partial <=> own.partial \/ Omits(kids)
      BY <2>6, <3>1
    <3>4. own.partial <=> ~AllPriced(asked)
      BY <1>1, <3>1 DEF some
    <3> QED BY <2>2, <2>5, <2>8, <3>1, <3>2, <3>3, <3>4
  <2> QED BY <2>3, <2>4, <2>11, <2>12 DEF p, T, c, some, u
<1>3. \A family \in Families : /\ PricesOf(family) = {KidPrice[kid] : kid \in family}
  BY DEF PricesOf
<1> QED BY <1>2 DEF PricedAsBilled, PricesOf, FlowsOf, FlowOf, FlowPrice, asked, own

\* Once its transcript is read, a session costs what each request of it and of
\* its children costs at its own model and exact prompt, its workflows add up
\* to it, and it is marked partial exactly when a request is left out, for any
\* table, children and revisions (cost.go:149-160, reduce.go:420-445,
\* domain/types.go:119-125).
THEOREM CostsAreAsBilled == Spec => []PricedAsBilled
<1> QED BY SessionKnowsWhatItRead, PricedIs, PTL
=============================================================================
