-------------------------- MODULE CodexRolloutProofs -------------------------
(***************************************************************************)
(* What holds of the reading of a rollout, for any models, requests, tools *)
(* and numbers of records, cuts and rotations: the ledger sums to the      *)
(* usage, a file that is read again counts once, and what is shown of a    *)
(* turn is the latest one.  Then, of the discovery of the rollouts.        *)
(***************************************************************************)
EXTENDS CodexRollout, RolloutIndex, TokenUsageProofs

-----------------------------------------------------------------------------
(***************************************************************************)
(* Reading: a record is applied to what the records before it gave.        *)
(***************************************************************************)
FoldStep(k, s, T, it) == IF T = {} THEN k ELSE Applied(it[T \ {Max(T)}], s[Max(T)])
Reading(it, k, s, S) == it = [T \in SUBSET S |-> FoldStep(k, s, T, it)]

LEMMA MaxIs ==
  ASSUME NEW n \in Nat, NEW T \in SUBSET (1 .. n), T # {}
  PROVE  Max(T) \in T /\ \A x \in T : x <= Max(T)
<1> DEFINE D == {n - x : x \in T}
<1>1. D \in SUBSET Nat /\ D # {}
  <2>1. \A x \in T : n - x \in Nat
    OBVIOUS
  <2>2. PICK x \in T : TRUE
    OBVIOUS
  <2>3. n - x \in D
    OBVIOUS
  <2> QED BY <2>1, <2>3
<1>2. PICK d \in D : \A e \in D : d <= e
  BY <1>1, LeastNumber
<1>3. PICK x \in T : d = n - x
  BY <1>2
<1>4. ASSUME NEW y \in T PROVE x >= y
  <2>1. n - y \in D
    OBVIOUS
  <2>2. n - x <= n - y
    BY <1>2, <1>3, <2>1
  <2>3. x \in Int /\ y \in Int
    OBVIOUS
  <2> QED BY <2>2, <2>3
<1>5. \E m \in T : \A y \in T : m >= y
  BY <1>4
<1> QED BY <1>5 DEF Max

LEMMA FoldsExist ==
  ASSUME NEW k, NEW s, NEW m \in Nat
  PROVE  \E it : Reading(it, k, s, 1 .. m)
<1> DEFINE S == 1 .. m
           n == Cardinality(S)
           U(c) == {T \in SUBSET S : Cardinality(T) <= c}
           G == {c \in 0 .. n : \E it : it = [T \in U(c) |-> FoldStep(k, s, T, it)]}
<1>1. n \in Nat /\ \A T \in SUBSET S : IsFiniteSet(T) /\ Cardinality(T) \in Nat /\ Cardinality(T) <= n
  <2>1. IsFiniteSet(S)
    BY FS_Interval
  <2> HIDE DEF S
  <2> QED BY <2>1, FS_Subset, FS_CardinalityType
<1>2. \A T \in SUBSET S : T # {} => Max(T) \in T /\ T \ {Max(T)} \in SUBSET S
                                     /\ Cardinality(T \ {Max(T)}) = Cardinality(T) - 1
  <2> SUFFICES ASSUME NEW T \in SUBSET S, T # {}
               PROVE Max(T) \in T /\ T \ {Max(T)} \in SUBSET S
                     /\ Cardinality(T \ {Max(T)}) = Cardinality(T) - 1
    OBVIOUS
  <2>1. Max(T) \in T
    BY MaxIs
  <2> HIDE DEF S
  <2> QED BY <1>1, <2>1, FS_RemoveElement
<1> HIDE DEF S
<1>3. \A T \in SUBSET S : Cardinality(T) = 0 => T = {}
  BY <1>1, FS_EmptySet
<1>4. 0 \in G
  <2> DEFINE it == [T \in U(0) |-> k]
  <2>1. \A T \in U(0) : T = {}
    BY <1>1, <1>3
  <2>2. it = [T \in U(0) |-> FoldStep(k, s, T, it)]
    BY <2>1 DEF FoldStep
  <2> HIDE DEF it
  <2>3. \E i : i = [T \in U(0) |-> FoldStep(k, s, T, i)]
    <3> HIDE DEF U
    <3> QED BY <2>2
  <2> HIDE DEF U
  <2>4. 0 \in 0 .. n
    BY <1>1
  <2> QED BY <2>3, <2>4
<1>5. ASSUME NEW c \in 0 .. n, c < n, c \in G PROVE c + 1 \in G
  <2>1. PICK old : old = [T \in U(c) |-> FoldStep(k, s, T, old)]
    BY <1>5
  <2> DEFINE it == [T \in U(c + 1) |-> FoldStep(k, s, T, old)]
  <2>2. ASSUME NEW T \in U(c + 1) PROVE it[T] = FoldStep(k, s, T, it)
    <3>1. T # {} => T \ {Max(T)} \in U(c) /\ T \ {Max(T)} \in U(c + 1)
      <4> SUFFICES ASSUME T # {}
                   PROVE T \ {Max(T)} \in U(c) /\ T \ {Max(T)} \in U(c + 1)
        OBVIOUS
      <4>1. Cardinality(T) \in Nat /\ Cardinality(T) <= c + 1 /\ c \in Nat
        BY <1>1
      <4>2. T \ {Max(T)} \in SUBSET S /\ Cardinality(T \ {Max(T)}) = Cardinality(T) - 1
        BY <1>2
      <4> DEFINE a == Cardinality(T)
                 b == Cardinality(T \ {Max(T)})
      <4>3. b <= c /\ b <= c + 1
        <5> HIDE DEF a, b
        <5>1. a \in Nat /\ a <= c + 1 /\ b = a - 1 /\ c \in Nat
          BY <4>1, <4>2 DEF a, b
        <5> QED BY <5>1
      <4> QED BY <4>2, <4>3
    <3>2. T # {} => it[T \ {Max(T)}] = old[T \ {Max(T)}]
      <4> SUFFICES ASSUME T # {} PROVE it[T \ {Max(T)}] = old[T \ {Max(T)}]
        OBVIOUS
      <4> DEFINE V == T \ {Max(T)}
      <4>1. V \in U(c) /\ V \in U(c + 1)
        BY <3>1
      <4> HIDE DEF V, U
      <4>2. it[V] = FoldStep(k, s, V, old) /\ old[V] = FoldStep(k, s, V, old)
        BY <2>1, <4>1
      <4> QED BY <4>2 DEF V
    <3> HIDE DEF U
    <3>3. it[T] = FoldStep(k, s, T, old)
      OBVIOUS
    <3> HIDE DEF it
    <3> QED BY <3>2, <3>3 DEF FoldStep
  <2>3. it = [T \in U(c + 1) |-> it[T]]
    OBVIOUS
  <2> HIDE DEF it, U
  <2>4. it = [T \in U(c + 1) |-> FoldStep(k, s, T, it)]
    BY <2>2, <2>3
  <2>5. c + 1 \in 0 .. n
    BY <1>1, <1>5
  <2> QED BY <2>4, <2>5
<1> HIDE DEF G
<1>6. n \in G
  <2> HIDE DEF n
  <2> QED BY <1>1, <1>4, <1>5, CountUp
<1>7. U(n) = SUBSET S
  BY <1>1
<1> HIDE DEF U, n
<1>8. \E it : it = [T \in SUBSET S |-> FoldStep(k, s, T, it)]
  BY <1>6, <1>7 DEF G
<1> QED BY <1>8 DEF Reading, S

Folded(k, s) == FoldLeft(Applied, k, s)

LEMMA FoldedIs ==
  ASSUME NEW k, NEW m \in Nat, NEW s, DOMAIN s = 1 .. m
  PROVE  \E it : Reading(it, k, s, 1 .. m) /\ Folded(k, s) = it[1 .. m]
<1> DEFINE iter[t \in SUBSET (1 .. m)] ==
             IF t = {} THEN k
             ELSE LET x == Max(t)
                  IN  Applied(iter[t \ {x}], s[x])
<1>1. Folded(k, s) = iter[1 .. m]
  BY DEF Folded, FoldLeft, MapThenFoldSet
<1>2. iter = CHOOSE it : Reading(it, k, s, 1 .. m)
  BY DEF Reading, FoldStep
<1> HIDE DEF iter
<1>3. Reading(iter, k, s, 1 .. m)
  BY <1>2, FoldsExist
<1> QED BY <1>1, <1>3

LEMMA FoldedEmpty ==
  ASSUME NEW k PROVE Folded(k, <<>>) = k
<1>1. DOMAIN <<>> = 1 .. 0 /\ 1 .. 0 = {}
  OBVIOUS
<1>2. PICK it : Reading(it, k, <<>>, 1 .. 0) /\ Folded(k, <<>>) = it[1 .. 0]
  BY <1>1, FoldedIs
<1>3. it[{}] = FoldStep(k, <<>>, {}, it)
  BY <1>1, <1>2 DEF Reading
<1> QED BY <1>1, <1>2, <1>3 DEF FoldStep

LEMMA FoldedAppend ==
  ASSUME NEW k, NEW S, NEW s \in Seq(S), NEW x \in S
  PROVE  Folded(k, Append(s, x)) = Applied(Folded(k, s), x)
<1> DEFINE m == Len(s)
           t == Append(s, x)
           R == 1 .. m
           V == 1 .. m + 1
<1>1. m \in Nat /\ m + 1 \in Nat /\ DOMAIN s = R /\ DOMAIN t = V
  OBVIOUS
<1>2. t[m + 1] = x /\ \A i \in R : t[i] = s[i]
  OBVIOUS
<1>3. m + 1 \in V /\ V # {} /\ V \ {m + 1} = R /\ R \in SUBSET V
  BY <1>1
<1>4. Max(V) = m + 1
  <2>1. Max(V) \in V /\ \A i \in V : i <= Max(V)
    <3> DEFINE n == m + 1
    <3>1. n \in Nat /\ V \in SUBSET (1 .. n)
      BY <1>1
    <3> HIDE DEF V, n
    <3> QED BY <1>3, <3>1, MaxIs
  <2> QED BY <1>1, <1>3, <2>1
<1> HIDE DEF m, t
<1>5. PICK a : Reading(a, k, t, V) /\ Folded(k, t) = a[V]
  BY <1>1, FoldedIs
<1>6. PICK b : Reading(b, k, s, R) /\ Folded(k, s) = b[R]
  BY <1>1, FoldedIs
<1>7. a[R] = b[R]
  <2> DEFINE G == {T \in SUBSET R : a[T] = b[T]}
  <2>1. ASSUME NEW T \in SUBSET R
        PROVE  /\ a[T] = FoldStep(k, t, T, a) /\ b[T] = FoldStep(k, s, T, b)
               /\ (T # {} => Max(T) \in T)
    BY <1>1, <1>3, <1>5, <1>6, MaxIs DEF Reading
  <2>2. {} \in G
    BY <2>1 DEF FoldStep
  <2>3. ASSUME NEW T \in SUBSET R, T # {}, \A y \in T : T \ {y} \in G PROVE T \in G
    BY <1>2, <2>1, <2>3 DEF FoldStep
  <2>4. IsFiniteSet(R)
    BY <1>1, FS_Interval
  <2> HIDE DEF G
  <2>5. \A T \in SUBSET R : T \in G
    <3> HIDE DEF R
    <3> QED BY <2>2, <2>3, <2>4, SubsetBySubset
  <2> QED BY <2>5 DEF G
<1>8. a[V] = FoldStep(k, t, V, a)
  <2> HIDE DEF V
  <2> QED BY <1>5 DEF Reading
<1>9. a[V] = Applied(a[R], x)
  BY <1>2, <1>3, <1>4, <1>8 DEF FoldStep
<1> QED BY <1>5, <1>6, <1>7, <1>9 DEF t

\* One record more.
LEMMA FoldedStep ==
  ASSUME NEW k, NEW S, NEW s \in Seq(S), NEW a \in Nat, NEW j \in Nat, a <= j, j < Len(s)
  PROVE  Folded(k, SubSeq(s, a + 1, j + 1)) = Applied(Folded(k, SubSeq(s, a + 1, j)), s[j + 1])
<1> DEFINE t == SubSeq(s, a + 1, j)
           x == s[j + 1]
<1>1. t \in Seq(S) /\ x \in S
  OBVIOUS
<1>2. SubSeq(s, a + 1, j + 1) = Append(t, x)
  OBVIOUS
<1> HIDE DEF t, x
<1>3. Folded(k, Append(t, x)) = Applied(Folded(k, t), x)
  BY <1>1, FoldedAppend
<1> DEFINE u == SubSeq(s, a + 1, j + 1)
<1>4. u = Append(t, x)
  BY <1>2
<1> HIDE DEF u
<1>5. Folded(k, u) = Applied(Folded(k, t), x)
  BY <1>3, <1>4
<1> QED BY <1>5 DEF t, x, u

LEMMA FoldedNone ==
  ASSUME NEW k, NEW S, NEW s \in Seq(S), NEW a \in Nat
  PROVE  Folded(k, SubSeq(s, a + 1, a)) = k
<1>1. SubSeq(s, a + 1, a) = <<>>
  OBVIOUS
<1> QED BY <1>1, FoldedEmpty

-----------------------------------------------------------------------------
(***************************************************************************)
(* The records of the file, and what each does to the fields of a rollout. *)
(***************************************************************************)
NatUse == [in : Nat, out : Nat]
Small(u) == u \in NatUse /\ u.in + u.out <= MaxPrompt

CountRow ==
  {row \in [is : {"count"}, total : NatUse, last : NatUse, ts : Nat \ {0}, window : Nat,
            limits : {Absent} \cup SUBSET Scopes] : Small(row.total) /\ Small(row.last)}

Records == Metas \cup CountRow \cup TurnContext \cup TaskEvent \cup ResponseItem

LEMMA RecordKinds ==
  ASSUME NEW row \in Records
  PROVE  \/ row.is = "meta" /\ IsMeta(row)
         \/ row.is = "count" /\ row \in CountRow
         \/ row.is = "turn" /\ row.model \in Models
         \/ row.is = "started" /\ row.window = StartWindow
         \/ row.is = "complete"
         \/ row.is \in {"call", "output"}
BY RecordsAssumption DEF Records, IsMeta, CountRow, TurnContext, TaskEvent, ResponseItem

LEMMA CountRowIs ==
  ASSUME NEW row \in CountRow
  PROVE  /\ row.is = "count" /\ row.total \in Usage /\ row.last \in Usage
         /\ row.ts \in Nat /\ row.ts > 0 /\ row.window \in Nat
         /\ Prompt(row) \in Int /\ Prompt(row) <= MaxPrompt
<1>1. /\ row.is = "count" /\ Small(row.total) /\ Small(row.last)
      /\ row.ts \in Nat /\ row.ts > 0 /\ row.window \in Nat
  BY DEF CountRow
<1>2. row.total \in Usage /\ row.last \in Usage
  BY <1>1 DEF Small, NatUse, Usage
<1>3. Prompt(row) \in Int /\ Prompt(row) <= MaxPrompt
  BY <1>1, MaxPromptAssumption DEF Small, NatUse, Prompt
<1> QED BY <1>1, <1>2, <1>3

Fields(k) ==
  [usage |-> k.usage, has |-> k.has, ledger |-> k.ledger, window |-> k.window,
   lastUsageAt |-> k.lastUsageAt, used |-> k.used, model |-> k.model,
   max |-> k.max, exact |-> k.exact, limits |-> k.limits,
   status |-> k.status, completed |-> k.completed, calls |-> k.calls, pending |-> k.pending,
   session |-> k.session, thread |-> k.thread, parent |-> k.parent,
   type |-> k.type, depth |-> k.depth]

SameCounts(k, l) ==
  /\ k.usage = l.usage /\ k.has = l.has /\ k.ledger = l.ledger /\ k.window = l.window
  /\ k.lastUsageAt = l.lastUsageAt /\ k.used = l.used /\ k.exact = l.exact
  /\ k.limits = l.limits
SameThread(k, l) ==
  /\ k.session = l.session /\ k.thread = l.thread /\ k.parent = l.parent
  /\ k.type = l.type /\ k.depth = l.depth
SameTask(k, l) == k.status = l.status /\ k.completed = l.completed
SameCalls(k, l) == k.calls = l.calls /\ k.pending = l.pending

LEMMA TurnFields ==
  ASSUME NEW k, k = Fields(k), NEW row, row.is = "turn"
  PROVE  LET a == Applied(k, row) IN
         /\ a = Fields(a) /\ SameCounts(a, k) /\ SameThread(a, k) /\ SameTask(a, k)
         /\ SameCalls(a, k) /\ a.max = k.max /\ a.model = row.model
BY DEF Applied, Fields, SameCounts, SameThread, SameTask, SameCalls

LEMMA StartedFields ==
  ASSUME NEW k, k = Fields(k), NEW row, row.is = "started"
  PROVE  LET a == Applied(k, row) IN
         /\ a = Fields(a) /\ SameCounts(a, k) /\ SameThread(a, k) /\ SameCalls(a, k)
         /\ a.model = k.model /\ a.status = "busy" /\ a.completed = FALSE
         /\ a.max = IF k.max = 0 THEN row.window ELSE k.max
BY DEF Applied, Started, Fields, SameCounts, SameThread, SameTask, SameCalls

LEMMA CompleteFields ==
  ASSUME NEW k, k = Fields(k), NEW row, row.is = "complete"
  PROVE  LET a == Applied(k, row) IN
         /\ a = Fields(a) /\ SameCounts(a, k) /\ SameThread(a, k) /\ SameCalls(a, k)
         /\ a.model = k.model /\ a.status = "waiting" /\ a.completed = TRUE /\ a.max = k.max
BY DEF Applied, Fields, SameCounts, SameThread, SameTask, SameCalls

LEMMA CallFields ==
  ASSUME NEW k, k = Fields(k), NEW row, row.is = "call"
  PROVE  LET a == Applied(k, row) IN
         /\ a = Fields(a) /\ SameCounts(a, k) /\ SameThread(a, k) /\ SameTask(a, k)
         /\ a.model = k.model /\ a.max = k.max /\ a.pending = Append(k.pending, row.id)
BY DEF Applied, Fields, SameCounts, SameThread, SameTask, SameCalls

LEMMA OutputFields ==
  ASSUME NEW k, k = Fields(k), NEW row, row.is = "output"
  PROVE  LET a == Applied(k, row) IN
         /\ a = Fields(a) /\ SameCounts(a, k) /\ SameThread(a, k) /\ SameTask(a, k)
         /\ a.model = k.model /\ a.max = k.max /\ a.pending = Returned(k.pending, row.id)
BY DEF Applied, Fields, SameCounts, SameThread, SameTask, SameCalls

\* Who the thread is does not depend on having been told before.
LEMMA MetaFields ==
  ASSUME NEW k, k = Fields(k), NEW row, row.is = "meta"
  PROVE  LET a == Applied(k, row) IN
         /\ a = Fields(a) /\ SameCounts(a, k) /\ SameTask(a, k) /\ SameCalls(a, k)
         /\ a.model = k.model /\ a.max = k.max
         /\ \A l : l = Fields(l) /\ SameThread(k, l) => SameThread(a, Applied(l, row))
         /\ SameThread(k, Applied(New, row)) => SameThread(a, k)
<1> DEFINE a == Applied(k, row)
<1>1. /\ a = Fields(a) /\ SameCounts(a, k) /\ SameTask(a, k) /\ SameCalls(a, k)
      /\ a.model = k.model /\ a.max = k.max
  BY DEF Applied, Described, Fields, SameCounts, SameThread, SameTask, SameCalls
<1>2. ASSUME NEW l, l = Fields(l), SameThread(k, l) PROVE SameThread(a, Applied(l, row))
  BY <1>2 DEF Applied, Described, Fields, SameThread
<1>3. ASSUME SameThread(k, Applied(New, row)) PROVE SameThread(a, k)
  BY <1>3 DEF Applied, Described, Fields, SameThread, New, Given
<1> QED BY <1>1, <1>2, <1>3

UsedOf(row) == IF row.last = Zero THEN row.total.in + row.total.out
               ELSE row.last.in + row.last.out

LEMMA CountFields ==
  ASSUME NEW k, k = Fields(k), NEW row, row.is = "count"
  PROVE  LET a == Applied(k, row) IN
         /\ a = Fields(a) /\ SameThread(a, k) /\ SameTask(a, k) /\ SameCalls(a, k)
         /\ a.model = k.model /\ (Replayed(k, row) => a = k)
         /\ ~ Replayed(k, row) =>
              /\ a.window = IF k.has /\ Burst(k, row) = Zero THEN k.window
                            ELSE Recorded(k.window, row.ts, Burst(k, row))
              /\ a.ledger = Refiled(k, row) /\ a.has = TRUE /\ a.usage = row.total
              /\ a.lastUsageAt = IF row.ts = 0 THEN k.lastUsageAt ELSE row.ts
              /\ a.used = UsedOf(row) /\ a.max = IF row.window > 0 THEN row.window ELSE k.max
              /\ a.exact = (k.exact \/ row.window > 0)
              /\ a.limits = IF row.limits = Absent THEN k.limits ELSE Limits(row)
BY DEF Applied, Counted, Fields, SameThread, SameTask, SameCalls, UsedOf

\* What a record leaves alone, by what it says.
LEMMA AppliedFields ==
  ASSUME NEW k, k = Fields(k), NEW row \in Records
  PROVE  LET a == Applied(k, row) IN
         /\ a = Fields(a)
         /\ row.is # "count" =>
              SameCounts(a, k) /\ a.max = IF row.is = "started" /\ k.max = 0 THEN row.window
                                         ELSE k.max
         /\ row.is # "turn" => a.model = k.model
         /\ row.is = "turn" => a.model = row.model
         /\ row.is # "meta" => SameThread(a, k)
         /\ row.is \notin {"started", "complete"} => SameTask(a, k)
         /\ row.is = "started" => a.status = "busy" /\ a.completed = FALSE
         /\ row.is = "complete" => a.status = "waiting" /\ a.completed = TRUE
<1>1. CASE row.is = "meta"
  BY <1>1, MetaFields
<1>2. CASE row.is = "count"
  BY <1>2, CountFields
<1>3. CASE row.is = "turn"
  BY <1>3, TurnFields
<1>4. CASE row.is = "started"
  BY <1>4, StartedFields
<1>5. CASE row.is = "complete"
  BY <1>5, CompleteFields
<1>6. CASE row.is = "call"
  BY <1>6, CallFields
<1>7. CASE row.is = "output"
  BY <1>7, OutputFields
<1>8. row.is \in {"meta", "count", "turn", "started", "complete", "call", "output"}
  BY RecordKinds
<1> QED BY <1>1, <1>2, <1>3, <1>4, <1>5, <1>6, <1>7, <1>8

-----------------------------------------------------------------------------
(***************************************************************************)
(* The ledger sums to the usage, whatever is read and how often.           *)
(***************************************************************************)
IsRollout(k) ==
  /\ k = Fields(k)
  /\ k.usage \in Usage /\ k.ledger \in Ledger /\ k.model \in Models \cup {NoModel}
  /\ k.usage = Total(k.ledger, Bucket) /\ k.exact \in BOOLEAN

LEMMA NewIs == IsRollout(New)
<1>1. New = Fields(New) /\ New.usage = Zero /\ New.ledger = NoLedger /\ New.model = NoModel
      /\ New.exact = FALSE
  BY DEF New, Fields
<1> HIDE DEF New
<1> QED BY <1>1, UsageIs, LedgerTotal DEF IsRollout

LEMMA RefiledIs ==
  ASSUME NEW k, IsRollout(k), NEW row \in CountRow
  PROVE  Refiled(k, row) \in Ledger /\ row.total = Total(Refiled(k, row), Bucket)
<1> DEFINE d == Minus(row.total, k.usage)
<1>1. d \in Usage /\ row.total \in Usage /\ k.usage \in Usage /\ Plus(k.usage, d) = row.total
  BY CountRowIs, UsageIs DEF IsRollout
<1>2. k.model \in Models \cup {NoModel} /\ Prompt(row) \in Int /\ Prompt(row) <= MaxPrompt
  BY CountRowIs DEF IsRollout
<1> HIDE DEF d
<1>3. CASE ~ k.has \/ Backwards(d)
  <2>1. Refiled(k, row) = Filed(NoLedger, k.model, Prompt(row), row.total)
    BY <1>3 DEF Refiled, d
  <2>2. Plus(Zero, row.total) = row.total
    BY <1>1, UsageIs
  <2>3. NoLedger \in Ledger /\ Total(NoLedger, Bucket) = Zero
    BY LedgerTotal
  <2> DEFINE ledger == NoLedger
             prompt == Prompt(row)
             u == row.total
             model == k.model
  <2>4. /\ ledger \in Ledger /\ Total(ledger, Bucket) = Zero /\ u \in Usage
        /\ Plus(Zero, u) = u /\ model \in Models \cup {NoModel}
        /\ prompt \in Int /\ prompt <= MaxPrompt
    BY <1>1, <1>2, <2>2, <2>3
  <2> HIDE DEF ledger, prompt, u, model
  <2>5. /\ Filed(ledger, model, prompt, u) \in Ledger
        /\ Total(Filed(ledger, model, prompt, u), Bucket) = u
    BY <2>4, FiledAdds
  <2> QED BY <2>1, <2>5 DEF ledger, prompt, u, model
<1>4. CASE ~ (~ k.has \/ Backwards(d))
  <2>1. Refiled(k, row) = Filed(k.ledger, k.model, Prompt(row), d)
    BY <1>4 DEF Refiled, d
  <2>2. k.ledger \in Ledger /\ k.usage = Total(k.ledger, Bucket)
    BY DEF IsRollout
  <2> QED BY <1>1, <1>2, <2>1, <2>2, FiledAdds
<1> QED BY <1>3, <1>4

LEMMA AppliedIs ==
  ASSUME NEW k, IsRollout(k), NEW row \in Records
  PROVE  IsRollout(Applied(k, row))
<1> DEFINE a == Applied(k, row)
<1>0. k = Fields(k)
  BY DEF IsRollout
<1>1. CASE row.is = "count" /\ row \in CountRow
  <2>1. CASE Replayed(k, row)
    BY <1>0, <1>1, <2>1, CountFields
  <2>2. CASE ~ Replayed(k, row)
    <3>1. /\ a = Fields(a) /\ a.usage = row.total /\ a.ledger = Refiled(k, row)
          /\ a.model = k.model /\ a.exact = (k.exact \/ row.window > 0)
      BY <1>0, <1>1, <2>2, CountFields
    <3> HIDE DEF a
    <3>2. a.usage \in Usage /\ a.ledger \in Ledger /\ a.usage = Total(a.ledger, Bucket)
      BY <1>1, <3>1, RefiledIs, CountRowIs
    <3>3. a.exact \in BOOLEAN
      BY <3>1
    <3> QED BY <3>1, <3>2, <3>3 DEF IsRollout, a
  <2> QED BY <2>1, <2>2
<1>2. CASE row.is = "turn" /\ row.model \in Models
  <2>1. a = Fields(a) /\ SameCounts(a, k) /\ a.model = row.model
    BY <1>0, <1>2, TurnFields
  <2> QED BY <1>2, <2>1 DEF IsRollout, SameCounts
<1>3. CASE row.is \in {"meta", "started", "complete", "call", "output"}
  <2>1. a = Fields(a) /\ SameCounts(a, k) /\ a.model = k.model
    <3>1. CASE row.is = "meta"
      BY <1>0, <3>1, MetaFields
    <3>2. CASE row.is = "started"
      BY <1>0, <3>2, StartedFields
    <3>3. CASE row.is = "complete"
      BY <1>0, <3>3, CompleteFields
    <3>4. CASE row.is = "call"
      BY <1>0, <3>4, CallFields
    <3>5. CASE row.is = "output"
      BY <1>0, <3>5, OutputFields
    <3> QED BY <1>3, <3>1, <3>2, <3>3, <3>4, <3>5
  <2> QED BY <2>1 DEF IsRollout, SameCounts
<1> QED BY <1>1, <1>2, <1>3, RecordKinds

LEMMA FoldedType ==
  ASSUME NEW k, IsRollout(k), NEW s \in Seq(Records), NEW a \in Nat, NEW n \in Nat,
         a <= n, n <= Len(s)
  PROVE  IsRollout(Folded(k, SubSeq(s, a + 1, n)))
<1> DEFINE G == {j \in a .. n : IsRollout(Folded(k, SubSeq(s, a + 1, j)))}
<1>1. a \in G
  BY FoldedNone
<1>2. ASSUME NEW j \in a .. n, j < n, j \in G PROVE j + 1 \in G
  <2>1. j \in Nat /\ j < Len(s) /\ j + 1 \in a .. n
    BY <1>2
  <2>2. s[j + 1] \in Records
    BY <2>1
  <2> DEFINE o == Folded(k, SubSeq(s, a + 1, j))
  <2>3. Folded(k, SubSeq(s, a + 1, j + 1)) = Applied(o, s[j + 1])
    BY <2>1, FoldedStep
  <2>4. IsRollout(o)
    BY <1>2
  <2> HIDE DEF o
  <2>5. IsRollout(Applied(o, s[j + 1]))
    BY <2>2, <2>4, AppliedIs
  <2> QED BY <2>1, <2>3, <2>5
<1> HIDE DEF G
<1>3. n \in G
  BY <1>1, <1>2, CountFrom
<1> QED BY <1>3 DEF G

TypeOK ==
  /\ rows \in Seq(Records) /\ Small(total) /\ clock \in Nat /\ inode \in Nat \ {0}
  /\ cuts \in Nat /\ rotations \in Nat /\ cuts <= rotations
  /\ tail \in [inode : Nat, read : Nat] /\ IsRollout(r)

LEMMA ZeroSmall == Small(Zero) /\ Zero \in NatUse
BY MaxPromptAssumption DEF Small, NatUse, Zero, Use

\* What Count writes.
CountedRow(q, sum) ==
  [is |-> "count", total |-> sum, last |-> q.use, ts |-> clock + 1,
   window |-> q.window, limits |-> q.limits]

LEMMA CountWrites ==
  ASSUME TypeOK, Count
  PROVE  /\ Small(total')
         /\ \E row \in CountRow : row.ts = clock + 1 /\ Write(row)
<1>1. PICK q \in Requests, over \in BOOLEAN :
         /\ total' = IF over THEN q.use ELSE Plus(total, q.use)
         /\ total'.in + total'.out <= MaxPrompt
         /\ Write(CountedRow(q, total'))
  BY DEF Count, CountedRow
<1>2. IsInfo(q) /\ total \in NatUse /\ clock + 1 \in Nat \ {0}
  BY RecordsAssumption DEF TypeOK, Small
<1>3. q.use \in NatUse /\ q.window \in Nat /\ q.limits \in {Absent} \cup SUBSET Scopes
  BY <1>2 DEF IsInfo, NatUse
<1>4. /\ total' \in NatUse
      /\ q.use.in + q.use.out <= total'.in + total'.out
  <2>1. CASE over
    BY <1>1, <1>3, <2>1 DEF NatUse
  <2>2. CASE ~ over
    BY <1>1, <1>2, <1>3, <2>2 DEF NatUse, Plus, Use
  <2> QED BY <2>1, <2>2
<1>5. q.use.in + q.use.out <= MaxPrompt
  BY <1>1, <1>3, <1>4, MaxPromptAssumption DEF NatUse
<1> DEFINE row == CountedRow(q, total')
<1>6. row \in CountRow
  BY <1>1, <1>2, <1>3, <1>4, <1>5 DEF CountedRow, CountRow, Small
<1>7. row.ts = clock + 1
  BY DEF CountedRow
<1> HIDE DEF row
<1>8. \E x \in CountRow : x.ts = clock + 1 /\ Write(x)
  BY <1>1, <1>6, <1>7 DEF row
<1> QED BY <1>1, <1>4, <1>8 DEF Small

\* Whatever a step writes is a record, and a count's time is new.
LEMMA WrittenIs ==
  ASSUME TypeOK, Count \/ CountAgain \/ Turn \/ Task \/ Tool
  PROVE  /\ Small(total')
         /\ \E row \in Records : /\ Write(row) /\ row.is # "meta"
                                 /\ row.is = "count" => row.ts = clock + 1
<1>1. CASE Count
  <2>1. PICK row \in CountRow : row.ts = clock + 1 /\ Write(row)
    BY <1>1, CountWrites
  <2>2. row \in Records /\ row.is = "count"
    BY CountRowIs DEF Records
  <2>3. Small(total')
    BY <1>1, CountWrites
  <2> QED BY <2>1, <2>2, <2>3
<1>2. CASE CountAgain
  <2> DEFINE row == [is |-> "count", total |-> total, last |-> Zero, ts |-> clock + 1,
                     window |-> 0, limits |-> {"primary"}]
  <2>1. Write(row) /\ total' = total
    BY <1>2 DEF CountAgain
  <2>2. Small(total) /\ total \in NatUse /\ clock + 1 \in Nat \ {0}
    BY DEF TypeOK, Small
  <2>3. row \in CountRow
    BY <2>2, ZeroSmall DEF CountRow, Scopes
  <2>4. row.is = "count" /\ row.ts = clock + 1
    OBVIOUS
  <2> HIDE DEF row
  <2>5. row \in Records
    BY <2>3 DEF Records
  <2>6. Small(total')
    BY <2>1, <2>2
  <2> QED BY <2>1, <2>4, <2>5, <2>6
<1>3. CASE Turn \/ Task \/ Tool
  <2>1. PICK row \in TurnContext \cup TaskEvent \cup ResponseItem : Write(row)
    BY <1>3 DEF Turn, Task, Tool
  <2>2. row \in Records /\ row.is # "meta" /\ row.is # "count"
    BY <2>1 DEF Records, TurnContext, TaskEvent, ResponseItem
  <2>3. Small(total')
    BY <1>3 DEF TypeOK, Turn, Task, Tool
  <2> QED BY <2>1, <2>2, <2>3
<1> QED BY <1>1, <1>2, <1>3

LEMMA TypeInit == Init => TypeOK
<1> SUFFICES ASSUME Init PROVE TypeOK
  OBVIOUS
<1>1. rows \in Seq(Records)
  <2>1. PICK m \in Metas : rows = <<m>>
    BY DEF Init
  <2>2. m \in Records
    BY DEF Records
  <2> QED BY <2>1, <2>2
<1>2. tail \in [inode : Nat, read : Nat] /\ IsRollout(r) /\ Small(total)
  BY NewIs, ZeroSmall DEF Init
<1> QED BY <1>1, <1>2 DEF Init, TypeOK

LEMMA ReadFrom ==
  ASSUME TypeOK, Read
  PROVE  /\ From \in Nat /\ From <= Len(rows) /\ Len(rows) \in Nat
         /\ \E n \in From .. Len(rows) :
              /\ n \in Nat /\ From <= n /\ n <= Len(rows)
              /\ r' = Folded(r, SubSeq(rows, From + 1, n))
              /\ tail' = [inode |-> inode, read |-> n]
         /\ UNCHANGED file
<1>1. From \in Nat /\ From <= Len(rows) /\ Len(rows) \in Nat
  BY DEF TypeOK, From
<1>2. PICK n \in From .. Len(rows) :
              /\ r' = FoldLeft(Applied, r, SubSeq(rows, From + 1, n))
              /\ tail' = [inode |-> inode, read |-> n]
  BY DEF Read
<1>3. n \in Nat /\ From <= n /\ n <= Len(rows)
  BY <1>1, <1>2
<1>4. r' = Folded(r, SubSeq(rows, From + 1, n))
  BY <1>2 DEF Folded
<1> QED BY <1>1, <1>2, <1>3, <1>4 DEF Read

LEMMA TypeStep ==
  ASSUME TypeOK, [Next]_vars PROVE TypeOK'
<1>1. CASE Count \/ CountAgain \/ Turn \/ Task \/ Tool
  <2>1. PICK row \in Records : Write(row)
    BY <1>1, WrittenIs
  <2>2. Small(total')
    BY <1>1, WrittenIs
  <2>3. rows' \in Seq(Records)
    BY <2>1 DEF Write, TypeOK
  <2> QED BY <2>1, <2>2, <2>3 DEF Write, TypeOK
<1>2. CASE Rotate
  BY <1>2 DEF Rotate, TypeOK
<1>3. CASE Cut
  <2>1. PICK n \in 0 .. Len(rows) - 1 : rows' = SubSeq(rows, 1, n)
    BY <1>3 DEF Cut
  <2>2. rows' \in Seq(Records)
    BY <2>1 DEF TypeOK
  <2> QED BY <1>3, <2>2 DEF Cut, TypeOK
<1>4. CASE Read
  <2>1. PICK n \in Nat : /\ From \in Nat /\ From <= n /\ n <= Len(rows)
                         /\ r' = Folded(r, SubSeq(rows, From + 1, n))
                         /\ tail' = [inode |-> inode, read |-> n]
    BY <1>4, ReadFrom
  <2>2. IsRollout(r')
    BY <2>1, FoldedType DEF TypeOK
  <2> QED BY <1>4, <2>1, <2>2 DEF Read, file, TypeOK
<1>5. CASE UNCHANGED vars
  BY <1>5 DEF vars, file, TypeOK
<1> QED BY <1>1, <1>2, <1>3, <1>4, <1>5 DEF Next

\* The ledger always sums to the usage shown, also after the count started
\* over, the file was cut short or read again (parse.go:303-312): each record
\* keeps it so.
THEOREM LedgerAddsUp == Spec => []LedgerSumsToUsage
<1>1. TypeOK => LedgerSumsToUsage
  BY DEF TypeOK, IsRollout, LedgerSumsToUsage
<1> QED BY <1>1, TypeInit, TypeStep, PTL DEF Spec

-----------------------------------------------------------------------------
(***************************************************************************)
(* Reading the file once: what the first j records of s have told.         *)
(***************************************************************************)
Once(s, j) == Folded(New, SubSeq(s, 1, j))

\* Only a file's first record is a meta, and counts get later and later.
Orderly(s) ==
  /\ s \in Seq(Records)
  /\ \A i \in 1 .. Len(s) : s[i].is = "meta" => i = 1
  /\ \A i \in 1 .. Len(s), j \in 1 .. Len(s) :
       i < j /\ s[i].is = "count" /\ s[j].is = "count" => s[i].ts < s[j].ts

LEMMA OnceStep ==
  ASSUME NEW s \in Seq(Records), NEW j \in Nat, j < Len(s)
  PROVE  /\ IsRollout(Once(s, j)) /\ s[j + 1] \in Records
         /\ Once(s, j + 1) = Applied(Once(s, j), s[j + 1])
<1>1. IsRollout(Folded(New, SubSeq(s, 0 + 1, j)))
  BY NewIs, FoldedType
<1>2. Folded(New, SubSeq(s, 0 + 1, j + 1)) = Applied(Folded(New, SubSeq(s, 0 + 1, j)), s[j + 1])
  BY FoldedStep
<1>3. 0 + 1 = 1
  OBVIOUS
<1>4. s[j + 1] \in Records
  OBVIOUS
<1> QED BY <1>1, <1>2, <1>3, <1>4 DEF Once

LEMMA OnceNone ==
  ASSUME NEW s \in Seq(Records) PROVE Once(s, 0) = New
<1>1. SubSeq(s, 1, 0) = <<>>
  OBVIOUS
<1> QED BY <1>1, FoldedEmpty DEF Once

\* What l shows of the count it read last.
AsCounted(l, row) ==
  /\ l.usage = row.total /\ l.used = UsedOf(row)
  /\ row.window > 0 => l.max = row.window /\ l.exact = TRUE
  /\ row.limits # Absent => l.limits = Limits(row)

CountsTold(s, j, l) ==
  /\ l.lastUsageAt \in Nat
  /\ \A i \in 1 .. j : s[i].is = "count" =>
       /\ l.has = TRUE /\ s[i].ts <= l.lastUsageAt
       /\ s[i].ts = l.lastUsageAt => AsCounted(l, s[i])
  /\ l.lastUsageAt = 0 \/ \E i \in 1 .. j : s[i].is = "count" /\ s[i].ts = l.lastUsageAt
  /\ l.max = 0 => \A i \in 1 .. j : s[i].is = "started" => s[i].window = 0

NoTurn(s, j) == \A i \in 1 .. j : s[i].is # "turn"
NoTask(s, j) == \A i \in 1 .. j : s[i].is \notin {"started", "complete"}

TurnsTold(s, j, l) ==
  /\ NoTurn(s, j) => l.model = NoModel
  /\ NoTask(s, j) => SameTask(l, New)
  /\ \A i \in 1 .. j : s[i].is = "meta" => SameThread(l, Applied(New, s[i]))
  /\ \A i \in 1 .. j :
       (\A e \in 1 .. j : e > i => s[e].is \notin {"started", "complete"}) =>
         /\ s[i].is = "started" => l.status = "busy" /\ l.completed = FALSE
         /\ s[i].is = "complete" => l.status = "waiting" /\ l.completed = TRUE

LEMMA CountNotReplayed ==
  ASSUME NEW s, Orderly(s), NEW j \in Nat, j < Len(s), NEW l, CountsTold(s, j, l),
         s[j + 1].is = "count"
  PROVE  /\ s[j + 1] \in CountRow /\ s[j + 1].ts > l.lastUsageAt /\ s[j + 1].ts # 0
         /\ ~ Replayed(l, s[j + 1]) /\ \A i \in 1 .. j : s[i].is = "count" => s[i].ts < s[j + 1].ts
<1>1. j + 1 \in 1 .. Len(s) /\ s[j + 1] \in Records /\ Len(s) \in Nat
  BY DEF Orderly
<1>2. s[j + 1] \in CountRow /\ s[j + 1].ts \in Nat /\ s[j + 1].ts > 0
  BY <1>1, RecordKinds, CountRowIs
<1>3. \A i \in 1 .. j : s[i].is = "count" => s[i].ts < s[j + 1].ts
  BY <1>1 DEF Orderly
<1>4. s[j + 1].ts > l.lastUsageAt
  BY <1>2, <1>3 DEF CountsTold
<1> QED BY <1>2, <1>3, <1>4 DEF CountsTold, Replayed

LEMMA CountsToldStep ==
  ASSUME NEW s, Orderly(s), NEW j \in Nat, j < Len(s), NEW l, IsRollout(l), CountsTold(s, j, l)
  PROVE  CountsTold(s, j + 1, Applied(l, s[j + 1]))
<1> DEFINE row == s[j + 1]
           a == Applied(l, row)
<1>1. l = Fields(l) /\ row \in Records /\ \A i \in 1 .. j + 1 : i \in 1 .. j \/ i = j + 1
  BY DEF IsRollout, Orderly
<1>2. CASE row.is = "count"
  <2>1. /\ row \in CountRow /\ row.ts > l.lastUsageAt /\ row.ts # 0 /\ ~ Replayed(l, row)
        /\ \A i \in 1 .. j : s[i].is = "count" => s[i].ts < row.ts
    BY <1>2, CountNotReplayed
  <2>2. /\ a.has = TRUE /\ a.usage = row.total /\ a.lastUsageAt = row.ts /\ a.used = UsedOf(row)
        /\ a.max = IF row.window > 0 THEN row.window ELSE l.max
        /\ a.exact = (l.exact \/ row.window > 0)
        /\ a.limits = IF row.limits = Absent THEN l.limits ELSE Limits(row)
    <3> HIDE DEF row
    <3> QED BY <1>1, <1>2, <2>1, CountFields
  <2>3. row.ts \in Nat /\ row.window \in Nat
    BY <2>1, CountRowIs
  <2> HIDE DEF a
  <2>4. AsCounted(a, row)
    BY <2>2, <2>3 DEF AsCounted
  <2>5. \A i \in 1 .. j + 1 : s[i].is = "count" =>
          /\ a.has = TRUE /\ s[i].ts <= a.lastUsageAt
          /\ s[i].ts = a.lastUsageAt => AsCounted(a, s[i])
    <3> SUFFICES ASSUME NEW i \in 1 .. j + 1, s[i].is = "count"
                 PROVE  /\ a.has = TRUE /\ s[i].ts <= a.lastUsageAt
                        /\ s[i].ts = a.lastUsageAt => AsCounted(a, s[i])
      OBVIOUS
    <3>1. CASE i = j + 1
      BY <2>2, <2>3, <2>4, <3>1
    <3>2. CASE i \in 1 .. j
      <4>1. s[i].ts < row.ts /\ s[i].ts <= l.lastUsageAt /\ l.lastUsageAt \in Nat
        BY <2>1, <3>2 DEF CountsTold
      <4>2. s[i].ts \in Nat
        BY RecordKinds, CountRowIs DEF Orderly
      <4> QED BY <2>2, <2>3, <4>1, <4>2
    <3> QED BY <1>1, <3>1, <3>2
  <2>6. a.max = 0 => \A i \in 1 .. j + 1 : s[i].is = "started" => s[i].window = 0
    BY <1>1, <1>2, <2>2, <2>3 DEF CountsTold
  <2>7. \E i \in 1 .. j + 1 : s[i].is = "count" /\ s[i].ts = a.lastUsageAt
    BY <1>2, <2>2
  <2>8. CountsTold(s, j + 1, a)
    BY <2>2, <2>3, <2>5, <2>6, <2>7 DEF CountsTold
  <2> QED BY <2>8 DEF a
<1>3. CASE row.is # "count"
  <2>1. SameCounts(a, l)
    <3> HIDE DEF row
    <3> QED BY <1>1, <1>3, AppliedFields
  <2>2. a.max = IF row.is = "started" /\ l.max = 0 THEN row.window ELSE l.max
    <3> HIDE DEF row
    <3> QED BY <1>1, <1>3, AppliedFields
  <2> HIDE DEF a
  <2>3. \A i \in 1 .. j + 1 : s[i].is = "count" =>
          /\ a.has = TRUE /\ s[i].ts <= a.lastUsageAt
          /\ s[i].ts = a.lastUsageAt => AsCounted(a, s[i])
    <3> SUFFICES ASSUME NEW i \in 1 .. j + 1, s[i].is = "count"
                 PROVE  /\ a.has = TRUE /\ s[i].ts <= a.lastUsageAt
                        /\ s[i].ts = a.lastUsageAt => AsCounted(a, s[i])
      OBVIOUS
    <3>1. i \in 1 .. j
      BY <1>1, <1>3
    <3>2. /\ l.has = TRUE /\ s[i].ts <= l.lastUsageAt
          /\ s[i].ts = l.lastUsageAt => AsCounted(l, s[i])
      BY <3>1 DEF CountsTold
    <3>3. a.has = l.has /\ a.lastUsageAt = l.lastUsageAt
      BY <2>1 DEF SameCounts
    <3>4. ASSUME AsCounted(l, s[i]) PROVE AsCounted(a, s[i])
      <4>1. s[i].window \in Nat
        BY RecordKinds, CountRowIs DEF Orderly
      <4> QED BY <2>1, <2>2, <3>4, <4>1 DEF AsCounted, SameCounts
    <3> QED BY <3>2, <3>3, <3>4
  <2>4. a.max = 0 => \A i \in 1 .. j + 1 : s[i].is = "started" => s[i].window = 0
    BY <1>1, <2>2 DEF CountsTold
  <2>5. a.lastUsageAt \in Nat
        /\ (a.lastUsageAt = 0 \/ \E i \in 1 .. j + 1 : s[i].is = "count" /\ s[i].ts = a.lastUsageAt)
    BY <1>1, <2>1 DEF CountsTold, SameCounts
  <2>6. CountsTold(s, j + 1, a)
    BY <2>3, <2>4, <2>5 DEF CountsTold
  <2> QED BY <2>6 DEF a
<1> QED BY <1>2, <1>3

LEMMA TurnsToldStep ==
  ASSUME NEW s, Orderly(s), NEW j \in Nat, j < Len(s), NEW l, IsRollout(l), TurnsTold(s, j, l),
         j = 0 => l = New
  PROVE  TurnsTold(s, j + 1, Applied(l, s[j + 1]))
<1> DEFINE row == s[j + 1]
           a == Applied(l, row)
<1>1. /\ l = Fields(l) /\ row \in Records /\ j + 1 \in 1 .. j + 1 /\ j + 1 \in 1 .. Len(s)
      /\ \A i \in 1 .. j + 1 : i \in 1 .. j \/ i = j + 1
      /\ \A i \in 1 .. j : i \in 1 .. j + 1 /\ i < j + 1
  BY DEF IsRollout, Orderly
<1>2. NoTurn(s, j + 1) => a.model = NoModel
  <2>1. row.is # "turn" => a.model = l.model
    <3> HIDE DEF row
    <3> QED BY <1>1, AppliedFields
  <2>2. NoTurn(s, j + 1) => NoTurn(s, j) /\ row.is # "turn"
    BY <1>1 DEF NoTurn
  <2> QED BY <2>1, <2>2 DEF TurnsTold
<1>3. row.is \notin {"started", "complete"} => SameTask(a, l)
  <2> HIDE DEF row
  <2> QED BY <1>1, AppliedFields
<1>4. NoTask(s, j + 1) => SameTask(a, New)
  <2>1. NoTask(s, j + 1) => NoTask(s, j) /\ row.is \notin {"started", "complete"}
    BY <1>1 DEF NoTask
  <2> QED BY <1>3, <2>1 DEF TurnsTold, SameTask
<1>5. ASSUME NEW i \in 1 .. j + 1, s[i].is = "meta" PROVE SameThread(a, Applied(New, s[i]))
  <2>1. CASE i = j + 1
    <3>1. j = 0
      BY <1>1, <1>5, <2>1 DEF Orderly
    <3> QED BY <2>1, <3>1 DEF SameThread
  <2>2. CASE i \in 1 .. j
    <3>1. row.is # "meta"
      BY <1>1, <2>2 DEF Orderly
    <3>2. SameThread(a, l)
      <4> HIDE DEF row
      <4> QED BY <1>1, <3>1, AppliedFields
    <3>3. SameThread(l, Applied(New, s[i]))
      BY <1>5, <2>2 DEF TurnsTold
    <3> HIDE DEF a
    <3> QED BY <3>2, <3>3 DEF SameThread
  <2> QED BY <1>1, <2>1, <2>2
<1>6. ASSUME NEW i \in 1 .. j + 1,
             \A e \in 1 .. j + 1 : e > i => s[e].is \notin {"started", "complete"}
      PROVE  /\ s[i].is = "started" => a.status = "busy" /\ a.completed = FALSE
             /\ s[i].is = "complete" => a.status = "waiting" /\ a.completed = TRUE
  <2>1. CASE i = j + 1
    <3> HIDE DEF row
    <3>1. /\ row.is = "started" => a.status = "busy" /\ a.completed = FALSE
          /\ row.is = "complete" => a.status = "waiting" /\ a.completed = TRUE
      BY <1>1, AppliedFields
    <3>2. s[i] = row
      BY <2>1 DEF row
    <3> HIDE DEF a
    <3> QED BY <3>1, <3>2
  <2>2. CASE i \in 1 .. j
    <3>1. row.is \notin {"started", "complete"} /\ i < j + 1
      BY <1>1, <1>6, <2>2
    <3>2. \A e \in 1 .. j : e > i => s[e].is \notin {"started", "complete"}
      BY <1>1, <1>6
    <3>3. /\ s[i].is = "started" => l.status = "busy" /\ l.completed = FALSE
          /\ s[i].is = "complete" => l.status = "waiting" /\ l.completed = TRUE
      BY <2>2, <3>2 DEF TurnsTold
    <3> QED BY <1>3, <3>1, <3>3 DEF SameTask
  <2> QED BY <1>1, <2>1, <2>2
<1> HIDE DEF a
<1>7. TurnsTold(s, j + 1, a)
  BY <1>2, <1>4, <1>5, <1>6 DEF TurnsTold
<1> QED BY <1>7 DEF a

LEMMA OnceTold ==
  ASSUME NEW s, Orderly(s), NEW j \in Nat, j <= Len(s)
  PROVE  /\ IsRollout(Once(s, j)) /\ CountsTold(s, j, Once(s, j)) /\ TurnsTold(s, j, Once(s, j))
<1> DEFINE Told(i) == /\ IsRollout(Once(s, i)) /\ CountsTold(s, i, Once(s, i))
                      /\ TurnsTold(s, i, Once(s, i))
           G == {i \in 0 .. j : Told(i)}
<1>1. s \in Seq(Records) /\ Len(s) \in Nat
  BY DEF Orderly
<1>2. 0 \in G
  <2>1. Once(s, 0) = New /\ IsRollout(New)
    BY <1>1, OnceNone, NewIs
  <2>2. New.lastUsageAt = 0 /\ New.model = NoModel
    BY DEF New
  <2>3. 1 .. 0 = {} /\ SameTask(New, New)
    BY DEF SameTask
  <2> HIDE DEF New
  <2>4. CountsTold(s, 0, New) /\ TurnsTold(s, 0, New)
    BY <2>2, <2>3 DEF CountsTold, TurnsTold
  <2> QED BY <2>1, <2>4
<1>3. ASSUME NEW i \in 0 .. j, i < j, i \in G PROVE i + 1 \in G
  <2>1. i \in Nat /\ i < Len(s) /\ i + 1 \in 0 .. j
    BY <1>1, <1>3
  <2> DEFINE l == Once(s, i)
  <2>2. /\ Once(s, i + 1) = Applied(l, s[i + 1]) /\ s[i + 1] \in Records
        /\ IsRollout(l) /\ CountsTold(s, i, l) /\ TurnsTold(s, i, l) /\ (i = 0 => l = New)
    BY <1>1, <1>3, <2>1, OnceStep, OnceNone
  <2> HIDE DEF l
  <2>3. /\ IsRollout(Applied(l, s[i + 1])) /\ CountsTold(s, i + 1, Applied(l, s[i + 1]))
        /\ TurnsTold(s, i + 1, Applied(l, s[i + 1]))
    BY <2>1, <2>2, AppliedIs, CountsToldStep, TurnsToldStep
  <2> QED BY <2>1, <2>2, <2>3
<1> HIDE DEF G
<1>4. j \in G
  BY <1>2, <1>3, CountUp
<1> QED BY <1>4 DEF G

-----------------------------------------------------------------------------
(***************************************************************************)
(* Reading again.  k has read m records and, since it last started over,   *)
(* j of them; f is what one reading of those j shows, l what one reading   *)
(* of all m does.  What a replay is kept from changing is that of l; the   *)
(* model and the task are those of the records read since.                 *)
(***************************************************************************)
Shows(s, j, m, k, f, l) ==
  /\ SameCounts(k, l) /\ k.max = l.max /\ SameThread(k, l)
  /\ NoTurn(s, j) \/ k.model = f.model
  /\ NoTurn(s, m) => k.model = NoModel
  /\ NoTask(s, j) \/ SameTask(k, f)
  /\ NoTask(s, m) => SameTask(k, New)

\* A count that was read before changes nothing.
LEMMA CountAgainSame ==
  ASSUME NEW s, Orderly(s), NEW m \in Nat, m <= Len(s), NEW i \in 1 .. m, s[i].is = "count",
         NEW l, CountsTold(s, m, l), NEW k, IsRollout(k), SameCounts(k, l), k.max = l.max
  PROVE  /\ SameCounts(Applied(k, s[i]), k) /\ Applied(k, s[i]).max = k.max
<1> DEFINE row == s[i]
           a == Applied(k, row)
<1>1. /\ row \in CountRow /\ row.ts \in Nat /\ row.ts > 0 /\ row.total \in Usage
      /\ row.window \in Nat
  BY RecordKinds, CountRowIs DEF Orderly
<1>2. /\ l.has = TRUE /\ row.ts <= l.lastUsageAt /\ l.lastUsageAt \in Nat
      /\ row.ts = l.lastUsageAt => AsCounted(l, row)
  BY DEF CountsTold
<1>3. k.has = TRUE /\ k.lastUsageAt = l.lastUsageAt /\ k = Fields(k)
  BY <1>2 DEF SameCounts, IsRollout
<1>r. row.is = "count"
  OBVIOUS
<1> HIDE DEF row
<1>4. CASE row.ts < l.lastUsageAt
  <2>1. Replayed(k, row)
    BY <1>1, <1>2, <1>3, <1>4 DEF Replayed
  <2>2. a = k
    BY <1>3, <1>r, <2>1, CountFields
  <2> QED BY <2>2 DEF row, SameCounts
<1>5. CASE row.ts = l.lastUsageAt
  <2>1. ~ Replayed(k, row)
    BY <1>1, <1>2, <1>3, <1>5 DEF Replayed
  <2>2. AsCounted(l, row)
    BY <1>2, <1>5
  <2>3. /\ k.usage = row.total /\ k.used = UsedOf(row)
        /\ row.window > 0 => k.max = row.window /\ k.exact = TRUE
        /\ row.limits # Absent => k.limits = Limits(row)
    BY <2>2 DEF AsCounted, SameCounts
  <2>4. Minus(row.total, k.usage) = Zero /\ ~ Backwards(Zero)
    BY <1>1, <2>3, UsageIs DEF Backwards, Zero, Use
  <2>5. Burst(k, row) = Zero
    BY <1>3, <2>4 DEF Burst
  <2>6. Refiled(k, row) = k.ledger
    <3>1. Refiled(k, row) = Filed(k.ledger, k.model, Prompt(row), Zero)
      BY <1>3, <2>4 DEF Refiled
    <3> DEFINE ledger == k.ledger
               model == k.model
               prompt == Prompt(row)
               u == Zero
    <3>2. /\ ledger \in Ledger /\ model \in Models \cup {NoModel} /\ u \in Usage
          /\ prompt \in Int /\ prompt <= MaxPrompt /\ u = Zero
      BY <1>1, CountRowIs, UsageIs DEF IsRollout
    <3> HIDE DEF ledger, model, prompt, u
    <3>3. Filed(ledger, model, prompt, u) = ledger
      BY <3>2, FiledAdds
    <3> QED BY <3>1, <3>3 DEF ledger, model, prompt, u
  <2>7. /\ a.window = k.window /\ a.ledger = k.ledger /\ a.has = TRUE /\ a.usage = row.total
        /\ a.lastUsageAt = row.ts /\ a.used = UsedOf(row)
        /\ a.max = IF row.window > 0 THEN row.window ELSE k.max
        /\ a.exact = (k.exact \/ row.window > 0)
        /\ a.limits = IF row.limits = Absent THEN k.limits ELSE Limits(row)
    <3>1. /\ a.window = IF k.has /\ Burst(k, row) = Zero THEN k.window
                        ELSE Recorded(k.window, row.ts, Burst(k, row))
          /\ a.ledger = Refiled(k, row) /\ a.has = TRUE /\ a.usage = row.total
          /\ a.lastUsageAt = IF row.ts = 0 THEN k.lastUsageAt ELSE row.ts
          /\ a.used = UsedOf(row) /\ a.max = IF row.window > 0 THEN row.window ELSE k.max
          /\ a.exact = (k.exact \/ row.window > 0)
          /\ a.limits = IF row.limits = Absent THEN k.limits ELSE Limits(row)
      BY <1>3, <1>r, <2>1, CountFields
    <3> HIDE DEF a
    <3> QED BY <1>1, <1>3, <2>5, <2>6, <3>1
  <2> HIDE DEF a
  <2>8. a.max = k.max /\ a.limits = k.limits
    BY <2>3, <2>7
  <2>9. a.exact = k.exact
    <3>1. k.exact \in BOOLEAN /\ a.exact = (k.exact \/ row.window > 0)
      BY <2>7 DEF IsRollout
    <3> QED BY <2>3, <3>1
  <2>10. SameCounts(a, k) /\ a.max = k.max
    BY <1>3, <1>5, <2>3, <2>7, <2>8, <2>9 DEF SameCounts
  <2> QED BY <2>10 DEF a, row
<1> QED BY <1>1, <1>2, <1>4, <1>5

LEMMA ShowsOld ==
  ASSUME NEW s, Orderly(s), NEW m \in Nat, m <= Len(s), NEW j \in Nat, j < m,
         NEW l, CountsTold(s, m, l), TurnsTold(s, m, l),
         NEW k, IsRollout(k), NEW f, IsRollout(f), Shows(s, j, m, k, f, l)
  PROVE  Shows(s, j + 1, m, Applied(k, s[j + 1]), Applied(f, s[j + 1]), l)
<1> DEFINE row == s[j + 1]
           a == Applied(k, row)
           b == Applied(f, row)
<1>1. /\ row \in Records /\ k = Fields(k) /\ f = Fields(f)
      /\ j + 1 \in 1 .. j + 1 /\ j + 1 \in 1 .. m /\ j + 1 \in 1 .. Len(s)
      /\ \A i \in 1 .. j + 1 : i \in 1 .. j \/ i = j + 1
  BY DEF Orderly, IsRollout
<1>2. SameCounts(a, l) /\ a.max = l.max
  <2>1. SameCounts(k, l) /\ k.max = l.max
    BY DEF Shows
  <2>2. SameCounts(a, k) /\ a.max = k.max
    <3>1. CASE row.is = "count"
      BY <1>1, <2>1, <3>1, CountAgainSame
    <3>2. CASE row.is # "count"
      <4>1. SameCounts(a, k) /\ a.max = IF row.is = "started" /\ k.max = 0 THEN row.window
                                        ELSE k.max
        <5> HIDE DEF row
        <5> QED BY <1>1, <3>2, AppliedFields
      <4>2. row.is = "started" /\ k.max = 0 => row.window = 0
        BY <1>1, <2>1 DEF CountsTold
      <4> HIDE DEF a, row
      <4> QED BY <4>1, <4>2
    <3> QED BY <3>1, <3>2
  <2> HIDE DEF a
  <2> QED BY <2>1, <2>2 DEF SameCounts
<1>3. SameThread(a, l)
  <2>1. SameThread(k, l)
    BY DEF Shows
  <2>2. SameThread(a, k)
    <3>1. CASE row.is = "meta"
      <4>1. SameThread(l, Applied(New, row))
        BY <1>1, <3>1 DEF TurnsTold
      <4> DEFINE c == Applied(New, row)
      <4>2. SameThread(k, c)
        <5> HIDE DEF c
        <5> QED BY <2>1, <4>1 DEF SameThread, c
      <4> HIDE DEF row
      <4> QED BY <1>1, <3>1, <4>2, MetaFields
    <3>2. CASE row.is # "meta"
      <4> HIDE DEF row
      <4> QED BY <1>1, <3>2, AppliedFields
    <3> QED BY <3>1, <3>2
  <2> HIDE DEF a
  <2> QED BY <2>1, <2>2 DEF SameThread
<1>4. /\ row.is = "turn" => a.model = b.model
      /\ row.is # "turn" => a.model = k.model /\ b.model = f.model
      /\ row.is \in {"started", "complete"} => SameTask(a, b)
      /\ row.is \notin {"started", "complete"} => SameTask(a, k) /\ SameTask(b, f)
  <2> HIDE DEF row
  <2>1. /\ row.is = "turn" => a.model = row.model
        /\ row.is # "turn" => a.model = k.model
        /\ row.is = "started" => a.status = "busy" /\ a.completed = FALSE
        /\ row.is = "complete" => a.status = "waiting" /\ a.completed = TRUE
        /\ row.is \notin {"started", "complete"} => SameTask(a, k)
    BY <1>1, AppliedFields
  <2>2. /\ row.is = "turn" => b.model = row.model
        /\ row.is # "turn" => b.model = f.model
        /\ row.is = "started" => b.status = "busy" /\ b.completed = FALSE
        /\ row.is = "complete" => b.status = "waiting" /\ b.completed = TRUE
        /\ row.is \notin {"started", "complete"} => SameTask(b, f)
    BY <1>1, AppliedFields
  <2> HIDE DEF a, b
  <2> QED BY <2>1, <2>2 DEF SameTask
<1> HIDE DEF a, b
<1>5. NoTurn(s, j + 1) \/ a.model = b.model
  BY <1>1, <1>4 DEF Shows, NoTurn
<1>6. NoTurn(s, m) => a.model = NoModel
  BY <1>1, <1>4 DEF Shows, NoTurn
<1>7. NoTask(s, j + 1) \/ SameTask(a, b)
  BY <1>1, <1>4 DEF Shows, NoTask, SameTask
<1>8. NoTask(s, m) => SameTask(a, New)
  BY <1>1, <1>4 DEF Shows, NoTask, SameTask
<1>9. Shows(s, j + 1, m, a, b, l)
  BY <1>2, <1>3, <1>5, <1>6, <1>7, <1>8 DEF Shows
<1> QED BY <1>9 DEF a, b

\* All that is shown but the calls.
Agree(k, l) ==
  /\ SameCounts(k, l) /\ k.max = l.max /\ SameThread(k, l)
  /\ k.model = l.model /\ SameTask(k, l)

LEMMA ShowsAll ==
  ASSUME NEW s, NEW m, NEW l, TurnsTold(s, m, l), NEW k
  PROVE  Shows(s, m, m, k, l, l) <=> Agree(k, l)
BY DEF Shows, Agree, TurnsTold, SameTask

LEMMA AgreeStep ==
  ASSUME NEW k, IsRollout(k), NEW l, IsRollout(l), Agree(k, l), NEW row \in Records
  PROVE  Agree(Applied(k, row), Applied(l, row))
<1> DEFINE a == Applied(k, row)
           b == Applied(l, row)
<1>1. k = Fields(k) /\ l = Fields(l)
  BY DEF IsRollout
<1>2. SameCounts(a, b) /\ a.max = b.max
  <2>1. CASE row.is = "count"
    <3>1. /\ Replayed(k, row) <=> Replayed(l, row)
          /\ Burst(k, row) = Burst(l, row) /\ Refiled(k, row) = Refiled(l, row)
      BY DEF Agree, SameCounts, Replayed, Burst, Refiled
    <3>2. CASE Replayed(k, row)
      <4>1. a = k /\ b = l
        BY <1>1, <2>1, <3>1, <3>2, CountFields
      <4> QED BY <4>1 DEF Agree
    <3>3. CASE ~ Replayed(k, row)
      <4>1. /\ a.window = IF k.has /\ Burst(k, row) = Zero THEN k.window
                          ELSE Recorded(k.window, row.ts, Burst(k, row))
            /\ a.ledger = Refiled(k, row) /\ a.has = TRUE /\ a.usage = row.total
            /\ a.lastUsageAt = IF row.ts = 0 THEN k.lastUsageAt ELSE row.ts
            /\ a.used = UsedOf(row) /\ a.max = IF row.window > 0 THEN row.window ELSE k.max
            /\ a.exact = (k.exact \/ row.window > 0)
            /\ a.limits = IF row.limits = Absent THEN k.limits ELSE Limits(row)
        BY <1>1, <2>1, <3>3, CountFields
      <4>2. /\ b.window = IF l.has /\ Burst(l, row) = Zero THEN l.window
                          ELSE Recorded(l.window, row.ts, Burst(l, row))
            /\ b.ledger = Refiled(l, row) /\ b.has = TRUE /\ b.usage = row.total
            /\ b.lastUsageAt = IF row.ts = 0 THEN l.lastUsageAt ELSE row.ts
            /\ b.used = UsedOf(row) /\ b.max = IF row.window > 0 THEN row.window ELSE l.max
            /\ b.exact = (l.exact \/ row.window > 0)
            /\ b.limits = IF row.limits = Absent THEN l.limits ELSE Limits(row)
        BY <1>1, <2>1, <3>1, <3>3, CountFields
      <4> HIDE DEF a, b
      <4> QED BY <3>1, <4>1, <4>2 DEF Agree, SameCounts
    <3> QED BY <3>2, <3>3
  <2>2. CASE row.is # "count"
    <3>1. SameCounts(a, k) /\ a.max = IF row.is = "started" /\ k.max = 0 THEN row.window
                                      ELSE k.max
      BY <1>1, <2>2, AppliedFields
    <3>2. SameCounts(b, l) /\ b.max = IF row.is = "started" /\ l.max = 0 THEN row.window
                                      ELSE l.max
      BY <1>1, <2>2, AppliedFields
    <3> HIDE DEF a, b
    <3> QED BY <3>1, <3>2 DEF Agree, SameCounts
  <2> QED BY <2>1, <2>2
<1>3. SameThread(a, b)
  <2>1. CASE row.is = "meta"
    BY <1>1, <2>1, MetaFields DEF Agree
  <2>2. CASE row.is # "meta"
    <3>1. SameThread(a, k) /\ SameThread(b, l)
      BY <1>1, <2>2, AppliedFields
    <3> HIDE DEF a, b
    <3> QED BY <3>1 DEF Agree, SameThread
  <2> QED BY <2>1, <2>2
<1>4. a.model = b.model /\ SameTask(a, b)
  <2>1. /\ row.is = "turn" => a.model = row.model
        /\ row.is # "turn" => a.model = k.model
        /\ row.is = "started" => a.status = "busy" /\ a.completed = FALSE
        /\ row.is = "complete" => a.status = "waiting" /\ a.completed = TRUE
        /\ row.is \notin {"started", "complete"} => SameTask(a, k)
    BY <1>1, AppliedFields
  <2>2. /\ row.is = "turn" => b.model = row.model
        /\ row.is # "turn" => b.model = l.model
        /\ row.is = "started" => b.status = "busy" /\ b.completed = FALSE
        /\ row.is = "complete" => b.status = "waiting" /\ b.completed = TRUE
        /\ row.is \notin {"started", "complete"} => SameTask(b, l)
    BY <1>1, AppliedFields
  <2> HIDE DEF a, b
  <2> QED BY <2>1, <2>2 DEF Agree, SameTask
<1> HIDE DEF a, b
<1>5. Agree(a, b)
  BY <1>2, <1>3, <1>4 DEF Agree
<1> QED BY <1>5 DEF a, b

ReadAs(s, j, m, k) == Shows(s, j, m, k, Once(s, j), Once(s, m))

LEMMA ReadAsStep ==
  ASSUME NEW s, Orderly(s), NEW j \in Nat, j < Len(s), NEW m \in Nat, j <= m, m <= Len(s),
         NEW k, IsRollout(k), ReadAs(s, j, m, k)
  PROVE  \E n \in Nat : j + 1 <= n /\ n <= Len(s) /\ ReadAs(s, j + 1, n, Applied(k, s[j + 1]))
<1> DEFINE f == Once(s, j)
           l == Once(s, m)
           row == s[j + 1]
<1>1. /\ s \in Seq(Records) /\ Len(s) \in Nat /\ j + 1 \in Nat /\ row \in Records
  BY DEF Orderly
<1>2. /\ IsRollout(f) /\ Once(s, j + 1) = Applied(f, row)
      /\ IsRollout(l) /\ CountsTold(s, m, l) /\ TurnsTold(s, m, l)
  BY <1>1, OnceTold, OnceStep
<1>3. Shows(s, j, m, k, f, l)
  BY DEF ReadAs
<1>4. CASE j < m
  <2> HIDE DEF f, l
  <2>1. Shows(s, j + 1, m, Applied(k, row), Applied(f, row), l)
    BY <1>2, <1>3, <1>4, ShowsOld
  <2>2. ReadAs(s, j + 1, m, Applied(k, row))
    BY <1>2, <2>1 DEF ReadAs, l
  <2>3. j + 1 <= m
    BY <1>4
  <2> HIDE DEF row
  <2>4. \E n \in Nat : j + 1 <= n /\ n <= Len(s) /\ ReadAs(s, j + 1, n, Applied(k, row))
    BY <2>2, <2>3
  <2> QED BY <2>4 DEF row
<1>5. CASE j = m
  <2>1. TurnsTold(s, m + 1, Once(s, m + 1)) /\ m + 1 <= Len(s) /\ m + 1 \in Nat
    BY <1>1, <1>5, OnceTold
  <2>2. Agree(k, l)
    BY <1>2, <1>3, <1>5, ShowsAll
  <2>3. Once(s, m + 1) = Applied(l, row)
    BY <1>2, <1>5
  <2> HIDE DEF f, l, row
  <2>4. Agree(Applied(k, row), Applied(l, row))
    BY <1>1, <1>2, <2>2, AgreeStep
  <2> DEFINE g == Once(s, m + 1)
             a == Applied(k, row)
  <2>5. Agree(a, g) /\ TurnsTold(s, m + 1, g)
    BY <2>1, <2>3, <2>4
  <2> HIDE DEF g, a
  <2>6. Shows(s, m + 1, m + 1, a, g, g)
    <3> DEFINE n == m + 1
    <3> HIDE DEF n
    <3>1. TurnsTold(s, n, g)
      BY <2>5 DEF n
    <3>2. Shows(s, n, n, a, g, g)
      BY <2>5, <3>1, ShowsAll
    <3> QED BY <3>2 DEF n
  <2>7. ReadAs(s, m + 1, m + 1, a)
    BY <2>6 DEF ReadAs, g
  <2>8. \E n \in Nat : j + 1 <= n /\ n <= Len(s) /\ ReadAs(s, j + 1, n, a)
    BY <1>5, <2>1, <2>7
  <2> QED BY <2>8 DEF a, row
<1> QED BY <1>4, <1>5

LEMMA ReadAsMany ==
  ASSUME NEW s, Orderly(s), NEW a \in Nat, NEW b \in Nat, a <= b, b <= Len(s),
         NEW m \in Nat, a <= m, m <= Len(s), NEW k, IsRollout(k), ReadAs(s, a, m, k)
  PROVE  \E n \in Nat : b <= n /\ n <= Len(s)
                        /\ ReadAs(s, b, n, Folded(k, SubSeq(s, a + 1, b)))
<1> DEFINE Good(j) == \E n \in Nat : j <= n /\ n <= Len(s)
                        /\ ReadAs(s, j, n, Folded(k, SubSeq(s, a + 1, j)))
           G == {j \in a .. b : Good(j)}
<1>1. s \in Seq(Records) /\ Len(s) \in Nat
  BY DEF Orderly
<1>2. a \in G
  BY <1>1, FoldedNone
<1>3. ASSUME NEW j \in a .. b, j < b, j \in G PROVE j + 1 \in G
  <2>1. j \in Nat /\ a <= j /\ j < Len(s) /\ j + 1 \in a .. b
    BY <1>1, <1>3
  <2> DEFINE o == Folded(k, SubSeq(s, a + 1, j))
  <2>2. PICK n \in Nat : j <= n /\ n <= Len(s) /\ ReadAs(s, j, n, o)
    BY <1>3
  <2>3. IsRollout(o)
    BY <1>1, <2>1, FoldedType
  <2>4. Folded(k, SubSeq(s, a + 1, j + 1)) = Applied(o, s[j + 1])
    BY <1>1, <2>1, FoldedStep
  <2> HIDE DEF o
  <2>5. \E i \in Nat : j + 1 <= i /\ i <= Len(s) /\ ReadAs(s, j + 1, i, Applied(o, s[j + 1]))
    BY <2>1, <2>2, <2>3, ReadAsStep
  <2>6. Good(j + 1)
    BY <2>4, <2>5
  <2> QED BY <2>1, <2>6
<1> HIDE DEF G
<1>4. b \in G
  BY <1>2, <1>3, CountFrom
<1> QED BY <1>4 DEF G

\* Starting over forgets nothing.
LEMMA ReadAsRestart ==
  ASSUME NEW s \in Seq(Records), NEW j, NEW m, NEW k, ReadAs(s, j, m, k)
  PROVE  ReadAs(s, 0, m, k)
<1>1. 1 .. 0 = {}
  OBVIOUS
<1> QED BY <1>1 DEF ReadAs, Shows, NoTurn, NoTask

LEMMA ReadAsAppend ==
  ASSUME NEW s \in Seq(Records), NEW x \in Records, NEW m \in Nat, m <= Len(s),
         NEW j \in Nat, j <= m, NEW k, ReadAs(s, j, m, k)
  PROVE  ReadAs(Append(s, x), j, m, k)
<1> DEFINE t == Append(s, x)
<1>1. \A i \in 1 .. Len(s) : t[i] = s[i]
  OBVIOUS
<1>2. SubSeq(t, 1, j) = SubSeq(s, 1, j) /\ SubSeq(t, 1, m) = SubSeq(s, 1, m)
  OBVIOUS
<1>3. (1 .. j) \subseteq 1 .. Len(s) /\ (1 .. m) \subseteq 1 .. Len(s)
  OBVIOUS
<1> HIDE DEF t
<1>4. Once(t, j) = Once(s, j) /\ Once(t, m) = Once(s, m)
  BY <1>2 DEF Once
<1>5. /\ NoTurn(t, j) <=> NoTurn(s, j)
      /\ NoTurn(t, m) <=> NoTurn(s, m)
      /\ NoTask(t, j) <=> NoTask(s, j)
      /\ NoTask(t, m) <=> NoTask(s, m)
  BY <1>1, <1>3 DEF NoTurn, NoTask
<1>6. ReadAs(t, j, m, k)
  BY <1>4, <1>5 DEF ReadAs, Shows
<1> QED BY <1>6 DEF t

-----------------------------------------------------------------------------
\* The file is one an agent can have written: see Orderly.
FileOK == Orderly(rows) /\ \A i \in 1 .. Len(rows) : rows[i].is = "count" => rows[i].ts <= clock

\* Until the file is cut short, what is shown is what one reading of a part of
\* the file shows that is at least as long as what has been read of it.
ReadOK ==
  cuts = 0 => \E m \in Nat : tail.read <= m /\ m <= Len(rows) /\ ReadAs(rows, tail.read, m, r)

LEMMA FileInit == Init => FileOK /\ ReadOK
<1> SUFFICES ASSUME Init PROVE FileOK /\ ReadOK
  OBVIOUS
<1>1. TypeOK
  BY TypeInit
<1>2. PICK x \in Metas : rows = <<x>>
  BY DEF Init
<1>3. Len(rows) = 1 /\ rows[1].is = "meta"
  BY <1>2, RecordsAssumption DEF IsMeta
<1>4. FileOK
  <2>1. 1 .. Len(rows) = {1}
    BY <1>3
  <2> QED BY <1>1, <1>3, <2>1 DEF TypeOK, FileOK, Orderly
<1>5. ReadAs(rows, 0, 0, New)
  <2>1. Once(rows, 0) = New /\ New.model = NoModel
    <3>1. New.model = NoModel
      BY DEF New
    <3> QED BY <1>1, <3>1, OnceNone DEF TypeOK
  <2> HIDE DEF New
  <2> QED BY <2>1 DEF ReadAs, Shows, SameCounts, SameThread, SameTask
<1>6. tail.read = 0 /\ r = New
  BY DEF Init
<1> QED BY <1>3, <1>4, <1>5, <1>6 DEF ReadOK

LEMMA FileStep ==
  ASSUME TypeOK, FileOK, [Next]_vars PROVE FileOK'
<1>1. CASE Count \/ CountAgain \/ Turn \/ Task \/ Tool
  <2>1. PICK row \in Records : /\ Write(row) /\ row.is # "meta"
                               /\ row.is = "count" => row.ts = clock + 1
    BY <1>1, WrittenIs
  <2>2. rows' = Append(rows, row) /\ clock' = clock + 1 /\ clock \in Nat
    BY <2>1 DEF Write, TypeOK
  <2>3. rows \in Seq(Records) /\ Len(rows) \in Nat
    BY DEF TypeOK
  <2> DEFINE t == Append(rows, row)
             n == Len(rows)
  <2>4. /\ t \in Seq(Records) /\ Len(t) = n + 1 /\ t[n + 1] = row
        /\ \A i \in 1 .. n : t[i] = rows[i]
        /\ \A i \in 1 .. n + 1 : i \in 1 .. n \/ i = n + 1
    BY <2>3
  <2>5. \A i \in 1 .. n : rows[i].is = "count" => rows[i].ts <= clock /\ rows[i].ts \in Nat
    BY <2>3, RecordKinds, CountRowIs DEF FileOK
  <2>6. /\ \A i \in 1 .. n : rows[i].is = "meta" => i = 1
        /\ \A i \in 1 .. n, j \in 1 .. n :
             i < j /\ rows[i].is = "count" /\ rows[j].is = "count" => rows[i].ts < rows[j].ts
    BY DEF FileOK, Orderly
  <2> HIDE DEF t, n
  <2>7. ASSUME NEW i \in 1 .. n + 1, t[i].is = "meta" PROVE i = 1
    BY <2>1, <2>4, <2>6, <2>7
  <2>8. ASSUME NEW i \in 1 .. n + 1, NEW j \in 1 .. n + 1, i < j, t[i].is = "count", t[j].is = "count"
        PROVE t[i].ts < t[j].ts
    <3>1. i \in 1 .. n
      BY <2>3, <2>8 DEF n
    <3>2. CASE j = n + 1
      BY <2>1, <2>2, <2>4, <2>5, <2>8, <3>1, <3>2
    <3>3. CASE j \in 1 .. n
      BY <2>4, <2>6, <2>8, <3>1, <3>3
    <3> QED BY <2>4, <3>2, <3>3
  <2>9. ASSUME NEW i \in 1 .. n + 1, t[i].is = "count" PROVE t[i].ts <= clock + 1
    BY <2>1, <2>2, <2>4, <2>5, <2>9
  <2> QED BY <2>2, <2>4, <2>7, <2>8, <2>9 DEF FileOK, Orderly, t
<1>2. CASE Cut
  <2>1. PICK n \in 0 .. Len(rows) - 1 : rows' = SubSeq(rows, 1, n)
    BY <1>2 DEF Cut
  <2>2. rows \in Seq(Records) /\ clock' = clock
    BY <1>2 DEF TypeOK, Cut
  <2> DEFINE t == SubSeq(rows, 1, n)
  <2>3. t \in Seq(Records) /\ Len(t) = n /\ \A i \in 1 .. n : t[i] = rows[i] /\ i \in 1 .. Len(rows)
    BY <2>2
  <2> HIDE DEF t
  <2>4. rows' = t
    BY <2>1 DEF t
  <2> QED BY <2>2, <2>3, <2>4 DEF FileOK, Orderly
<1>3. CASE Rotate \/ Read \/ UNCHANGED vars
  <2>1. rows' = rows /\ clock' = clock
    BY <1>3 DEF Rotate, Read, vars, file
  <2> QED BY <2>1 DEF FileOK, Orderly
<1> QED BY <1>1, <1>2, <1>3 DEF Next

LEMMA ReadStep ==
  ASSUME TypeOK, FileOK, ReadOK, [Next]_vars PROVE ReadOK'
<1>1. CASE Count \/ CountAgain \/ Turn \/ Task \/ Tool
  <2> SUFFICES ASSUME cuts' = 0
               PROVE \E m \in Nat : tail'.read <= m /\ m <= Len(rows') /\ ReadAs(rows', tail'.read, m, r')
    BY DEF ReadOK
  <2>1. PICK row \in Records : Write(row)
    BY <1>1, WrittenIs
  <2>2. rows' = Append(rows, row) /\ tail' = tail /\ r' = r /\ cuts = 0
    BY <2>1 DEF Write
  <2>3. PICK m \in Nat : tail.read <= m /\ m <= Len(rows) /\ ReadAs(rows, tail.read, m, r)
    BY <2>2 DEF ReadOK
  <2>4. rows \in Seq(Records) /\ tail.read \in Nat
    BY DEF TypeOK
  <2>5. ReadAs(Append(rows, row), tail.read, m, r)
    BY <2>3, <2>4, ReadAsAppend
  <2>6. m <= Len(Append(rows, row))
    BY <2>3, <2>4
  <2> QED BY <2>2, <2>3, <2>5, <2>6
<1>2. CASE Cut
  <2>1. cuts' # 0
    BY <1>2 DEF Cut, TypeOK
  <2> QED BY <2>1 DEF ReadOK
<1>3. CASE Read
  <2> SUFFICES ASSUME cuts' = 0
               PROVE \E m \in Nat : tail'.read <= m /\ m <= Len(rows') /\ ReadAs(rows', tail'.read, m, r')
    BY DEF ReadOK
  <2>1. PICK n \in Nat : /\ From \in Nat /\ From <= n /\ n <= Len(rows)
                         /\ r' = Folded(r, SubSeq(rows, From + 1, n))
                         /\ tail' = [inode |-> inode, read |-> n]
    BY <1>3, ReadFrom
  <2>2. rows' = rows /\ cuts = 0
    BY <1>3 DEF Read, file
  <2>3. PICK m \in Nat : tail.read <= m /\ m <= Len(rows) /\ ReadAs(rows, tail.read, m, r)
    BY <2>2 DEF ReadOK
  <2>4. From \in {0, tail.read} /\ Orderly(rows) /\ rows \in Seq(Records) /\ IsRollout(r)
    BY DEF From, FileOK, TypeOK
  <2>5. From <= m /\ ReadAs(rows, From, m, r)
    <3>1. CASE From = 0
      BY <2>3, <2>4, <3>1, ReadAsRestart
    <3>2. CASE From = tail.read
      BY <2>3, <3>2
    <3> QED BY <2>4, <3>1, <3>2
  <2>6. \E e \in Nat : n <= e /\ e <= Len(rows)
                       /\ ReadAs(rows, n, e, Folded(r, SubSeq(rows, From + 1, n)))
    <3> DEFINE a == From
    <3> HIDE DEF a
    <3>1. \E e \in Nat : n <= e /\ e <= Len(rows)
                       /\ ReadAs(rows, n, e, Folded(r, SubSeq(rows, a + 1, n)))
      BY <2>1, <2>3, <2>4, <2>5, ReadAsMany DEF a
    <3> QED BY <3>1 DEF a
  <2> QED BY <2>1, <2>2, <2>6
<1>4. CASE Rotate \/ UNCHANGED vars
  <2>1. rows' = rows /\ cuts' = cuts /\ tail' = tail /\ r' = r
    BY <1>4 DEF Rotate, vars, file
  <2> QED BY <2>1 DEF ReadOK
<1> QED BY <1>1, <1>2, <1>3, <1>4 DEF Next

\* What is caught up with shows all that one reading of the file would.
LEMMA CaughtUpAgrees ==
  ASSUME TypeOK, FileOK, ReadOK, CaughtUp, cuts = 0
  PROVE  /\ Agree(r, Loaded(rows)) /\ TurnsTold(rows, Len(rows), Loaded(rows))
         /\ IsRollout(Loaded(rows)) /\ Loaded(rows) = Once(rows, Len(rows))
<1>1. rows \in Seq(Records) /\ Len(rows) \in Nat /\ Orderly(rows)
  BY DEF TypeOK, FileOK
<1>2. tail.read = Len(rows)
  BY DEF CaughtUp
<1>3. SubSeq(rows, 1, Len(rows)) = rows
  BY <1>1
<1>4. Loaded(rows) = Once(rows, Len(rows))
  BY <1>3 DEF Loaded, Once, Folded
<1>5. PICK m \in Nat : tail.read <= m /\ m <= Len(rows) /\ ReadAs(rows, tail.read, m, r)
  BY DEF ReadOK
<1>6. m = Len(rows)
  BY <1>1, <1>2, <1>5
<1> DEFINE n == Len(rows)
           l == Once(rows, n)
<1>7. TurnsTold(rows, n, l) /\ IsRollout(l)
  BY <1>1, OnceTold
<1>8. Shows(rows, n, n, r, l, l)
  BY <1>2, <1>5, <1>6 DEF ReadAs
<1> HIDE DEF n, l
<1>9. Agree(r, l)
  BY <1>7, <1>8, ShowsAll
<1> QED BY <1>4, <1>7, <1>9 DEF l, n

\* A rotated file is read again without the parser knowing, and still shows
\* all that one reading of it would but its calls: no count is added twice, to
\* the usage, the ledger or the rate (parse.go:211-216, 258-265,
\* rollouts.go:104-122).
THEOREM ReadAgainCountedOnce == Spec => []CountedOnce
<1>1. TypeOK /\ FileOK /\ ReadOK => CountedOnce
  <2> SUFFICES ASSUME TypeOK, FileOK, ReadOK, CaughtUp, cuts = 0
               PROVE  LET once == Loaded(rows) IN
                      /\ \A idle \in BOOLEAN :
                           /\ SubagentRow(r, idle) = SubagentRow(once, idle)
                           /\ SessionRow(r, Absent, idle) = SessionRow(once, Absent, idle)
                      /\ r.parent = once.parent
                      /\ \A t \in 1 .. clock : Rate(r.window, t) = Rate(once.window, t)
    BY DEF CountedOnce
  <2> DEFINE l == Loaded(rows)
  <2>1. Agree(r, l)
    BY CaughtUpAgrees
  <2> HIDE DEF l
  <2>2. \A idle \in BOOLEAN : /\ Inferred(r, idle) = Inferred(l, idle)
                              /\ ChildStatus(r, idle) = ChildStatus(l, idle)
    BY <2>1 DEF Agree, SameTask, Inferred, ChildStatus
  <2>3. \A idle \in BOOLEAN : SubagentRow(r, idle) = SubagentRow(l, idle)
    BY <2>1, <2>2 DEF Agree, SameCounts, SameThread, SubagentRow
  <2>4. \A idle \in BOOLEAN : SessionRow(r, Absent, idle) = SessionRow(l, Absent, idle)
    BY <2>1, <2>2 DEF Agree, SameCounts, SameThread, SessionRow
  <2>5. r.parent = l.parent /\ r.window = l.window
    BY <2>1 DEF Agree, SameCounts, SameThread
  <2> QED BY <2>3, <2>4, <2>5 DEF l
<1>2. Init => TypeOK /\ FileOK /\ ReadOK
  BY TypeInit, FileInit
<1>3. TypeOK /\ FileOK /\ ReadOK /\ [Next]_vars => (TypeOK /\ FileOK /\ ReadOK)'
  BY TypeStep, FileStep, ReadStep
<1> QED BY <1>1, <1>2, <1>3, PTL DEF Spec

-----------------------------------------------------------------------------
(***************************************************************************)
(* The open tool calls, as long as the file was never read again.          *)
(***************************************************************************)
Distinct(s) ==
  \A i \in 1 .. Len(s), j \in 1 .. Len(s) :
    i # j /\ s[i].is = "call" /\ s[j].is = "call" => s[i].id # s[j].id

Open(s, j) ==
  {i \in 1 .. j : /\ s[i].is = "call"
                  /\ \A e \in 1 .. j : ~ (e > i /\ s[e].is = "output" /\ s[e].id = s[i].id)}

\* The calls held back are the open ones, in the order they were made in.
HoldsOpen(s, j, pending) ==
  /\ pending \in Seq(Tools)
  /\ \A p \in 1 .. Len(pending) : \E i \in Open(s, j) : s[i].id = pending[p]
  /\ \A i \in Open(s, j) : \E p \in 1 .. Len(pending) : pending[p] = s[i].id
  /\ \A p \in 1 .. Len(pending), q \in 1 .. Len(pending) : p < q =>
       \A i \in 1 .. j, e \in 1 .. j :
         /\ s[i].is = "call" /\ s[i].id = pending[p]
         /\ s[e].is = "call" /\ s[e].id = pending[q]
         => i < e

LEMMA HoldsOrder ==
  ASSUME NEW s, NEW j, NEW t, HoldsOpen(s, j, t),
         NEW p \in 1 .. Len(t), NEW q \in 1 .. Len(t), p < q, NEW i \in 1 .. j, NEW e \in 1 .. j,
         s[i].is = "call", s[i].id = t[p], s[e].is = "call", s[e].id = t[q]
  PROVE  i < e
BY DEF HoldsOpen

LEMMA RemoveAtIs ==
  ASSUME NEW S, NEW t \in Seq(S), NEW p \in 1 .. Len(t)
  PROVE  /\ RemoveAt(t, p) \in Seq(S) /\ Len(RemoveAt(t, p)) = Len(t) - 1
         /\ \A i \in 1 .. Len(t) - 1 : RemoveAt(t, p)[i] = IF i < p THEN t[i] ELSE t[i + 1]
<1> DEFINE a == SubSeq(t, 1, p - 1)
           b == SubSeq(t, p + 1, Len(t))
           n == Len(t)
<1>1. /\ n \in Nat /\ p \in Nat /\ 1 <= p /\ p <= n
      /\ a \in Seq(S) /\ Len(a) = p - 1 /\ \A i \in 1 .. p - 1 : a[i] = t[i]
  OBVIOUS
<1>2. b \in Seq(S) /\ Len(b) = n - p /\ \A i \in 1 .. n - p : b[i] = t[p + i]
  OBVIOUS
<1>3. RemoveAt(t, p) = a \o b
  BY DEF RemoveAt
<1> HIDE DEF a, b, n
<1> DEFINE c == a \o b
<1>4. c \in Seq(S) /\ Len(c) = n - 1
  <2>1. a \in Seq(S) /\ b \in Seq(S)
    BY <1>1, <1>2
  <2>3. Len(c) = Len(a) + Len(b)
    BY <2>1
  <2>4. c \in Seq(S)
    BY <2>1
  <2>2. (p - 1) + (n - p) = n - 1
    BY <1>1
  <2> QED BY <1>1, <1>2, <2>2, <2>3, <2>4
<1>5. ASSUME NEW i \in 1 .. n - 1 PROVE c[i] = IF i < p THEN t[i] ELSE t[i + 1]
  <2>1. CASE i < p
    <3>1. i \in 1 .. p - 1 /\ c[i] = a[i]
      BY <1>1, <1>2, <2>1
    <3> QED BY <1>1, <2>1, <3>1
  <2>2. CASE ~ (i < p)
    <3>1. i - (p - 1) \in 1 .. n - p /\ p + (i - (p - 1)) = i + 1
      BY <1>1, <2>2
    <3>2. c[i] = b[i - (p - 1)]
      BY <1>1, <1>2, <2>2
    <3> QED BY <1>2, <2>2, <3>1, <3>2
  <2> QED BY <2>1, <2>2
<1> QED BY <1>3, <1>4, <1>5 DEF n

LEMMA ReturnedIs ==
  ASSUME NEW t \in Seq(Tools), NEW id
  PROVE  \/ (\A p \in 1 .. Len(t) : t[p] # id) /\ Returned(t, id) = t
         \/ \E p \in 1 .. Len(t) : t[p] = id /\ Returned(t, id) = RemoveAt(t, p)
<1> DEFINE at == {p \in DOMAIN t : t[p] = id}
<1>1. DOMAIN t = 1 .. Len(t)
  OBVIOUS
<1>2. CASE at = {}
  BY <1>1, <1>2 DEF Returned
<1>3. CASE at # {}
  <2>1. at \in SUBSET Nat
    BY <1>1
  <2> DEFINE p == CHOOSE i \in at : \A j \in at : i <= j
  <2>2. p \in at
    <3> HIDE DEF at
    <3>1. \E i \in at : \A j \in at : i <= j
      BY <1>3, <2>1, LeastNumber
    <3> QED BY <3>1
  <2>3. Returned(t, id) = RemoveAt(t, p)
    BY <1>3 DEF Returned
  <2> HIDE DEF p
  <2> QED BY <1>1, <2>2, <2>3
<1> QED BY <1>2, <1>3

LEMMA OpenStep ==
  ASSUME NEW s \in Seq(Records), NEW j \in Nat, j < Len(s)
  PROVE  /\ s[j + 1].is = "call" => Open(s, j + 1) = Open(s, j) \cup {j + 1}
         /\ s[j + 1].is = "output" =>
              Open(s, j + 1) = {i \in Open(s, j) : s[i].id # s[j + 1].id}
         /\ s[j + 1].is \notin {"call", "output"} => Open(s, j + 1) = Open(s, j)
<1>1. /\ j + 1 \in 1 .. j + 1 /\ ~ (j + 1 > j + 1)
      /\ \A i \in 1 .. j + 1 : i \in 1 .. j \/ i = j + 1
      /\ \A i \in 1 .. j : i \in 1 .. j + 1 /\ j + 1 > i /\ ~ (i > j + 1)
  OBVIOUS
<1>2. ASSUME s[j + 1].is = "call" PROVE Open(s, j + 1) = Open(s, j) \cup {j + 1}
  BY <1>1, <1>2 DEF Open
<1>3. ASSUME s[j + 1].is = "output"
      PROVE Open(s, j + 1) = {i \in Open(s, j) : s[i].id # s[j + 1].id}
  BY <1>1, <1>3 DEF Open
<1>4. ASSUME s[j + 1].is \notin {"call", "output"} PROVE Open(s, j + 1) = Open(s, j)
  BY <1>1, <1>4 DEF Open
<1> QED BY <1>2, <1>3, <1>4

LEMMA HoldsCall ==
  ASSUME NEW s \in Seq(Records), Distinct(s), NEW j \in Nat, j < Len(s),
         NEW t, HoldsOpen(s, j, t), s[j + 1].is = "call", s[j + 1].id \in Tools
  PROVE  HoldsOpen(s, j + 1, Append(t, s[j + 1].id))
<1> DEFINE id == s[j + 1].id
           u == Append(t, id)
           n == Len(t)
<1>1. Open(s, j + 1) = Open(s, j) \cup {j + 1}
  BY OpenStep
<1>2. t \in Seq(Tools)
  BY DEF HoldsOpen
<1>3. /\ u \in Seq(Tools) /\ Len(u) = n + 1 /\ u[n + 1] = id /\ n \in Nat
      /\ \A p \in 1 .. n : u[p] = t[p]
      /\ \A p \in 1 .. n + 1 : p \in 1 .. n \/ p = n + 1
  BY <1>2
<1>4. /\ j + 1 \in 1 .. Len(s) /\ \A i \in 1 .. j : i \in 1 .. Len(s) /\ i # j + 1 /\ i < j + 1
      /\ \A i \in 1 .. j + 1 : i \in 1 .. j \/ i = j + 1
  OBVIOUS
<1>5. \A i \in 1 .. j : s[i].is = "call" => s[i].id # id
  BY <1>4 DEF Distinct
<1>6. \A i \in Open(s, j) : i \in 1 .. j /\ s[i].is = "call"
  BY DEF Open
<1> HIDE DEF u, n
<1>7. ASSUME NEW p \in 1 .. n + 1 PROVE \E i \in Open(s, j + 1) : s[i].id = u[p]
  <2>1. CASE p = n + 1
    BY <1>1, <1>3, <2>1
  <2>2. CASE p \in 1 .. n
    BY <1>1, <1>3, <2>2 DEF HoldsOpen, n
  <2> QED BY <1>3, <2>1, <2>2
<1>8. ASSUME NEW i \in Open(s, j + 1) PROVE \E p \in 1 .. n + 1 : u[p] = s[i].id
  <2>1. CASE i = j + 1
    <3>1. n + 1 \in 1 .. n + 1
      BY <1>3
    <3> QED BY <1>3, <2>1, <3>1
  <2>2. CASE i \in Open(s, j)
    <3>1. PICK p \in 1 .. n : t[p] = s[i].id
      BY <2>2 DEF HoldsOpen, n
    <3>2. p \in 1 .. n + 1
      BY <1>3
    <3> QED BY <1>3, <3>1, <3>2
  <2> QED BY <1>1, <2>1, <2>2
<1>9. ASSUME NEW p \in 1 .. n + 1, NEW q \in 1 .. n + 1, p < q,
             NEW i \in 1 .. j + 1, NEW e \in 1 .. j + 1,
             s[i].is = "call", s[i].id = u[p], s[e].is = "call", s[e].id = u[q]
      PROVE  i < e
  <2>1. p \in 1 .. n
    BY <1>3, <1>9
  <2>2. PICK o \in Open(s, j) : s[o].id = t[p]
    BY <2>1 DEF HoldsOpen, n
  <2>3. s[o].id # id /\ u[p] = t[p]
    BY <1>3, <1>5, <1>6, <2>1, <2>2
  <2>4. i \in 1 .. j
    BY <1>4, <1>9, <2>2, <2>3
  <2>5. CASE q = n + 1
    <3>1. e = j + 1
      BY <1>3, <1>4, <1>5, <1>9, <2>5
    <3> QED BY <1>4, <2>4, <3>1
  <2>6. CASE q \in 1 .. n
    <3>1. PICK v \in Open(s, j) : s[v].id = t[q]
      BY <2>6 DEF HoldsOpen, n
    <3>2. s[v].id # id /\ u[q] = t[q]
      BY <1>3, <1>5, <1>6, <2>6, <3>1
    <3>3. e \in 1 .. j
      BY <1>4, <1>9, <3>1, <3>2
    <3>4. p \in 1 .. Len(t) /\ q \in 1 .. Len(t) /\ s[i].id = t[p] /\ s[e].id = t[q]
      BY <1>9, <2>1, <2>3, <2>6, <3>2 DEF n
    <3> HIDE DEF n
    <3> QED BY <1>9, <2>4, <3>3, <3>4, HoldsOrder
  <2> QED BY <1>3, <2>5, <2>6
<1>10. HoldsOpen(s, j + 1, u)
  BY <1>3, <1>7, <1>8, <1>9 DEF HoldsOpen
<1> QED BY <1>10 DEF u

LEMMA HoldsOutput ==
  ASSUME NEW s \in Seq(Records), NEW j \in Nat, j < Len(s),
         NEW t, HoldsOpen(s, j, t), s[j + 1].is = "output"
  PROVE  HoldsOpen(s, j + 1, Returned(t, s[j + 1].id))
<1> DEFINE id == s[j + 1].id
           u == Returned(t, id)
           n == Len(t)
<1>1. Open(s, j + 1) = {i \in Open(s, j) : s[i].id # id}
  BY OpenStep
<1>2. t \in Seq(Tools) /\ n \in Nat
  BY DEF HoldsOpen
<1>3. /\ \A i \in 1 .. j + 1 : s[i].is = "call" => i \in 1 .. j
      /\ \A i \in Open(s, j) : i \in 1 .. j /\ s[i].is = "call"
  BY DEF Open
<1> HIDE DEF id
<1>4. CASE (\A p \in 1 .. n : t[p] # id) /\ u = t
  <2>1. Open(s, j + 1) = Open(s, j)
    <3>1. \A i \in Open(s, j) : s[i].id # id
      BY <1>4 DEF HoldsOpen
    <3> QED BY <1>1, <3>1
  <2>2. HoldsOpen(s, j + 1, t)
    BY <1>3, <2>1 DEF HoldsOpen
  <2> QED BY <1>4, <2>2 DEF id
<1>5. CASE \E p \in 1 .. n : t[p] = id /\ u = RemoveAt(t, p)
  <2>1. PICK p \in 1 .. n : t[p] = id /\ u = RemoveAt(t, p)
    BY <1>5
  <2>2. /\ u \in Seq(Tools) /\ Len(u) = n - 1
        /\ \A i \in 1 .. n - 1 : u[i] = IF i < p THEN t[i] ELSE t[i + 1]
    BY <1>2, <2>1, RemoveAtIs
  <2>3. PICK o \in Open(s, j) : s[o].id = t[p]
    BY DEF HoldsOpen
  <2>4. \A q \in 1 .. n : q # p => t[q] # id
    <3> SUFFICES ASSUME NEW q \in 1 .. n, q # p, t[q] = id PROVE FALSE
      OBVIOUS
    <3>1. p < q \/ q < p
      BY <1>2
    <3>2. o \in 1 .. j /\ s[o].is = "call" /\ s[o].id = t[p] /\ s[o].id = t[q]
      BY <1>3, <2>1, <2>3
    <3>3. o < o
      <4>1. CASE p < q
        BY <3>2, <4>1, HoldsOrder
      <4>2. CASE q < p
        BY <3>2, <4>2, HoldsOrder
      <4> QED BY <3>1, <4>1, <4>2
    <3> QED BY <3>2, <3>3
  <2> HIDE DEF u, n
  <2> DEFINE Was(i) == IF i < p THEN i ELSE i + 1
  <2>5. \A i \in 1 .. n - 1 : Was(i) \in 1 .. n /\ Was(i) # p /\ u[i] = t[Was(i)]
    BY <1>2, <2>2
  <2>6. \A i \in 1 .. n - 1, e \in 1 .. n - 1 : i < e => Was(i) < Was(e)
    BY <1>2
  <2>7. \A q \in 1 .. n : q # p => \E i \in 1 .. n - 1 : Was(i) = q
    <3> SUFFICES ASSUME NEW q \in 1 .. n, q # p PROVE \E i \in 1 .. n - 1 : Was(i) = q
      OBVIOUS
    <3>1. CASE q < p
      <4>1. q \in 1 .. n - 1
        BY <1>2, <3>1
      <4> QED BY <3>1, <4>1
    <3>2. CASE q > p
      <4>1. q - 1 \in 1 .. n - 1 /\ ~ (q - 1 < p) /\ (q - 1) + 1 = q
        BY <1>2, <3>2
      <4> QED BY <4>1
    <3> QED BY <1>2, <3>1, <3>2
  <2> HIDE DEF Was
  <2>8. ASSUME NEW i \in 1 .. n - 1 PROVE \E e \in Open(s, j + 1) : s[e].id = u[i]
    <3>1. PICK e \in Open(s, j) : s[e].id = t[Was(i)]
      BY <2>5 DEF HoldsOpen, n
    <3> QED BY <1>1, <2>4, <2>5, <3>1
  <2>9. ASSUME NEW e \in Open(s, j + 1) PROVE \E i \in 1 .. n - 1 : u[i] = s[e].id
    <3>1. e \in Open(s, j) /\ s[e].id # id
      BY <1>1
    <3>2. PICK q \in 1 .. n : t[q] = s[e].id
      BY <3>1 DEF HoldsOpen, n
    <3> QED BY <2>1, <2>5, <2>7, <3>1, <3>2
  <2>10. ASSUME NEW q \in 1 .. n - 1, NEW v \in 1 .. n - 1, q < v,
                NEW i \in 1 .. j + 1, NEW e \in 1 .. j + 1,
                s[i].is = "call", s[i].id = u[q], s[e].is = "call", s[e].id = u[v]
         PROVE  i < e
    <3>1. i \in 1 .. j /\ e \in 1 .. j
      BY <1>3, <2>10
    <3> DEFINE a == Was(q)
               b == Was(v)
    <3>2. /\ a \in 1 .. Len(t) /\ b \in 1 .. Len(t) /\ a < b
          /\ s[i].id = t[a] /\ s[e].id = t[b]
      BY <2>5, <2>6, <2>10 DEF n
    <3> HIDE DEF a, b
    <3> QED BY <2>10, <3>1, <3>2, HoldsOrder
  <2>11. HoldsOpen(s, j + 1, u)
    BY <2>2, <2>8, <2>9, <2>10 DEF HoldsOpen
  <2> QED BY <2>11 DEF id, u
<1> QED BY <1>2, <1>4, <1>5, ReturnedIs

LEMMA OnceHolds ==
  ASSUME NEW s \in Seq(Records), Distinct(s), NEW j \in Nat, j <= Len(s)
  PROVE  HoldsOpen(s, j, Once(s, j).pending)
<1> DEFINE G == {i \in 0 .. j : HoldsOpen(s, i, Once(s, i).pending)}
<1>1. 0 \in G
  <2>1. Once(s, 0).pending = <<>>
    <3>1. New.pending = <<>>
      BY DEF New
    <3> QED BY <3>1, OnceNone
  <2>2. HoldsOpen(s, 0, <<>>)
    <3>1. 1 .. 0 = {} /\ <<>> \in Seq(Tools) /\ Len(<<>>) = 0
      OBVIOUS
    <3> QED BY <3>1 DEF HoldsOpen, Open
  <2> QED BY <2>1, <2>2
<1>2. ASSUME NEW i \in 0 .. j, i < j, i \in G PROVE i + 1 \in G
  <2> DEFINE l == Once(s, i)
             row == s[i + 1]
             t == l.pending
             a == Applied(l, row)
  <2>1. i \in Nat /\ i < Len(s) /\ i + 1 \in 0 .. j
    BY <1>2
  <2>2. row \in Records /\ IsRollout(l) /\ Once(s, i + 1) = a
    BY <2>1, OnceStep
  <2>3. HoldsOpen(s, i, t) /\ l = Fields(l)
    BY <1>2, <2>2 DEF IsRollout
  <2>4. CASE row.is = "call"
    <3>1. a.pending = Append(t, row.id)
      <4> HIDE DEF l, row
      <4> QED BY <2>3, <2>4, CallFields
    <3>2. row.id \in Tools
      BY <2>2, <2>4, RecordsAssumption
         DEF Records, IsMeta, CountRow, TurnContext, TaskEvent, ResponseItem
    <3>3. HoldsOpen(s, i + 1, Append(t, row.id))
      <4> HIDE DEF t
      <4> QED BY <2>1, <2>3, <2>4, <3>2, HoldsCall
    <3> QED BY <2>1, <2>2, <3>1, <3>3
  <2>5. CASE row.is = "output"
    <3>1. a.pending = Returned(t, row.id)
      <4> HIDE DEF l, row
      <4> QED BY <2>3, <2>5, OutputFields
    <3>2. HoldsOpen(s, i + 1, Returned(t, row.id))
      <4> HIDE DEF t
      <4> QED BY <2>1, <2>3, <2>5, HoldsOutput
    <3> QED BY <2>1, <2>2, <3>1, <3>2
  <2>6. CASE row.is \notin {"call", "output"}
    <3>1. SameCalls(a, l)
      <4> HIDE DEF l, row
      <4>1. row.is \in {"meta", "count", "turn", "started", "complete"}
        BY <2>2, <2>6, RecordKinds
      <4>2. CASE row.is = "meta"
        BY <2>3, <4>2, MetaFields
      <4>3. CASE row.is = "count"
        BY <2>3, <4>3, CountFields
      <4>4. CASE row.is = "turn"
        BY <2>3, <4>4, TurnFields
      <4>5. CASE row.is = "started"
        BY <2>3, <4>5, StartedFields
      <4>6. CASE row.is = "complete"
        BY <2>3, <4>6, CompleteFields
      <4> QED BY <4>1, <4>2, <4>3, <4>4, <4>5, <4>6
    <3>2. a.pending = t
      <4> HIDE DEF l, a
      <4> QED BY <3>1 DEF SameCalls
    <3>3. Open(s, i + 1) = Open(s, i)
      BY <2>1, <2>6, OpenStep
    <3>4. \A e \in 1 .. i + 1 : s[e].is = "call" => e \in 1 .. i
      BY <2>1, <2>6
    <3>5. HoldsOpen(s, i + 1, t)
      <4> HIDE DEF t
      <4> QED BY <2>3, <3>3, <3>4 DEF HoldsOpen
    <3> QED BY <2>1, <2>2, <3>2, <3>5
  <2> QED BY <2>4, <2>5, <2>6
<1> HIDE DEF G
<1>3. j \in G
  BY <1>1, <1>2, CountUp
<1> QED BY <1>3 DEF G

\* A file that was never put in place of another is read once.
OnceOK ==
  rotations = 0 =>
    /\ cuts = 0 /\ tail.inode \in {0, inode} /\ tail.read <= Len(rows)
    /\ r = Once(rows, tail.read)

LEMMA OnceMore ==
  ASSUME NEW s \in Seq(Records), NEW a \in Nat, NEW b \in Nat, a <= b, b <= Len(s)
  PROVE  Folded(Once(s, a), SubSeq(s, a + 1, b)) = Once(s, b)
<1> DEFINE k == Once(s, a)
           G == {j \in a .. b : Folded(k, SubSeq(s, a + 1, j)) = Once(s, j)}
<1> HIDE DEF k
<1>1. a \in G
  BY FoldedNone DEF k
<1>2. ASSUME NEW j \in a .. b, j < b, j \in G PROVE j + 1 \in G
  <2>1. j \in Nat /\ a <= j /\ j < Len(s) /\ j + 1 \in a .. b
    BY <1>2
  <2>2. Folded(k, SubSeq(s, a + 1, j + 1)) = Applied(Folded(k, SubSeq(s, a + 1, j)), s[j + 1])
    BY <2>1, FoldedStep
  <2>3. Once(s, j + 1) = Applied(Once(s, j), s[j + 1])
    BY <2>1, OnceStep
  <2> QED BY <1>2, <2>1, <2>2, <2>3
<1> HIDE DEF G
<1>3. b \in G
  BY <1>1, <1>2, CountFrom
<1> QED BY <1>3 DEF G, k

LEMMA OnceInit == Init => OnceOK
<1> SUFFICES ASSUME Init PROVE OnceOK
  OBVIOUS
<1>1. rows \in Seq(Records) /\ Len(rows) \in Nat
  BY TypeInit DEF TypeOK
<1>2. Once(rows, 0) = New
  BY <1>1, OnceNone
<1> QED BY <1>1, <1>2 DEF Init, OnceOK

LEMMA OnceOKStep ==
  ASSUME TypeOK, OnceOK, [Next]_vars PROVE OnceOK'
<1>1. CASE Count \/ CountAgain \/ Turn \/ Task \/ Tool
  <2>1. PICK row \in Records : Write(row)
    BY <1>1, WrittenIs
  <2>2. /\ rows' = Append(rows, row) /\ tail' = tail /\ r' = r /\ cuts' = cuts
        /\ rotations' = rotations /\ inode' = inode
    BY <2>1 DEF Write
  <2>3. rows \in Seq(Records) /\ tail.read \in Nat
    BY DEF TypeOK
  <2>4. tail.read <= Len(rows) =>
          SubSeq(Append(rows, row), 1, tail.read) = SubSeq(rows, 1, tail.read)
    BY <2>3
  <2>5. Len(Append(rows, row)) = Len(rows) + 1 /\ Len(rows) \in Nat
    BY <2>3
  <2> DEFINE t == Append(rows, row)
  <2> HIDE DEF t
  <2>6. tail.read <= Len(rows) => Once(t, tail.read) = Once(rows, tail.read)
    BY <2>4 DEF Once, t
  <2>7. rows' = t /\ (tail.read <= Len(rows) => tail.read <= Len(t))
    BY <2>2, <2>3, <2>5 DEF t
  <2> QED BY <2>2, <2>6, <2>7 DEF OnceOK
<1>2. CASE Cut \/ Rotate
  <2>1. rotations' # 0
    BY <1>2 DEF Cut, Rotate, TypeOK
  <2> QED BY <2>1 DEF OnceOK
<1>3. CASE Read
  <2> SUFFICES ASSUME rotations = 0
               PROVE /\ cuts = 0 /\ tail'.inode \in {0, inode} /\ tail'.read <= Len(rows)
                     /\ r' = Once(rows, tail'.read)
    BY <1>3 DEF OnceOK, Read, file
  <2>1. PICK n \in Nat : /\ From \in Nat /\ From <= n /\ n <= Len(rows)
                         /\ r' = Folded(r, SubSeq(rows, From + 1, n))
                         /\ tail' = [inode |-> inode, read |-> n]
    BY <1>3, ReadFrom
  <2>2. From = tail.read /\ rows \in Seq(Records) /\ tail.read \in Nat
    BY DEF From, OnceOK, TypeOK
  <2>3. r' = Once(rows, n)
    <3> DEFINE a == tail.read
    <3>1. a \in Nat /\ a <= n /\ r' = Folded(Once(rows, a), SubSeq(rows, a + 1, n))
      BY <2>1, <2>2 DEF OnceOK
    <3> HIDE DEF a
    <3> QED BY <2>1, <2>2, <3>1, OnceMore
  <2> QED BY <2>1, <2>3 DEF OnceOK
<1>4. CASE UNCHANGED vars
  BY <1>4 DEF vars, file, OnceOK
<1> QED BY <1>1, <1>2, <1>3, <1>4 DEF Next

\* The newest of the open calls is the one held back last.
LEMMA NewestOpen ==
  ASSUME NEW s \in Seq(Records), Distinct(s), NEW t, HoldsOpen(s, Len(s), t)
  PROVE  (IF t = <<>> THEN "" ELSE t[Len(t)])
         = IF Open(s, Len(s)) = {} THEN ""
           ELSE s[CHOOSE i \in Open(s, Len(s)) : \A j \in Open(s, Len(s)) : j <= i].id
<1> DEFINE n == Len(s)
           open == Open(s, n)
           m == Len(t)
<1>1. /\ t \in Seq(Tools) /\ m \in Nat
      /\ \A p \in 1 .. m : \E i \in open : s[i].id = t[p]
      /\ \A i \in open : \E p \in 1 .. m : t[p] = s[i].id
      /\ \A i \in open : i \in 1 .. n /\ s[i].is = "call"
  BY DEF HoldsOpen, Open
<1>2. CASE t = <<>>
  <2>1. open = {}
    BY <1>1, <1>2
  <2> QED BY <1>2, <2>1
<1>3. CASE t # <<>>
  <2>1. m > 0 /\ m \in 1 .. m
    BY <1>1, <1>3
  <2>2. PICK i \in open : s[i].id = t[m]
    BY <1>1, <2>1
  <2>3. ASSUME NEW e \in open PROVE e <= i
    <3>1. PICK p \in 1 .. m : t[p] = s[e].id
      BY <1>1
    <3>2. CASE p = m
      <4>1. s[i].id = s[e].id /\ i \in 1 .. n /\ e \in 1 .. n
        BY <1>1, <2>2, <3>1, <3>2
      <4>2. s[i].is = "call" /\ s[e].is = "call"
        BY <1>1
      <4> HIDE DEF open
      <4>3. i = e
        BY <4>1, <4>2 DEF Distinct
      <4> QED BY <4>1, <4>3
    <3>3. CASE p < m
      <4>1. e < i
        <5>1. /\ i \in 1 .. Len(s) /\ e \in 1 .. Len(s) /\ s[i].is = "call" /\ s[e].is = "call"
              /\ p \in 1 .. Len(t) /\ Len(t) \in 1 .. Len(t) /\ p < Len(t)
              /\ s[e].id = t[p] /\ s[i].id = t[Len(t)]
          BY <1>1, <2>1, <2>2, <3>1, <3>3
        <5> HIDE DEF open
        <5> DEFINE q == Len(t)
                   j == Len(s)
        <5>2. /\ HoldsOpen(s, j, t) /\ i \in 1 .. j /\ e \in 1 .. j
              /\ q \in 1 .. Len(t) /\ p < q /\ s[i].id = t[q]
          BY <5>1
        <5> HIDE DEF q, j
        <5> QED BY <5>1, <5>2, HoldsOrder
      <4> QED BY <1>1, <4>1
    <3> QED BY <1>1, <3>1, <3>2, <3>3
  <2>4. (CHOOSE x \in open : \A j \in open : j <= x) = i
    <3>1. \A x \in open : (\A j \in open : j <= x) => x = i
      <4>1. \A x \in open : x \in Int
        BY <1>1
      <4> HIDE DEF open
      <4> QED BY <2>3, <4>1
    <3> HIDE DEF open
    <3> QED BY <2>3, <3>1
  <2> QED BY <1>3, <2>2, <2>4
<1> QED BY <1>2, <1>3

\* Busy exactly while the latest turn is open, a child done exactly when it
\* was finished, however long it has been silent; and the tool shown is the
\* newest call still open, as long as the file was never read again
\* (parse.go:195-217, 268-285, fold.go:69-99).
THEOREM LatestTurnIsShown == Spec => []ShowsLatestTurn
<1>1. TypeOK /\ FileOK /\ ReadOK /\ OnceOK => ShowsLatestTurn
  <2> DEFINE tasks == {i \in DOMAIN rows : rows[i].is \in {"started", "complete"}}
             last == rows[CHOOSE i \in tasks : \A j \in tasks : j <= i].is
             open == {i \in DOMAIN rows :
                        /\ rows[i].is = "call"
                        /\ \A j \in DOMAIN rows :
                             ~(j > i /\ rows[j].is = "output" /\ rows[j].id = rows[i].id)}
             distinct == \A i, j \in DOMAIN rows :
                           i # j /\ rows[i].is = "call" /\ rows[j].is = "call"
                             => rows[i].id # rows[j].id
  <2> SUFFICES ASSUME TypeOK, FileOK, ReadOK, OnceOK, CaughtUp, cuts = 0
               PROVE /\ tasks # {} => /\ r.status = "busy" <=> last = "started"
                                      /\ \A idle \in BOOLEAN :
                                           /\ ChildStatus(r, idle) = "done" <=> last = "complete"
                                           /\ ChildStatus(r, idle) = "running" => ~idle
                     /\ rotations = 0 /\ distinct
                          => CurrentTool(r) = IF open = {} THEN ""
                               ELSE rows[CHOOSE i \in open : \A j \in open : j <= i].id
    BY DEF ShowsLatestTurn
  <2>1. rows \in Seq(Records) /\ Len(rows) \in Nat /\ DOMAIN rows = 1 .. Len(rows)
    BY DEF TypeOK
  <2>2. ASSUME tasks # {}
        PROVE  /\ r.status = "busy" <=> last = "started"
               /\ \A idle \in BOOLEAN : /\ ChildStatus(r, idle) = "done" <=> last = "complete"
                                        /\ ChildStatus(r, idle) = "running" => ~idle
    <3> DEFINE i == CHOOSE i \in tasks : \A j \in tasks : j <= i
    <3>1. i \in tasks /\ \A j \in tasks : j <= i
      <4>1. tasks \in SUBSET (1 .. Len(rows))
        BY <2>1
      <4> HIDE DEF tasks
      <4>2. Max(tasks) \in tasks /\ \A j \in tasks : j <= Max(tasks)
        BY <2>1, <2>2, <4>1, MaxIs
      <4> QED BY <4>2
    <3>2. last = rows[i].is
      OBVIOUS
    <3> HIDE DEF i
    <3>3. /\ i \in 1 .. Len(rows) /\ rows[i].is \in {"started", "complete"}
          /\ \A e \in 1 .. Len(rows) : e > i => rows[e].is \notin {"started", "complete"}
      BY <2>1, <3>1
    <3> DEFINE l == Loaded(rows)
    <3>4. TurnsTold(rows, Len(rows), l) /\ Agree(r, l)
      BY CaughtUpAgrees
    <3> HIDE DEF l, last, tasks
    <3>5. /\ rows[i].is = "started" => l.status = "busy" /\ l.completed = FALSE
          /\ rows[i].is = "complete" => l.status = "waiting" /\ l.completed = TRUE
      BY <3>3, <3>4 DEF TurnsTold
    <3>6. /\ last = "started" => r.status = "busy" /\ r.completed = FALSE
          /\ last = "complete" => r.status = "waiting" /\ r.completed = TRUE
          /\ last \in {"started", "complete"}
      BY <3>2, <3>3, <3>4, <3>5 DEF Agree, SameTask
    <3> QED BY <3>6 DEF ChildStatus, Inferred
  <2>3. ASSUME rotations = 0, distinct
        PROVE  CurrentTool(r) = IF open = {} THEN ""
                               ELSE rows[CHOOSE i \in open : \A j \in open : j <= i].id
    <3> DEFINE n == Len(rows)
               t == Once(rows, n).pending
    <3>1. r = Once(rows, n)
      BY <2>3 DEF OnceOK, CaughtUp
    <3>2. Distinct(rows) /\ open = Open(rows, n)
      BY <2>1, <2>3 DEF Distinct, Open
    <3>3. HoldsOpen(rows, n, t)
      <4> HIDE DEF n
      <4>1. n \in Nat /\ n <= Len(rows)
        BY <2>1 DEF n
      <4> QED BY <2>1, <3>2, <4>1, OnceHolds
    <3>4. CurrentTool(r) = IF t = <<>> THEN "" ELSE t[Len(t)]
      BY <3>1 DEF CurrentTool
    <3> HIDE DEF t, open
    <3>5. (IF t = <<>> THEN "" ELSE t[Len(t)])
         = IF Open(rows, n) = {} THEN ""
           ELSE rows[CHOOSE i \in Open(rows, n) : \A j \in Open(rows, n) : j <= i].id
      BY <2>1, <3>2, <3>3, NewestOpen
    <3> QED BY <3>2, <3>4, <3>5
  <2> QED BY <2>2, <2>3
<1>2. Init => TypeOK /\ FileOK /\ ReadOK /\ OnceOK
  BY TypeInit, FileInit, OnceInit
<1>3. TypeOK /\ FileOK /\ ReadOK /\ OnceOK /\ [Next]_vars => (TypeOK /\ FileOK /\ ReadOK /\ OnceOK)'
  BY TypeStep, FileStep, ReadStep, OnceOKStep
<1> QED BY <1>1, <1>2, <1>3, PTL DEF Spec

-----------------------------------------------------------------------------
(***************************************************************************)
(* Where the rollouts are found (RolloutIndex), for any rollouts, spans,   *)
(* clocks and faults.                                                      *)
(***************************************************************************)

IndexTypeOK ==
  /\ now \in Time
  /\ files \subseteq Rollout
  /\ day \in [Rollout -> Today]
  /\ mtime \in [Rollout -> 0 .. now]
  /\ woke \in [Rollout -> 0 .. now]
  /\ blind \in [Today -> (0 .. now) \cup {Never}]
  /\ root \in [years : SUBSET Nat, changes : Nat]
  /\ index \in [walkedAt : (0 .. now) \cup {Never}, walkCutoff : Int,
                rootMtime : Nat, hotDirs : SUBSET Today]

\* What was recent at the last walk, or is now, lies in a hot folder, or was
\* resumed or unreadable since.
Accounted(u) ==
  \/ day[u] \in index.hotDirs
  \/ woke[u] >= index.walkedAt
  \/ blind[day[u]] # Never /\ blind[day[u]] >= index.walkedAt

HotOrExcused ==
  index.walkedAt # Never =>
    /\ index.walkCutoff = index.walkedAt - Window
    /\ \A u \in files : mtime[u] >= index.walkCutoff => Accounted(u)

IndexInv == IndexTypeOK /\ HotOrExcused

-----------------------------------------------------------------------------
\* A day's folder comes no earlier than an earlier moment's.
LEMMA FolderMono ==
  ASSUME NEW a \in Int, NEW b \in Int, a <= b
  PROVE  Folder(a) <= Folder(b) /\ Folder(a) \in Int
BY SpansAssumption DEF Folder

\* A day before is the folder before.
LEMMA FolderBefore ==
  ASSUME NEW a \in Int
  PROVE  Folder(a - Day) = Folder(a) - 1
BY SpansAssumption DEF Folder

LEMMA FolderNow ==
  ASSUME NEW t \in Time
  PROVE  Folder(t) \in Today
<1>1. Folder(0) = 0
  BY SpansAssumption DEF Folder
<1> QED
  BY <1>1, FolderMono, BoundAssumption DEF Time, Today

\* What a poll knows of the index it does not rebuild.
LEMMA NoWalk ==
  ASSUME IndexInv, ~NeedWalk
  PROVE  /\ index.walkedAt # Never /\ index.walkedAt \in 0 .. now
         /\ now - index.walkedAt < Rewalk
         /\ Cutoff >= index.walkCutoff
BY SpansAssumption DEF IndexInv, IndexTypeOK, HotOrExcused, NeedWalk, Cutoff, Time

-----------------------------------------------------------------------------
LEMMA InitIndexInv == IndexInit => IndexInv
<1> SUFFICES ASSUME IndexInit PROVE IndexInv
  OBVIOUS
<1>1. 0 \in Today /\ 0 \in Time
  <2>1. 0 \in Time
    BY BoundAssumption DEF Time
  <2>2. Folder(0) = 0
    BY SpansAssumption DEF Folder
  <2> QED
    BY <2>1, <2>2, FolderNow
<1>2. IndexTypeOK
  BY <1>1 DEF IndexInit, IndexTypeOK, Unwalked
<1> QED
  BY <1>2 DEF IndexInv, HotOrExcused, IndexInit, Unwalked

LEMMA TickIndexInv == IndexInv /\ Tick => IndexInv'
<1> SUFFICES ASSUME IndexInv, Tick PROVE IndexInv'
  OBVIOUS
<1> USE DEF IndexInv, Tick, disk
<1>1. now \in Nat /\ 0 .. now \subseteq 0 .. now'
  BY DEF IndexTypeOK, Time
<1>2. IndexTypeOK'
  <2>1. now' \in Time
    BY BoundAssumption DEF IndexTypeOK, Time
  <2>2. /\ mtime \in [Rollout -> 0 .. now']
        /\ woke \in [Rollout -> 0 .. now']
        /\ blind \in [Today -> (0 .. now') \cup {Never}]
    BY <1>1 DEF IndexTypeOK
  <2>3. index \in [walkedAt : (0 .. now') \cup {Never}, walkCutoff : Int,
                   rootMtime : Nat, hotDirs : SUBSET Today]
    BY <1>1 DEF IndexTypeOK
  <2> QED
    BY <2>1, <2>2, <2>3 DEF IndexTypeOK
<1>3. HotOrExcused'
  BY DEF HotOrExcused, Accounted
<1> QED
  BY <1>2, <1>3

LEMMA StartIndexInv ==
  ASSUME IndexInv, NEW u \in Rollout, Start(u)
  PROVE  IndexInv'
<1> USE DEF IndexInv, Start
<1>1. Folder(now) \in Today /\ now \in Nat /\ now \in Time
  BY FolderNow DEF IndexTypeOK, Time
<1>2. IndexTypeOK'
  <2>1. root' \in [years : SUBSET Nat, changes : Nat]
    <3>1. now \div Year \in Nat
      BY <1>1, SpansAssumption
    <3> QED
      BY <3>1 DEF IndexTypeOK
  <2> QED
    BY <1>1, <2>1 DEF IndexTypeOK
<1>3. ASSUME index.walkedAt # Never, NEW q \in files', mtime'[q] >= index.walkCutoff
      PROVE  Accounted(q)'
  <2>1. index.walkedAt \in 0 .. now
    BY <1>3 DEF IndexTypeOK
  <2>2. CASE q = u
    BY <1>1, <2>1, <2>2 DEF IndexTypeOK, Accounted
  <2>3. CASE q # u
    BY <1>3, <2>3 DEF IndexTypeOK, HotOrExcused, Accounted
  <2> QED
    BY <2>2, <2>3
<1> QED
  BY <1>2, <1>3 DEF HotOrExcused

\* A rollout that was recent at the last walk still is, or was resumed since.
LEMMA GrowIndexInv ==
  ASSUME IndexInv, NEW u \in Rollout, Grow(u)
  PROVE  IndexInv'
<1> USE DEF IndexInv, Grow
<1>1. now \in Nat
  BY DEF IndexTypeOK, Time
<1>2. IndexTypeOK'
  BY <1>1 DEF IndexTypeOK
<1>3. ASSUME index.walkedAt # Never, NEW q \in files', mtime'[q] >= index.walkCutoff
      PROVE  Accounted(q)'
  <2>1. index.walkedAt \in 0 .. now /\ index.walkCutoff = index.walkedAt - Window
    BY <1>3 DEF IndexTypeOK, HotOrExcused
  <2>2. CASE q = u /\ mtime[u] < Cutoff
    BY <1>1, <2>1, <2>2, SpansAssumption DEF IndexTypeOK, Accounted, Cutoff
  <2>3. CASE q = u /\ mtime[u] >= Cutoff
    <3>1. mtime[u] >= index.walkCutoff
      BY <1>1, <2>1, <2>3, SpansAssumption DEF IndexTypeOK, Cutoff
    <3>2. Accounted(u)
      BY <1>3, <3>1 DEF HotOrExcused
    <3> QED
      BY <2>3, <3>2 DEF Accounted
  <2>4. CASE q # u
    BY <1>3, <2>4 DEF IndexTypeOK, HotOrExcused, Accounted
  <2> QED
    BY <1>1, <2>2, <2>3, <2>4, SpansAssumption DEF IndexTypeOK, Cutoff
<1> QED
  BY <1>2, <1>3 DEF HotOrExcused

LEMMA RemoveTreeIndexInv == IndexInv /\ RemoveTree => IndexInv'
<1> SUFFICES ASSUME IndexInv, RemoveTree PROVE IndexInv'
  OBVIOUS
<1>1. 0 \in Today /\ 0 \in 0 .. now
  <2>1. now \in Nat /\ Folder(0) = 0 /\ 0 \in Time
    BY SpansAssumption, BoundAssumption DEF IndexInv, IndexTypeOK, Time, Folder
  <2> QED
    BY <2>1, FolderNow
<1>2. IndexTypeOK'
  BY <1>1 DEF IndexInv, IndexTypeOK, RemoveTree
<1> QED
  BY <1>2 DEF IndexInv, HotOrExcused, RemoveTree

LEMMA PollNoRootIndexInv == IndexInv /\ PollNoRoot => IndexInv'
<1> SUFFICES ASSUME IndexInv, PollNoRoot PROVE IndexInv'
  OBVIOUS
<1>1. index' \in [walkedAt : (0 .. now) \cup {Never}, walkCutoff : Int,
                  rootMtime : Nat, hotDirs : SUBSET Today]
  BY DEF IndexInv, IndexTypeOK, PollNoRoot
<1>2. index'.walkedAt = Never
  BY DEF IndexInv, IndexTypeOK, PollNoRoot
<1> QED
  BY <1>1, <1>2 DEF IndexInv, IndexTypeOK, HotOrExcused, PollNoRoot, disk

\* A walk starts the account anew: what it does not list it could not read.
\* Without one the account stands, and a fault only adds to it.
LEMMA PollIndexInv ==
  ASSUME IndexInv, NEW unreadable \in SUBSET Today, Poll(unreadable)
  PROVE  IndexInv'
<1> USE DEF IndexInv, Poll, disk
<1>1. now \in Nat /\ now \in 0 .. now
  BY DEF IndexTypeOK, Time
<1>2. blind' \in [Today -> (0 .. now) \cup {Never}]
  BY <1>1 DEF IndexTypeOK
<1>3. CASE Walk(unreadable)
  <2>1. index' \in [walkedAt : (0 .. now) \cup {Never}, walkCutoff : Int,
                    rootMtime : Nat, hotDirs : SUBSET Today]
    <3>1. Cutoff \in Int /\ root.changes \in Nat
      BY <1>1, SpansAssumption DEF IndexTypeOK, Cutoff
    <3>2. {day[u] : u \in In(Today \ unreadable)} \subseteq Today
      BY DEF IndexTypeOK, In
    <3> QED
      BY <1>1, <1>3, <3>1, <3>2 DEF Walk
  <2>2. IndexTypeOK'
    BY <1>2, <2>1 DEF IndexTypeOK
  <2>3. ASSUME NEW u \in files, mtime[u] >= Cutoff
        PROVE  Accounted(u)'
    <3>1. day[u] \in Today
      BY DEF IndexTypeOK
    <3>2. CASE day[u] \in unreadable
      BY <1>1, <1>3, <3>1, <3>2, SpansAssumption DEF Accounted, Walk
    <3>3. CASE day[u] \notin unreadable
      BY <1>3, <2>3, <3>1, <3>3 DEF Accounted, Walk, In
    <3> QED
      BY <3>2, <3>3
  <2>4. index'.walkedAt = now /\ index'.walkCutoff = Cutoff
    BY <1>3 DEF Walk
  <2> QED
    BY <2>2, <2>3, <2>4 DEF HotOrExcused, Cutoff
<1>4. CASE Scan(unreadable)
  <2>1. IndexTypeOK'
    BY <1>2, <1>4 DEF IndexTypeOK, Scan
  <2>2. ASSUME index.walkedAt # Never, NEW u \in files, Accounted(u)
        PROVE  Accounted(u)'
    <3>1. index.walkedAt \in 0 .. now /\ day[u] \in Today
      BY <2>2 DEF IndexTypeOK
    <3>2. blind'[day[u]] = IF day[u] \in unreadable THEN now ELSE blind[day[u]]
      BY <3>1
    <3> QED
      BY <1>1, <1>4, <2>2, <3>1, <3>2, SpansAssumption DEF Accounted, Scan
  <2> QED
    BY <1>4, <2>1, <2>2 DEF HotOrExcused, Scan
<1> QED
  BY <1>3, <1>4

\* Where a recent rollout is between two walks, at any moment.
THEOREM AccountKept == IndexSpec => []IndexInv
<1>1. IndexInv /\ [IndexNext]_indexVars => IndexInv'
  <2> SUFFICES ASSUME IndexInv, [IndexNext]_indexVars PROVE IndexInv'
    OBVIOUS
  <2>1. CASE UNCHANGED indexVars
    BY <2>1 DEF IndexInv, IndexTypeOK, HotOrExcused, Accounted, indexVars, disk
  <2>2. ASSUME NEW d \in Today, Unreadable(d) PROVE IndexInv'
    BY <2>2, PollIndexInv DEF Unreadable
  <2>3. CASE Poll({})
    BY <2>3, PollIndexInv
  <2> QED
    BY <2>1, <2>2, <2>3, TickIndexInv, RemoveTreeIndexInv, PollNoRootIndexInv, StartIndexInv,
       GrowIndexInv DEF IndexNext
<1> QED
  BY <1>1, InitIndexInv, PTL DEF IndexSpec

-----------------------------------------------------------------------------
LEMMA FoundWithinRewalkStep ==
  ASSUME IndexInv, NEW unreadable \in SUBSET Today, Poll(unreadable),
         NEW u \in In(Today) \ listed'
  PROVE  \/ woke[u] > now - Rewalk
         \/ blind'[day[u]] # Never /\ blind'[day[u]] > now - Rewalk
<1>1. /\ u \in files /\ day[u] \in Today /\ mtime[u] >= Cutoff
      /\ now \in Nat /\ u \in Rollout
  BY DEF IndexInv, IndexTypeOK, In, Time
<1>2. blind'[day[u]] = IF day[u] \in unreadable THEN now ELSE blind[day[u]]
  BY <1>1 DEF Poll
<1>3. day[u] \in unreadable => blind'[day[u]] # Never /\ blind'[day[u]] > now - Rewalk
  BY <1>1, <1>2, SpansAssumption
<1>4. CASE Walk(unreadable)
  BY <1>1, <1>3, <1>4 DEF Walk, In
<1>5. CASE Scan(unreadable)
  <2>1. /\ index.walkedAt # Never /\ index.walkedAt \in 0 .. now
        /\ now - index.walkedAt < Rewalk
        /\ Cutoff >= index.walkCutoff
    BY <1>5, NoWalk DEF Scan
  <2>2. mtime[u] >= index.walkCutoff
    BY <1>1, <2>1, SpansAssumption DEF IndexInv, IndexTypeOK, Cutoff
  <2>3. Accounted(u)
    BY <1>1, <2>1, <2>2 DEF IndexInv, HotOrExcused
  <2>4. day[u] \in index.hotDirs => day[u] \in unreadable
    BY <1>1, <1>5 DEF Scan, In, Hot
  <2>5. woke[u] \in 0 .. now /\ blind[day[u]] \in (0 .. now) \cup {Never}
    BY <1>1 DEF IndexInv, IndexTypeOK
  <2> QED
    BY <1>1, <1>2, <1>3, <2>1, <2>3, <2>4, <2>5, SpansAssumption DEF Accounted
<1> QED
  BY <1>4, <1>5 DEF Poll

\* A rollout written within the window is missing from an answer only where it
\* was resumed within the last Rewalk or its folder could not be read within
\* it, and never for longer (rollouts.go:234-237): for any clock and any
\* number of faults and of new trees.
THEOREM FoundByRewalk == IndexSpec => FoundWithinRewalk
<1>1. IndexInv /\ [IndexNext]_indexVars =>
        [\A unreadable \in {{}} \cup {{d} : d \in Today} :
           Poll(unreadable) => MissedLately]_indexVars
  BY FoundWithinRewalkStep DEF MissedLately
<1> QED
  BY <1>1, AccountKept, PTL DEF IndexSpec, FoundWithinRewalk

\* A session of today or of yesterday is never missing, walk or not, unless its
\* folder cannot be read in this very poll (rollouts.go:237-239).
THEOREM FoundAtOnce == IndexSpec => NewAtOnce
<1>1. IndexInv /\ [IndexNext]_indexVars =>
        [\A unreadable \in {{}} \cup {{d} : d \in Today} :
           Poll(unreadable) =>
             In({Folder(now), Folder(now) - 1} \ unreadable) \subseteq listed']_indexVars
  <2> SUFFICES ASSUME IndexInv, NEW unreadable \in SUBSET Today, Poll(unreadable),
                      NEW u \in In({Folder(now), Folder(now) - 1} \ unreadable)
               PROVE  u \in listed'
    OBVIOUS
  <2>1. u \in files /\ day[u] \in Today /\ mtime[u] >= Cutoff /\ now \in Int
    BY DEF IndexInv, IndexTypeOK, In, Time
  <2>2. CASE Walk(unreadable)
    BY <2>1, <2>2 DEF Walk, In
  <2>3. CASE Scan(unreadable)
    BY <2>1, <2>3, FolderBefore DEF Scan, In, Hot
  <2> QED
    BY <2>2, <2>3 DEF Poll
<1> QED
  BY <1>1, AccountKept, PTL DEF IndexSpec, NewAtOnce
=============================================================================
