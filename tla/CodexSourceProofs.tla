------------------------- MODULE CodexSourceProofs -------------------------
(***************************************************************************)
(* What holds of the bind of rollouts to processes for any working         *)
(* directories, pids, rollouts, windows and faults: a process is shown as  *)
(* one session, a poll that fails nowhere finds every rollout it could     *)
(* find, no such poll finds fewer than the one before bound, and each one  *)
(* of a poll has exactly one place in its result.                          *)
(***************************************************************************)
EXTENDS CodexSource, TLAPS, FiniteSetTheorems

LEMMA Constants ==
  /\ MaxRollout \in Nat /\ MaxTime \in Nat /\ Lookback \in Nat
  /\ Pid \subseteq Nat /\ IsFiniteSet(Pid)
  /\ None \notin Nat /\ None \notin Pid /\ None \notin Rollout
  /\ None \notin Dir /\ None \notin Process /\ None \notin Pin
<1>1. MaxRollout \in Nat /\ MaxTime \in Nat /\ Lookback \in Nat
  BY BoundAssumption, WindowAssumption
<1>2. Pid \subseteq Nat /\ IsFiniteSet(Pid)
  BY PidAssumption
<1>3. /\ None \notin Nat /\ None \notin Dir
      /\ None \notin Process /\ None \notin Pin
  BY NoneAssumption
<1>4. Rollout \subseteq Nat
  BY <1>1 DEF Rollout
<1> QED BY <1>1, <1>2, <1>3, <1>4

-----------------------------------------------------------------------------
(***************************************************************************)
(* The pid that is picked.                                                 *)
(***************************************************************************)
\* A set of natural numbers that has an element has a least one.
LEMMA LeastElement ==
  ASSUME NEW T \in SUBSET Nat, T # {}
  PROVE  \E x \in T : \A y \in T : x <= y
<1> DEFINE R == OpToRel(<, Nat)
<1>1. IsWellFoundedOn(R, Nat)
  BY NatLessThanWellFounded
<1>2. ASSUME NEW x \in Nat, NEW y \in Nat, ~ (<<y, x>> \in R)
      PROVE  x <= y
  BY <1>2 DEF OpToRel
<1> HIDE DEF R
<1>3. PICK x \in T : \A y \in T : ~ (<<y, x>> \in R)
  BY <1>1, WFMin
<1>4. \A y \in T : x <= y
  BY <1>2, <1>3
<1> QED BY <1>4

\* A property of zero that passes from each number to the next has no first
\* number up to n that it fails for: it is given here by the set it holds on.
LEMMA UpTo ==
  ASSUME NEW n \in Nat, NEW S, 0 \in S,
         \A i \in 0 .. n : i < n /\ i \in S => i + 1 \in S
  PROVE  n \in S
<1> SUFFICES ASSUME n \notin S PROVE FALSE
  OBVIOUS
<1> DEFINE T == {i \in 0 .. n : i \notin S}
<1>1. T \in SUBSET Nat /\ T # {}
  OBVIOUS
<1>2. PICK i \in T : \A j \in T : i <= j
  BY <1>1, LeastElement
<1>3. i # 0 /\ i - 1 \in 0 .. n /\ i - 1 < n /\ (i - 1) + 1 = i
  BY <1>2
<1>4. i - 1 \in S
  BY <1>2, <1>3
<1> QED BY <1>2, <1>3, <1>4

\* What the state holds, as far as types go.
Types ==
  /\ now \in 0 .. MaxTime /\ count \in 0 .. MaxRollout
  /\ proc \in [Pid -> Process \cup {None}]
  /\ mtime \in [Rollout -> 0 .. MaxTime] /\ meta \in [Rollout -> 0 .. MaxTime]
  /\ dir \in [Rollout -> Dir \cup {None}]
  /\ parent \in [Rollout -> Rollout \cup {None}]
  /\ pinned \in [Rollout -> Pin \cup {None}]
  /\ sessions \subseteq Exists

LEMMA ProcessOf ==
  ASSUME Types, NEW p \in Alive
  PROVE  /\ p \in Pid /\ p \in Nat /\ proc[p] \in Process
         /\ proc[p].start \in 0 .. MaxTime /\ proc[p].start \in Nat
         /\ proc[p].dir \in Dir /\ PinOf(p) \in Pin
<1>1. p \in Pid /\ proc[p] \in Process
  BY DEF Types, Alive
<1>2. proc[p].start \in 0 .. MaxTime /\ proc[p].dir \in Dir
  BY <1>1 DEF Process
<1> QED BY <1>1, <1>2, Constants DEF PinOf, Pin

\* Among able candidates one is picked; when none is able there is no pid.
LEMMA NearestOf ==
  ASSUME Types, NEW r \in Rollout, NEW cands \in SUBSET Alive
  PROVE  \/ /\ Nearest(r, cands) \in cands
            /\ proc[Nearest(r, cands)].start <= meta[r]
         \/ /\ Nearest(r, cands) = None
            /\ \A p \in cands : ~ (proc[p].start <= meta[r])
<1> DEFINE able == {p \in cands : proc[p].start <= meta[r]}
           best(p) == \A q \in able :
                        \/ proc[q].start < proc[p].start
                        \/ proc[q].start = proc[p].start /\ p <= q
<1>1. CASE able = {}
  BY <1>1 DEF Nearest
<1>2. CASE able # {}
  <2>1. \A p \in able : p \in Nat /\ proc[p].start \in Nat /\ proc[p].start <= MaxTime
    BY ProcessOf
  <2>2. MaxTime \in Nat
    BY Constants
  <2> DEFINE ages == {MaxTime - proc[p].start : p \in able}
  <2>3. ages \in SUBSET Nat /\ ages # {}
    BY <1>2, <2>1, <2>2
  <2>4. PICK a \in ages : \A b \in ages : a <= b
    BY <2>3, LeastElement
  <2>5. PICK p0 \in able : a = MaxTime - proc[p0].start
    BY <2>4
  <2>6. \A q \in able : proc[q].start <= proc[p0].start
    <3>1. TAKE q \in able
    <3>2. MaxTime - proc[q].start \in ages
      OBVIOUS
    <3>3. MaxTime - proc[p0].start <= MaxTime - proc[q].start
      BY <2>4, <2>5, <3>2
    <3> QED BY <2>1, <2>2, <3>3
  <2> DEFINE first == {p \in able : proc[p].start = proc[p0].start}
  <2>7. first \in SUBSET Nat /\ first # {}
    BY <2>1
  <2>8. PICK p \in first : \A q \in first : p <= q
    BY <2>7, LeastElement
  <2>9. p \in able /\ best(p)
    BY <2>1, <2>6, <2>8
  <2>10. Nearest(r, cands) = CHOOSE q \in able : best(q)
    BY <1>2 DEF Nearest
  <2>11. (CHOOSE q \in able : best(q)) \in able
    BY <2>9
  <2> QED BY <2>10, <2>11
<1> QED BY <1>1, <1>2

\* What is picked is the only candidate of an only rollout, or one that is
\* free; with none picked those that are able are taken, and the rollout or the
\* candidate is not the only one.
Picked(q, r, alone, cands, used) ==
  \/ q \in cands /\ alone
  \/ q \in cands \ used
  \/ /\ q = None /\ ~ (alone /\ Cardinality(cands) = 1)
     /\ \A p \in cands : proc[p].start <= meta[r] => p \in used

LEMMA PickOf ==
  ASSUME Types, NEW r \in Rollout, NEW alone \in BOOLEAN,
         NEW cands \in SUBSET Alive, NEW used
  PROVE  Picked(Pick(r, alone, cands, used), r, alone, cands, used)
<1>1. CASE alone /\ Cardinality(cands) = 1
  <2>1. Pick(r, alone, cands, used) = CHOOSE p \in cands : TRUE
    BY <1>1 DEF Pick
  <2>2. IsFiniteSet(cands)
    BY Constants, FS_Subset DEF Alive
  <2>3. PICK p : cands = {p}
    BY <1>1, <2>2, FS_Singleton
  <2> QED BY <1>1, <2>1, <2>3 DEF Picked
<1>2. CASE ~ (alone /\ Cardinality(cands) = 1)
  <2> DEFINE free == cands \ used
  <2>1. Pick(r, alone, cands, used) = Nearest(r, free)
    BY <1>2 DEF Pick
  <2>2. free \in SUBSET Alive
    OBVIOUS
  <2> HIDE DEF free
  <2>3. \/ Nearest(r, free) \in free
        \/ /\ Nearest(r, free) = None
           /\ \A p \in free : ~ (proc[p].start <= meta[r])
    BY <2>2, NearestOf
  <2> QED BY <1>2, <2>1, <2>3 DEF free, Picked
<1> QED BY <1>1, <1>2

-----------------------------------------------------------------------------
(***************************************************************************)
(* The bind, one rollout after another.  BoundUpTo: what the binding b of  *)
(* the first n is worth: it binds top-level rollouts to candidates of      *)
(* their directories, none of these twice, and leaves a rollout unbound    *)
(* only when those before it have taken all that are able to run it, never *)
(* the only one of its directory when there is one candidate.              *)
(***************************************************************************)
Tops(read) == {r \in read : Root(r)}
OfDir(r, procs) == {p \in Candidates(procs) : proc[p].dir = dir[r]}
Only(r, tops) == \A q \in tops : dir[q] = dir[r] => q = r
Unbound == [r \in Rollout |-> None]

BoundUpTo(n, b, tops, procs) ==
  /\ b \in [Rollout -> Pid \cup {None}]
  /\ \A r \in Rollout :
       b[r] # None => r <= n /\ r \in tops /\ b[r] \in OfDir(r, procs)
  /\ \A r, s \in Rollout : b[r] # None /\ b[s] = b[r] => s = r
  /\ \A r \in 1 .. n : r \in tops /\ b[r] = None =>
       \A p \in OfDir(r, procs) :
         proc[p].start <= meta[r] => \E s \in 1 .. r - 1 : b[s] = p
  /\ \A r \in 1 .. n : r \in tops /\ b[r] = None =>
       ~ (Only(r, tops) /\ Cardinality(OfDir(r, procs)) = 1)

Step(n, f, tops, procs) ==
  IF n = 0 THEN Unbound ELSE BindNext(n, f[n - 1], tops, procs)

Bindings(f, m, tops, procs) == f = [n \in 0 .. m |-> Step(n, f, tops, procs)]

\* There is a function that satisfies the recursion of the bind.
LEMMA BindingExists ==
  ASSUME NEW tops, NEW procs, NEW m \in Nat
  PROVE  \E f : Bindings(f, m, tops, procs)
<1> DEFINE S == {k \in 0 .. m : \E f : f = [n \in 0 .. k |-> Step(n, f, tops, procs)]}
<1>1. 0 \in S
  <2> DEFINE g == [n \in 0 .. 0 |-> Unbound]
  <2>1. g = [n \in 0 .. 0 |-> Step(n, g, tops, procs)]
    BY DEF Step
  <2> QED BY <2>1
<1>2. ASSUME NEW i \in 0 .. m, i < m, i \in S PROVE i + 1 \in S
  <2>1. PICK f : f = [n \in 0 .. i |-> Step(n, f, tops, procs)]
    BY <1>2
  <2> DEFINE g == [n \in 0 .. i + 1 |->
                     IF n = i + 1 THEN BindNext(n, f[i], tops, procs) ELSE f[n]]
  <2>2. ASSUME NEW n \in 0 .. i + 1 PROVE g[n] = Step(n, g, tops, procs)
    <3>1. CASE n = i + 1
      <4>1. n # 0 /\ n - 1 = i /\ i \in 0 .. i + 1 /\ i # i + 1
        BY <3>1
      <4>2. g[n - 1] = f[i] /\ g[n] = BindNext(n, f[i], tops, procs)
        BY <3>1, <4>1
      <4> QED BY <4>1, <4>2 DEF Step
    <3>2. CASE n # i + 1 /\ n # 0
      <4>1. n \in 0 .. i /\ n - 1 \in 0 .. i + 1 /\ n - 1 # i + 1
        BY <3>2
      <4>2. g[n] = f[n] /\ g[n - 1] = f[n - 1]
        BY <3>2, <4>1
      <4>3. f[n] = Step(n, f, tops, procs)
        BY <2>1, <4>1
      <4> QED BY <3>2, <4>2, <4>3 DEF Step
    <3>3. CASE n # i + 1 /\ n = 0
      <4>1. g[n] = f[n] /\ f[n] = Step(n, f, tops, procs)
        BY <2>1, <3>3
      <4> QED BY <3>3, <4>1 DEF Step
    <3> QED BY <3>1, <3>2, <3>3
  <2>3. g = [n \in 0 .. i + 1 |-> g[n]]
    OBVIOUS
  <2> HIDE DEF g
  <2>4. g = [n \in 0 .. i + 1 |-> Step(n, g, tops, procs)]
    BY <2>2, <2>3
  <2>5. i + 1 \in 0 .. m
    BY <1>2
  <2>6. \E h : h = [n \in 0 .. i + 1 |-> Step(n, h, tops, procs)]
    BY <2>4
  <2> HIDE DEF g
  <2> QED BY <2>5, <2>6
<1> HIDE DEF S
<1>3. m \in S
  BY <1>1, <1>2, UpTo
<1> QED BY <1>3 DEF S, Bindings

\* BindAll is the last of the bindings.
LEMMA BindAllIs ==
  ASSUME NEW read, NEW procs
  PROVE  \E f : /\ Bindings(f, MaxRollout, Tops(read), procs)
                /\ BindAll(read, procs) = f[MaxRollout]
<1> DEFINE tops == {r \in read : Root(r)}
           bind[n \in 0 .. MaxRollout] ==
             IF n = 0 THEN [r \in Rollout |-> None]
             ELSE BindNext(n, bind[n - 1], tops, procs)
<1>1. BindAll(read, procs) = bind[MaxRollout]
  BY DEF BindAll
<1>2. bind = CHOOSE f : Bindings(f, MaxRollout, tops, procs)
  BY DEF Bindings, Step, Unbound
<1> HIDE DEF bind, tops
<1>3. MaxRollout \in Nat
  BY Constants
<1>4. \E f : Bindings(f, MaxRollout, tops, procs)
  BY <1>3, BindingExists
<1>5. Bindings(bind, MaxRollout, tops, procs)
  BY <1>2, <1>4
<1> QED BY <1>1, <1>5 DEF Tops, tops

LEMMA NoneBound ==
  ASSUME NEW tops, NEW procs PROVE BoundUpTo(0, Unbound, tops, procs)
BY DEF BoundUpTo, Unbound

LEMMA OneMoreBound ==
  ASSUME Types, NEW tops \in SUBSET Rollout, NEW procs \in SUBSET Alive,
         NEW n \in Rollout, NEW b, BoundUpTo(n - 1, b, tops, procs)
  PROVE  BoundUpTo(n, BindNext(n, b, tops, procs), tops, procs)
<1> DEFINE c == BindNext(n, b, tops, procs)
           used == {b[r] : r \in 1 .. n - 1}
           alone == Only(n, tops)
           cands == OfDir(n, procs)
           pick == Pick(n, alone, cands, used)
<1>1. n \in Nat /\ n # 0 /\ n \in 1 .. n /\ n - 1 \in Nat
  BY Constants DEF Rollout
<1>2. CASE n \notin tops
  <2>1. c = b
    BY <1>2 DEF BindNext
  <2>2. \A r \in 1 .. n : r \in tops => r \in 1 .. n - 1
    BY <1>1, <1>2
  <2>3. \A r \in Rollout : r <= n - 1 => r <= n
    BY <1>1, Constants DEF Rollout
  <2> QED BY <2>1, <2>2, <2>3 DEF BoundUpTo
<1>3. CASE n \in tops
  <2>1. c = [b EXCEPT ![n] = pick]
    BY <1>3 DEF BindNext, Only, OfDir
  <2>2. alone \in BOOLEAN /\ cands \in SUBSET Alive
    BY DEF Only, OfDir, Candidates
  <2> HIDE DEF c
  <2>3. \/ pick \in cands /\ alone
        \/ pick \in cands \ used
        \/ /\ pick = None /\ ~ (alone /\ Cardinality(cands) = 1)
           /\ \A p \in cands : proc[p].start <= meta[n] => p \in used
    <3> DEFINE u == used
    <3> HIDE DEF alone, cands, u
    <3>1. Picked(Pick(n, alone, cands, u), n, alone, cands, u)
      BY <2>2, PickOf
    <3> QED BY <3>1 DEF Picked, u
  <2> HIDE DEF pick
  <2>4. cands \subseteq Pid
    BY <2>2 DEF Alive
  <2>5. /\ b \in [Rollout -> Pid \cup {None}]
        /\ c \in [Rollout -> Pid \cup {None}] /\ c[n] = pick
        /\ \A r \in Rollout : r # n => c[r] = b[r]
    <3>1. b \in [Rollout -> Pid \cup {None}]
      BY DEF BoundUpTo
    <3>2. pick \in Pid \cup {None}
      BY <2>3, <2>4
    <3> QED BY <2>1, <3>1, <3>2
  <2>6. \A r \in Rollout :
          b[r] # None => r <= n - 1 /\ r \in tops /\ b[r] \in OfDir(r, procs)
    BY DEF BoundUpTo
  <2>7. \A r \in Rollout : b[r] # None => r # n /\ r \in 1 .. n - 1 /\ r <= n
    BY <1>1, <2>6, Constants DEF Rollout
  <2>8. \A r \in Rollout :
          c[r] # None => r <= n /\ r \in tops /\ c[r] \in OfDir(r, procs)
    <3>1. TAKE r \in Rollout
    <3>2. CASE r = n
      BY <1>1, <1>3, <2>3, <2>5, <3>2
    <3>3. CASE r # n
      BY <2>5, <2>6, <2>7, <3>3
    <3> QED BY <3>2, <3>3
  <2>9. \A r \in Rollout : r # n /\ pick # None => b[r] # pick
    <3> SUFFICES ASSUME NEW r \in Rollout, r # n, pick # None, b[r] = pick
                 PROVE  FALSE
      OBVIOUS
    <3>1. r \in 1 .. n - 1 /\ r \in tops /\ b[r] \in OfDir(r, procs)
      BY <2>6, <2>7
    <3>2. b[r] \in used
      BY <3>1
    <3>3. pick \in cands /\ Only(n, tops)
      BY <2>3, <3>2
    <3>4. dir[r] = dir[n]
      BY <3>1, <3>3 DEF OfDir
    <3> QED BY <3>1, <3>3, <3>4 DEF Only
  <2>10. \A r, s \in Rollout : c[r] # None /\ c[s] = c[r] => s = r
    <3>1. \A r, s \in Rollout : b[r] # None /\ b[s] = b[r] => s = r
      BY DEF BoundUpTo
    <3> QED BY <2>5, <2>9, <3>1
  <2>11. \A r \in 1 .. n : r \in tops /\ c[r] = None =>
           \A p \in OfDir(r, procs) :
             proc[p].start <= meta[r] => \E s \in 1 .. r - 1 : c[s] = p
    <3> SUFFICES ASSUME NEW r \in 1 .. n, r \in tops, c[r] = None,
                        NEW p \in OfDir(r, procs), proc[p].start <= meta[r]
                 PROVE  \E s \in 1 .. r - 1 : c[s] = p
      OBVIOUS
    <3>1. \A s \in 1 .. r - 1 : s \in Rollout /\ s # n
      BY <1>1, Constants DEF Rollout
    <3>2. \E s \in 1 .. r - 1 : b[s] = p
      <4>1. CASE r = n
        <5>1. p \in cands /\ pick = None /\ p # None
          BY <2>4, <2>5, <4>1, Constants
        <5>2. p \in used
          BY <2>3, <2>4, <4>1, <5>1, Constants
        <5> QED BY <4>1, <5>2
      <4>2. CASE r # n
        <5>1. r \in 1 .. n - 1 /\ b[r] = None
          BY <1>1, <2>5, <4>2, Constants DEF Rollout
        <5> QED BY <5>1 DEF BoundUpTo
      <4> QED BY <4>1, <4>2
    <3> QED BY <2>5, <3>1, <3>2
  <2>12. ASSUME NEW r \in 1 .. n, r \in tops, c[r] = None
         PROVE  ~ (Only(r, tops) /\ Cardinality(OfDir(r, procs)) = 1)
    <3>1. CASE r = n
      <4>1. pick = None /\ None \notin cands
        BY <2>4, <2>5, <2>12, <3>1, Constants
      <4>2. ~ (alone /\ Cardinality(cands) = 1)
        BY <2>3, <4>1
      <4> QED BY <3>1, <4>2
    <3>2. CASE r # n
      <4>1. r \in 1 .. n - 1 /\ r \in Rollout
        BY <1>1, <2>12, <3>2, Constants DEF Rollout
      <4>2. b[r] = None
        BY <2>5, <2>12, <3>2, <4>1
      <4> QED BY <2>12, <4>1, <4>2 DEF BoundUpTo
    <3> QED BY <3>1, <3>2
  <2> QED BY <2>5, <2>8, <2>10, <2>11, <2>12 DEF BoundUpTo, c
<1> QED BY <1>2, <1>3

LEMMA AllBound ==
  ASSUME Types, NEW read \in SUBSET Rollout, NEW procs \in SUBSET Alive
  PROVE  BoundUpTo(MaxRollout, BindAll(read, procs), Tops(read), procs)
<1> DEFINE tops == Tops(read)
<1>1. PICK f : /\ Bindings(f, MaxRollout, tops, procs)
               /\ BindAll(read, procs) = f[MaxRollout]
  BY BindAllIs
<1>2. MaxRollout \in Nat /\ tops \in SUBSET Rollout
  BY Constants DEF Tops
<1> HIDE DEF tops
<1>3. \A n \in 0 .. MaxRollout :
        f[n] = IF n = 0 THEN Unbound ELSE BindNext(n, f[n - 1], tops, procs)
  BY <1>1 DEF Bindings, Step
<1> DEFINE S == {n \in 0 .. MaxRollout : BoundUpTo(n, f[n], tops, procs)}
<1>4. 0 \in S
  BY <1>2, <1>3, NoneBound
<1>5. ASSUME NEW i \in 0 .. MaxRollout, i < MaxRollout, i \in S PROVE i + 1 \in S
  <2> DEFINE n == i + 1
  <2>1. n \in Rollout /\ n \in 0 .. MaxRollout /\ n # 0 /\ n - 1 = i
    BY <1>2, <1>5 DEF Rollout
  <2>2. f[n] = BindNext(n, f[i], tops, procs) /\ BoundUpTo(n - 1, f[i], tops, procs)
    BY <1>3, <1>5, <2>1
  <2> HIDE DEF n
  <2>3. BoundUpTo(n, BindNext(n, f[i], tops, procs), tops, procs)
    BY <1>2, <2>1, <2>2, OneMoreBound
  <2>4. n \in S
    BY <2>1, <2>2, <2>3
  <2> QED BY <2>4 DEF n
<1> HIDE DEF S
<1>6. MaxRollout \in S
  BY <1>2, <1>4, <1>5, UpTo
<1> QED BY <1>1, <1>6 DEF S, tops

-----------------------------------------------------------------------------
(***************************************************************************)
(* The inductive invariant.  Threads: a process runs rollouts of its own   *)
(* directory, and only codex does.  Ordered: the order of the paths is the *)
(* order of creation.                                                      *)
(***************************************************************************)
Threads ==
  \A p \in Alive : proc[p].runs # None =>
    /\ proc[p].is = "codex" /\ proc[p].runs \in Exists
    /\ dir[proc[p].runs] = proc[p].dir

Ordered ==
  \A r, s \in Exists : r <= s => meta[r] <= meta[s] /\ meta[s] <= now

Inv == Types /\ Threads /\ Ordered /\ OneSessionPerProcess

LEMMA InitInv == Init => Inv
<1> SUFFICES ASSUME Init PROVE Inv
  OBVIOUS
<1>1. MaxRollout \in Nat /\ MaxTime \in Nat /\ 0 \in 0 .. MaxTime
  BY Constants
<1>2. Exists = {} /\ Alive = {} /\ Bound = {}
  BY DEF Init, Exists, Alive, Bound
<1>3. Types
  BY <1>1, <1>2 DEF Init, Types
<1> QED BY <1>2, <1>3 DEF Inv, Threads, Ordered, OneSessionPerProcess

LEMMA ExistsAre ==
  ASSUME Types
  PROVE  /\ count \in Nat /\ MaxRollout \in Nat /\ Exists \subseteq Rollout
         /\ \A r \in Exists : r \in Nat /\ r <= count /\ meta[r] \in Nat
         /\ now \in Nat
BY Constants DEF Types, Exists, Rollout

\* A poll with any of the processes, and whatever it cannot read.
Polled(bind, read, procs) ==
  /\ BoundUpTo(MaxRollout, bind, Tops(read), procs)
  /\ pinned' = [r \in Rollout |-> IF bind[r] = None THEN None ELSE PinOf(bind[r])]
  /\ sessions' = {r \in read : Fresh(r) \/ bind[r] # None}
  /\ \A r \in Rollout : bind[r] # None =>
       /\ r \in read /\ r \in Exists /\ Root(r)
       /\ bind[r] \in OfDir(r, procs) /\ bind[r] \in Alive

LEMMA PollBinds ==
  ASSUME Types, NEW procs \in SUBSET Alive, NEW unreadable, Poll(procs, unreadable)
  PROVE  \E bind : Polled(bind, Live(procs) \ unreadable, procs)
<1> DEFINE read == Live(procs) \ unreadable
           bind == BindAll(read, procs)
<1>1. read \subseteq Exists /\ Exists \subseteq Rollout
  BY ExistsAre DEF Live, Listed
<1>2. /\ pinned' = [r \in Rollout |->
                     IF bind[r] = None THEN None ELSE PinOf(bind[r])]
      /\ sessions' = {r \in read : Fresh(r) \/ bind[r] # None}
  BY DEF Poll
<1> HIDE DEF bind
<1>3. BoundUpTo(MaxRollout, bind, Tops(read), procs)
  <2> HIDE DEF read
  <2> QED BY <1>1, AllBound DEF bind
<1>4. \A r \in Rollout : bind[r] # None =>
        /\ r \in read /\ r \in Exists /\ Root(r)
        /\ bind[r] \in OfDir(r, procs) /\ bind[r] \in Alive
  <2> HIDE DEF read
  <2>1. TAKE r \in Rollout
  <2>2. HAVE bind[r] # None
  <2>3. r \in Tops(read) /\ bind[r] \in OfDir(r, procs)
    BY <1>3, <2>2 DEF BoundUpTo
  <2> QED BY <1>1, <2>3 DEF Tops, OfDir, Candidates
<1> QED BY <1>2, <1>3, <1>4 DEF Polled

LEMMA PollInv ==
  ASSUME Inv, NEW procs \in SUBSET Alive, NEW unreadable, Poll(procs, unreadable)
  PROVE  Inv'
<1> DEFINE read == Live(procs) \ unreadable
<1>1. /\ now' = now /\ proc' = proc /\ count' = count /\ mtime' = mtime
      /\ meta' = meta /\ dir' = dir /\ parent' = parent
  BY DEF Poll, disk
<1>2. Types
  BY DEF Inv
<1>3. PICK bind : Polled(bind, read, procs)
  BY <1>2, PollBinds
<1>4. read \subseteq Exists
  BY DEF Live, Listed
<1> HIDE DEF read
<1>5. Exists' = Exists /\ Alive' = Alive
  BY <1>1 DEF Exists, Alive
<1>6. pinned' \in [Rollout -> Pin \cup {None}]
  <2>1. \A r \in Rollout : bind[r] # None => PinOf(bind[r]) \in Pin
    BY <1>2, <1>3, ProcessOf DEF Polled
  <2> QED BY <1>3, <2>1 DEF Polled
<1>7. Types'
  BY <1>1, <1>2, <1>3, <1>4, <1>5, <1>6 DEF Types, Polled
<1>8. Threads' /\ Ordered'
  BY <1>1, <1>5 DEF Inv, Threads, Ordered
<1>9. OneSessionPerProcess'
  <2> SUFFICES ASSUME NEW r \in Rollout, pinned'[r] # None
               PROVE  /\ Root(r)' /\ r \in sessions'
                      /\ \A s \in Rollout : pinned'[s] # None
                           /\ pinned'[s].pid = pinned'[r].pid => s = r
    BY DEF OneSessionPerProcess, Bound
  <2>1. \A s \in Rollout : pinned'[s] # None =>
          bind[s] # None /\ pinned'[s].pid = bind[s]
    BY <1>3 DEF PinOf, Polled
  <2>2. Root(r)' /\ r \in sessions'
    BY <1>1, <1>3, <2>1 DEF Root, Polled
  <2>3. \A s \in Rollout : bind[r] # None /\ bind[s] = bind[r] => s = r
    BY <1>3 DEF BoundUpTo, Polled
  <2> QED BY <2>1, <2>2, <2>3
<1> QED BY <1>7, <1>8, <1>9 DEF Inv

LEMMA TickInv == Inv /\ Tick => Inv'
<1> SUFFICES ASSUME Inv, Tick PROVE Inv'
  OBVIOUS
<1>1. /\ now' = now + 1 /\ now < MaxTime /\ proc' = proc /\ count' = count
      /\ mtime' = mtime /\ meta' = meta /\ dir' = dir /\ parent' = parent
      /\ pinned' = pinned /\ sessions' = sessions
  BY DEF Tick, disk, source
<1>2. Exists' = Exists /\ Alive' = Alive /\ Bound' = Bound
  BY <1>1 DEF Exists, Alive, Bound
<1>3. Types'
  BY <1>1, <1>2, Constants DEF Inv, Types
<1>4. Threads'
  BY <1>1, <1>2 DEF Inv, Threads
<1>5. Ordered'
  BY <1>1, <1>2, ExistsAre DEF Inv, Ordered
<1>6. OneSessionPerProcess'
  BY <1>1, <1>2 DEF Inv, OneSessionPerProcess, Root
<1> QED BY <1>3, <1>4, <1>5, <1>6 DEF Inv

\* What is bound is not touched by what the processes do.
LEMMA BoundStays ==
  ASSUME Inv, UNCHANGED source, \A r \in Exists : parent'[r] = parent[r]
  PROVE  OneSessionPerProcess'
<1>1. pinned' = pinned /\ sessions' = sessions /\ Bound' = Bound
  BY DEF source, Bound
<1>2. \A r \in Bound : r \in Exists
  BY DEF Inv, Types, OneSessionPerProcess
<1> QED BY <1>1, <1>2 DEF Inv, OneSessionPerProcess, Root

LEMMA ProcessesInv ==
  ASSUME Inv, UNCHANGED <<now, count, meta, dir, parent, source>>,
         mtime' \in [Rollout -> 0 .. MaxTime],
         proc' \in [Pid -> Process \cup {None}],
         \A p \in Alive' : proc'[p].runs # None =>
           \/ p \in Alive /\ proc'[p] = proc[p]
           \/ /\ proc'[p].is = "codex" /\ proc'[p].runs \in Exists
              /\ dir[proc'[p].runs] = proc'[p].dir
  PROVE  Inv'
<1>1. /\ now' = now /\ count' = count /\ meta' = meta
      /\ dir' = dir /\ parent' = parent /\ pinned' = pinned /\ sessions' = sessions
      /\ Exists' = Exists
  BY DEF source, Exists
<1>2. Types'
  BY <1>1 DEF Inv, Types
<1>3. Threads'
  <2> SUFFICES ASSUME NEW p \in Alive', proc'[p].runs # None
               PROVE  /\ proc'[p].is = "codex" /\ proc'[p].runs \in Exists
                      /\ dir[proc'[p].runs] = proc'[p].dir
    BY <1>1 DEF Threads
  <2>1. CASE p \in Alive /\ proc'[p] = proc[p]
    BY <2>1 DEF Inv, Threads
  <2> QED BY <2>1
<1>4. Ordered'
  BY <1>1 DEF Inv, Ordered
<1>5. OneSessionPerProcess'
  BY <1>1, BoundStays DEF source
<1> QED BY <1>2, <1>3, <1>4, <1>5 DEF Inv

LEMMA TouchType ==
  ASSUME Types, NEW r \in Rollout, Touch(r)
  PROVE  mtime' \in [Rollout -> 0 .. MaxTime]
BY DEF Types, Touch

LEMMA LaunchInv ==
  ASSUME Inv, NEW p \in Pid, NEW d \in Dir, NEW is \in {"codex", "daemon"},
         Launch(p, d, is)
  PROVE  Inv'
<1> DEFINE new == [is |-> is, dir |-> d, start |-> now, runs |-> None]
<1>1. proc' = [proc EXCEPT ![p] = new] /\ new \in Process
  BY DEF Launch, Inv, Types, Process
<1>2. proc \in [Pid -> Process \cup {None}] /\ mtime' \in [Rollout -> 0 .. MaxTime]
  BY DEF Inv, Types, Launch, disk
<1>3. new.runs = None
  OBVIOUS
<1> HIDE DEF new
<1>4. proc' \in [Pid -> Process \cup {None}]
  BY <1>1, <1>2
<1>5. \A q \in Alive' : proc'[q].runs # None => q \in Alive /\ proc'[q] = proc[q]
  BY <1>1, <1>2, <1>3 DEF Alive
<1> QED BY <1>2, <1>4, <1>5, ProcessesInv DEF Launch, disk

LEMMA ExitInv ==
  ASSUME Inv, NEW p \in Pid, Exit(p)
  PROVE  Inv'
<1>1. proc' = [proc EXCEPT ![p] = None]
  BY DEF Exit
<1>2. proc \in [Pid -> Process \cup {None}] /\ mtime' \in [Rollout -> 0 .. MaxTime]
  BY DEF Inv, Types, Exit, disk
<1>3. proc' \in [Pid -> Process \cup {None}]
  BY <1>1, <1>2
<1>4. \A q \in Alive' : q \in Alive /\ proc'[q] = proc[q]
  BY <1>1, <1>2 DEF Alive
<1> QED BY <1>2, <1>3, <1>4, ProcessesInv DEF Exit, disk

LEMMA WriteInv ==
  ASSUME Inv, NEW p \in Pid, NEW r \in Exists, Write(p, r)
  PROVE  Inv'
<1>1. Types /\ r \in Rollout
  BY ExistsAre DEF Inv
<1>2. mtime' \in [Rollout -> 0 .. MaxTime]
  BY <1>1, TouchType DEF Write
<1>3. proc' = proc /\ proc' \in [Pid -> Process \cup {None}]
  BY <1>1 DEF Write, Types
<1>4. \A q \in Alive' : q \in Alive /\ proc'[q] = proc[q]
  BY <1>3 DEF Alive
<1> QED BY <1>2, <1>3, <1>4, ProcessesInv DEF Write, Touch

LEMMA ResumeInv ==
  ASSUME Inv, NEW p \in Pid, NEW r \in Exists, Resume(p, r)
  PROVE  Inv'
<1>1. Types /\ r \in Rollout
  BY ExistsAre DEF Inv
<1>2. mtime' \in [Rollout -> 0 .. MaxTime]
  BY <1>1, TouchType DEF Resume
<1>3. /\ proc \in [Pid -> Process \cup {None}] /\ proc[p] \in Process
      /\ proc[p].is = "codex" /\ dir[r] = proc[p].dir
  BY <1>1 DEF Types, Resume
<1> DEFINE new == [proc[p] EXCEPT !.runs = r]
<1>4. proc' = [proc EXCEPT ![p] = new]
  BY DEF Resume
<1>5. /\ new \in Process /\ new.is = "codex" /\ new.runs = r
      /\ new.dir = proc[p].dir
  BY <1>1, <1>3 DEF Process
<1> HIDE DEF new
<1>6. proc' \in [Pid -> Process \cup {None}]
  BY <1>3, <1>4, <1>5
<1>7. proc'[p] = new /\ \A q \in Pid : q # p => proc'[q] = proc[q]
  BY <1>3, <1>4
<1>8. \A q \in Alive' :
        \/ q \in Alive /\ proc'[q] = proc[q]
        \/ /\ proc'[q].is = "codex" /\ proc'[q].runs \in Exists
           /\ dir[proc'[q].runs] = proc'[q].dir
  <2>1. TAKE q \in Alive'
  <2>2. q \in Pid /\ proc'[q] # None
    BY DEF Alive
  <2>3. CASE q = p
    BY <1>3, <1>5, <1>7, <2>3
  <2>4. CASE q # p
    BY <1>7, <2>2, <2>4 DEF Alive
  <2> QED BY <2>3, <2>4
<1> QED BY <1>2, <1>6, <1>8, ProcessesInv DEF Resume, Touch

\* A rollout that appears is the last in the order, and nobody's yet.
LEMMA AddInv ==
  ASSUME Inv, NEW d \in Dir, NEW q \in Exists \cup {None}, Add(d, q),
         proc' \in [Pid -> Process \cup {None}],
         \A p \in Alive' : proc'[p].runs # None =>
           \/ p \in Alive /\ proc'[p] = proc[p]
           \/ /\ proc'[p].is = "codex" /\ proc'[p].runs = count + 1
              /\ proc'[p].dir = d
  PROVE  Inv'
<1> DEFINE n == count + 1
<1>1. Types
  BY DEF Inv
<1>2. n \in Rollout /\ n \notin Exists /\ n \in Nat /\ n <= MaxRollout
  BY <1>1, ExistsAre DEF Add, Exists, Rollout
<1>3. Exists' = Exists \cup {n}
  BY <1>1, ExistsAre DEF Add, Exists
<1>4. /\ now' = now /\ count' = n /\ pinned' = pinned /\ sessions' = sessions
      /\ mtime' = [mtime EXCEPT ![n] = now] /\ meta' = [meta EXCEPT ![n] = now]
      /\ dir' = [dir EXCEPT ![n] = d] /\ parent' = [parent EXCEPT ![n] = q]
  BY DEF Add, source
<1>5. n \in 0 .. MaxRollout
  BY <1>2
<1>6. q \in Rollout \cup {None}
  BY <1>1, ExistsAre
<1> HIDE DEF n
<1>7. \A r \in Exists : /\ meta'[r] = meta[r] /\ dir'[r] = dir[r]
                       /\ parent'[r] = parent[r]
  BY <1>1, <1>2, <1>4, ExistsAre DEF Types
<1>8. meta'[n] = now /\ dir'[n] = d
  BY <1>1, <1>2, <1>4 DEF Types
<1>9. Types'
  <2>1. sessions' \subseteq Exists'
    BY <1>1, <1>3, <1>4 DEF Types
  <2> QED BY <1>1, <1>2, <1>4, <1>5, <1>6, <2>1 DEF Types
<1>10. Threads'
  <2> SUFFICES ASSUME NEW p \in Alive', proc'[p].runs # None
               PROVE  /\ proc'[p].is = "codex" /\ proc'[p].runs \in Exists'
                      /\ dir'[proc'[p].runs] = proc'[p].dir
    BY DEF Threads
  <2>1. CASE p \in Alive /\ proc'[p] = proc[p]
    BY <1>3, <1>7, <2>1 DEF Inv, Threads
  <2>2. CASE /\ proc'[p].is = "codex" /\ proc'[p].runs = n
             /\ proc'[p].dir = d
    BY <1>3, <1>8, <2>2
  <2> QED BY <2>1, <2>2 DEF n
<1>11. Ordered'
  <2> SUFFICES ASSUME NEW r \in Exists', NEW s \in Exists', r <= s
               PROVE  meta'[r] <= meta'[s] /\ meta'[s] <= now
    BY <1>4 DEF Ordered
  <2>1. CASE s \in Exists /\ r \in Exists
    BY <1>7, <2>1 DEF Inv, Ordered
  <2>2. CASE s = n /\ r \in Exists
    <3>1. meta[r] <= now
      <4>1. r <= r
        BY <1>1, <2>2, ExistsAre
      <4> QED BY <2>2, <4>1 DEF Inv, Ordered
    <3> QED BY <1>1, <1>7, <1>8, <2>2, <3>1, ExistsAre
  <2>3. CASE s = n /\ r = n
    BY <1>1, <1>8, <2>3, ExistsAre
  <2>4. CASE s \in Exists /\ r = n
    BY <1>1, <2>4, ExistsAre DEF n
  <2> QED BY <1>3, <2>1, <2>2, <2>3, <2>4
<1>12. OneSessionPerProcess'
  BY <1>7, BoundStays DEF Add
<1> QED BY <1>9, <1>10, <1>11, <1>12 DEF Inv

LEMMA BeginInv ==
  ASSUME Inv, NEW p \in Pid, Begin(p)
  PROVE  Inv'
<1>1. Types /\ proc \in [Pid -> Process \cup {None}] /\ proc[p] \in Process
  BY DEF Inv, Types, Begin
<1> DEFINE new == [proc[p] EXCEPT !.runs = count + 1]
<1>2. proc' = [proc EXCEPT ![p] = new] /\ Add(proc[p].dir, None)
  BY DEF Begin
<1>3. count + 1 \in Rollout
  BY <1>1, <1>2, ExistsAre DEF Add, Rollout
<1>4. /\ new \in Process /\ new.is = "codex" /\ new.runs = count + 1
      /\ new.dir = proc[p].dir /\ proc[p].dir \in Dir
  BY <1>1, <1>3 DEF Process, Begin
<1> HIDE DEF new
<1>5. proc' \in [Pid -> Process \cup {None}]
  BY <1>1, <1>2, <1>4
<1>6. proc'[p] = new /\ \A q \in Pid : q # p => proc'[q] = proc[q]
  BY <1>1, <1>2
<1>7. \A q \in Alive' :
        \/ q \in Alive /\ proc'[q] = proc[q]
        \/ /\ proc'[q].is = "codex" /\ proc'[q].runs = count + 1
           /\ proc'[q].dir = proc[p].dir
  <2>1. TAKE q \in Alive'
  <2>2. q \in Pid /\ proc'[q] # None
    BY DEF Alive
  <2>3. CASE q = p
    BY <1>4, <1>6, <2>3
  <2>4. CASE q # p
    BY <1>6, <2>2, <2>4 DEF Alive
  <2> QED BY <2>3, <2>4
<1> QED BY <1>2, <1>4, <1>5, <1>7, AddInv

LEMMA SpawnInv ==
  ASSUME Inv, NEW p \in Pid, NEW r \in Exists, Spawn(p, r)
  PROVE  Inv'
<1>1. proc \in [Pid -> Process \cup {None}] /\ proc[p] \in Process
  BY DEF Inv, Types, Spawn
<1>2. proc' = proc /\ Add(proc[p].dir, r) /\ proc[p].dir \in Dir
  BY <1>1 DEF Spawn, Process
<1>3. \A q \in Alive' : q \in Alive /\ proc'[q] = proc[q]
  BY <1>2 DEF Alive
<1> QED BY <1>1, <1>2, <1>3, AddInv

LEMMA StutterInv == Inv /\ UNCHANGED vars => Inv'
BY DEF Inv, Types, Threads, Ordered, OneSessionPerProcess, Bound, Root, Exists,
       Alive, vars, disk, source

\* A cycle polls with the processes that are alive, or with none.
LEMMA CyclePolls ==
  ASSUME Cycle
  PROVE  \E procs \in SUBSET Alive, unreadable \in SUBSET Exists :
           Poll(procs, unreadable)
<1>1. CASE Poll(Alive, {})
  BY <1>1
<1>2. CASE Poll({}, {})
  BY <1>2
<1>3. CASE \E r \in Exists : Poll(Alive, {r})
  BY <1>3
<1> QED BY <1>1, <1>2, <1>3 DEF Cycle

LEMMA NextInv == Inv /\ [Next]_vars => Inv'
<1> SUFFICES ASSUME Inv, [Next]_vars PROVE Inv'
  OBVIOUS
<1>1. CASE Tick
  BY <1>1, TickInv
<1>2. CASE Cycle
  BY <1>2, CyclePolls, PollInv
<1>3. CASE \E p \in Pid : Exit(p) \/ Begin(p)
  BY <1>3, ExitInv, BeginInv
<1>4. CASE \E p \in Pid, d \in Dir, is \in {"codex", "daemon"} : Launch(p, d, is)
  BY <1>4, LaunchInv
<1>5. CASE \E p \in Pid, r \in Exists : Spawn(p, r) \/ Write(p, r) \/ Resume(p, r)
  BY <1>5, SpawnInv, WriteInv, ResumeInv
<1>6. CASE UNCHANGED vars
  BY <1>6, StutterInv
<1> QED BY <1>1, <1>2, <1>3, <1>4, <1>5, <1>6 DEF Next

LEMMA AlwaysInv == Spec => []Inv
<1> QED BY InitInv, NextInv, PTL DEF Spec

\* No process is ever shown as the process of two sessions, whatever a scan or
\* a read has failed at, and whichever pids were reused (bindAll, and the pins
\* that Source.repin makes of what it bound).
THEOREM OneProcessOneSession == Spec => []OneSessionPerProcess
<1>1. Inv => OneSessionPerProcess
  BY DEF Inv
<1> QED BY <1>1, AlwaysInv, PTL

-----------------------------------------------------------------------------
(***************************************************************************)
(* A poll finds what runs.  A rollout that is alone in its directory has   *)
(* no rival there.  If there is a single codex that is its process,        *)
(* whichever is older; if one is as old as the rollout then it or another  *)
(* such is its process, whatever the pins were.                            *)
(***************************************************************************)
\* The rollout of a process within the window is among those read.
LEMMA RunsAreLive ==
  ASSUME Inv, NEW p \in Pid, NEW r \in Exists, Runs(p, r),
         now - mtime[r] <= ShortlistWindow
  PROVE  r \in Live(Alive) /\ p \in OfDir(r, Alive)
<1>1. p \in Alive /\ proc[p].runs = r /\ r # None
  BY Constants, ExistsAre DEF Runs, Alive, Inv
<1>2. proc[p].is = "codex" /\ dir[r] = proc[p].dir
  BY <1>1 DEF Inv, Threads
<1> QED BY <1>1, <1>2 DEF OfDir, Candidates, Live, Listed

LEMMA AloneIsFound ==
  ASSUME Inv, NEW p \in Pid, NEW r \in Exists, Runs(p, r),
         Root(r), Alone(r), Tellable(r),
         now - mtime[r] <= ShortlistWindow, Poll(Alive, {})
  PROVE  r \in sessions'
<1>1. PICK bind : Polled(bind, Live(Alive) \ {}, Alive)
  BY PollBinds DEF Inv
<1>2. r \in Live(Alive) /\ p \in OfDir(r, Alive)
  BY RunsAreLive
<1>3. bind[r] # None
  <2> SUFFICES ASSUME bind[r] = None PROVE FALSE
    OBVIOUS
  <2>1. r \in Rollout /\ r \in 1 .. MaxRollout /\ r \in Nat
    BY ExistsAre DEF Inv, Rollout
  <2>2. r \in Tops(Live(Alive) \ {})
    BY <1>2 DEF Tops
  <2>3. OfDir(r, Alive) = CodexIn(dir[r])
    BY DEF OfDir, Candidates, CodexIn
  \* Alone on the disk, it is alone among those read.
  <2>4. Only(r, Tops(Live(Alive) \ {}))
    BY DEF Alone, Only, Tops, Live, Listed
  <2>5. Cardinality(OfDir(r, Alive)) # 1
    BY <1>1, <2>1, <2>2, <2>4 DEF BoundUpTo, Polled
  <2>6. PICK q \in OfDir(r, Alive) : proc[q].start <= meta[r]
    BY <2>3, <2>5 DEF Tellable
  <2>7. PICK s \in 1 .. r - 1 : bind[s] = q
    BY <1>1, <2>1, <2>2, <2>6 DEF BoundUpTo, Polled
  <2>8. s \in Rollout /\ s # r /\ q # None
    BY <2>1, <2>6, Constants DEF Rollout, OfDir, Candidates, Alive
  <2>9. s \in Exists /\ Root(s) /\ q \in OfDir(s, Alive)
    BY <1>1, <2>7, <2>8 DEF Polled
  <2>10. dir[s] = dir[r]
    BY <2>6, <2>9 DEF OfDir
  <2> QED BY <2>8, <2>9, <2>10 DEF Alone
<1> QED BY <1>1, <1>2, <1>3 DEF Polled

LEMMA IdleOnesAreBound ==
  ASSUME Inv, NEW r \in sessions', ~ Fresh(r), Poll(Alive, {})
  PROVE  CodexIn(dir[r]) # {}
<1>1. PICK bind : Polled(bind, Live(Alive) \ {}, Alive)
  BY PollBinds DEF Inv
<1>2. r \in Rollout
  BY <1>1, ExistsAre DEF Inv, Live, Listed, Polled
<1>3. bind[r] \in OfDir(r, Alive) /\ bind[r] \in Alive
  BY <1>1, <1>2 DEF Polled
<1> QED BY <1>3 DEF OfDir, Candidates, CodexIn

\* A poll that fails nowhere has every rollout of the shortlist window that is
\* alone in its directory and whose process runs, also when it was resumed by a
\* younger one, unless there are several codex processes in the directory and
\* all of them are younger; and past the lookback none in whose directory no
\* codex runs (Source.Poll, with nothing remembered of a poll that failed
\* before; bind.go:99-119).
THEOREM RunningOnesAreFound == Spec => FoundWithinWindow
<1> DEFINE Found ==
      Poll(Alive, {}) =>
       /\ \A p \in Pid, r \in Exists :
            /\ Runs(p, r) /\ Root(r) /\ Alone(r) /\ Tellable(r)
            /\ now - mtime[r] <= ShortlistWindow
            => r \in sessions'
       /\ \A r \in sessions' : Fresh(r) \/ CodexIn(dir[r]) # {}
<1>1. Inv => Found
  BY AloneIsFound, IdleOnesAreBound
<1>2. [][Found]_vars <=> FoundWithinWindow
  BY DEF FoundWithinWindow
<1> HIDE DEF Found
<1> QED BY <1>1, <1>2, AlwaysInv, PTL

-----------------------------------------------------------------------------
(***************************************************************************)
(* No poll finds fewer bound.  The rollouts a process is old enough for    *)
(* are all those from some creation on, so what is bound in their order    *)
(* takes as many processes as any binding can.  Step by step: when a       *)
(* rollout that was bound is not bound again, each of the processes able   *)
(* to run it, its own among them, has gone to an earlier rollout of the    *)
(* directory, so more of these are bound now than were bound before.       *)
(* Others(n, f): f gives to each rollout up to n that was bound one of the *)
(* same directory up to n that is now, to no two the same.                 *)
(***************************************************************************)
Upto(S, n) == {r \in S : r <= n}
In(S, d) == {r \in S : dir[r] = d}

Others(was, is, n, f) ==
  /\ f \in Injection(Upto(was, n), Upto(is, n))
  /\ \A r \in Upto(was, n) : dir[f[r]] = dir[r]

LEMMA UptoFinite ==
  ASSUME NEW S \in SUBSET Rollout, NEW n \in Nat
  PROVE  IsFiniteSet(Upto(S, n)) /\ IsFiniteSet(S)
<1>1. IsFiniteSet(Rollout)
  BY Constants, FS_Interval DEF Rollout
<1> QED BY <1>1, FS_Subset DEF Upto

LEMMA UptoStep ==
  ASSUME NEW S \in SUBSET Rollout, NEW n \in Rollout
  PROVE  /\ n \notin Upto(S, n - 1) /\ Upto(S, n - 1) \subseteq Upto(S, n)
         /\ n \in S => Upto(S, n) = Upto(S, n - 1) \cup {n}
         /\ n \notin S => Upto(S, n) = Upto(S, n - 1)
<1>1. n \in Nat /\ \A r \in S : r \in Nat
  BY Constants DEF Rollout
<1>2. \A r \in S : r <= n <=> r <= n - 1 \/ r = n
  BY <1>1
<1>3. ~ (n <= n - 1) /\ n <= n
  BY <1>1
<1> QED BY <1>2, <1>3 DEF Upto

\* More of a directory are bound now than were, of those up to n - 1, so there
\* is one that f gives to nobody.
LEMMA OneIsLeft ==
  ASSUME NEW S, NEW T, NEW x, x \notin S, IsFiniteSet(S), IsFiniteSet(T),
         NEW f \in Injection(S, T), NEW g \in Injection(S \cup {x}, T)
  PROVE  \E y \in T : \A s \in S : f[s] # y
<1> SUFFICES ASSUME \A y \in T : \E s \in S : f[s] = y PROVE FALSE
  OBVIOUS
<1>1. f \in Surjection(S, T)
  BY DEF Injection, Surjection, IsInjective
<1>2. Cardinality(T) <= Cardinality(S) /\ Cardinality(S) \in Nat
  BY <1>1, FS_Surjection, FS_CardinalityType
<1>3. /\ IsFiniteSet(S \cup {x})
      /\ Cardinality(S \cup {x}) = Cardinality(S) + 1
  BY FS_AddElement
<1>4. Cardinality(S \cup {x}) <= Cardinality(T)
  BY <1>3, FS_Injection
<1>5. Cardinality(T) \in Nat
  BY FS_CardinalityType
<1> QED BY <1>2, <1>3, <1>4, <1>5

LEMMA ExtendOthers ==
  ASSUME NEW was \in SUBSET Rollout, NEW is \in SUBSET Rollout,
         NEW n \in Rollout, NEW f, Others(was, is, n - 1, f), n \in was,
         NEW y \in Upto(is, n), dir[y] = dir[n],
         \A r \in Upto(was, n - 1) : f[r] # y
  PROVE  \E g : Others(was, is, n, g)
<1> DEFINE g == [r \in Upto(was, n) |-> IF r = n THEN y ELSE f[r]]
<1>1. n \in Nat /\ was \subseteq Nat /\ is \subseteq Nat
  BY Constants DEF Rollout
<1>2. /\ n \notin Upto(was, n - 1) /\ Upto(was, n) = Upto(was, n - 1) \cup {n}
      /\ Upto(is, n - 1) \subseteq Upto(is, n)
  BY UptoStep
<1>3. /\ f \in [Upto(was, n - 1) -> Upto(is, n - 1)]
      /\ \A a, b \in Upto(was, n - 1) : f[a] = f[b] => a = b
      /\ \A r \in Upto(was, n - 1) : dir[f[r]] = dir[r]
  BY DEF Others, Injection, IsInjective
<1>4. /\ g[n] = y /\ \A r \in Upto(was, n - 1) : g[r] = f[r]
      /\ DOMAIN g = Upto(was, n)
  BY <1>2
<1>5. g \in [Upto(was, n) -> Upto(is, n)]
  BY <1>2, <1>3
<1> HIDE DEF g
<1>6. \A a, b \in Upto(was, n) : g[a] = g[b] => a = b
  BY <1>2, <1>3, <1>4
<1>7. \A r \in Upto(was, n) : dir[g[r]] = dir[r]
  BY <1>2, <1>3, <1>4
<1>8. g \in Injection(Upto(was, n), Upto(is, n))
  BY <1>4, <1>5, <1>6 DEF Injection, IsInjective
<1> QED BY <1>7, <1>8 DEF Others

\* What is still bound to a process of a directory, able to run n.
LEMMA AbleToo ==
  ASSUME Inv, NEW n \in Exists, NEW r \in Bound, r <= n, dir[r] = dir[n], Lives(r)
  PROVE  /\ pinned[r].pid \in OfDir(n, Alive)
         /\ proc[pinned[r].pid].start <= meta[n]
<1>1. PICK p \in Alive : /\ proc[p].is = "codex" /\ proc[p].start <= meta[r]
                        /\ proc[p].dir = dir[r] /\ pinned[r] = PinOf(p)
  BY DEF Lives
<1>2. pinned[r].pid = p
  BY <1>1 DEF PinOf
<1>3. r \in Exists
  BY DEF Inv, Types, OneSessionPerProcess
<1>4. /\ meta[r] <= meta[n] /\ meta[r] \in Nat /\ meta[n] \in Nat
      /\ proc[p].start \in Nat
  BY <1>3, ExistsAre, ProcessOf DEF Inv, Ordered
<1> QED BY <1>1, <1>2, <1>4 DEF OfDir, Candidates

LEMMA LiveIsListed ==
  ASSUME Inv, NEW r \in Bound, Lives(r)
  PROVE  r \in Tops(Live(Alive) \ {})
<1>1. r \in Exists /\ Root(r)
  BY DEF Inv, Types, OneSessionPerProcess
<1>2. PICK p \in Alive : proc[p].is = "codex" /\ pinned[r] = PinOf(p)
  BY DEF Lives
<1> QED BY <1>1, <1>2 DEF Tops, Live, Listed, PinHolds, Candidates

LEMMA OthersStep ==
  ASSUME Inv, \A r \in Bound : Lives(r),
         NEW bind, BoundUpTo(MaxRollout, bind, Tops(Live(Alive) \ {}), Alive),
         NEW n \in Rollout, NEW f,
         Others(Bound, {r \in Rollout : bind[r] # None}, n - 1, f)
  PROVE  \E g : Others(Bound, {r \in Rollout : bind[r] # None}, n, g)
<1> DEFINE is == {r \in Rollout : bind[r] # None}
           d == dir[n]
           S == In(Upto(Bound, n - 1), d)
           T == In(Upto(is, n - 1), d)
<1>1. /\ n \in Nat /\ n - 1 \in Nat /\ n \in 1 .. MaxRollout
      /\ Bound \in SUBSET Rollout /\ is \in SUBSET Rollout
      /\ Bound \subseteq Nat /\ is \subseteq Nat /\ Rollout \subseteq Nat
  BY Constants DEF Rollout, Bound
<1>2. /\ f \in [Upto(Bound, n - 1) -> Upto(is, n - 1)]
      /\ \A a, b \in Upto(Bound, n - 1) : f[a] = f[b] => a = b
      /\ \A r \in Upto(Bound, n - 1) : dir[f[r]] = dir[r]
  BY DEF Others, Injection, IsInjective
<1> HIDE DEF is
<1>3. CASE n \notin Bound
  <2>1. /\ Upto(Bound, n) = Upto(Bound, n - 1)
        /\ Upto(is, n - 1) \subseteq Upto(is, n)
    BY <1>1, <1>3, UptoStep
  <2>2. f \in Injection(Upto(Bound, n), Upto(is, n))
    BY <1>2, <2>1 DEF Injection, IsInjective
  <2>3. Others(Bound, is, n, f)
    BY <1>2, <2>1, <2>2 DEF Others
  <2> QED BY <2>3 DEF is
<1>4. CASE n \in Bound /\ n \in is
  <2>1. n \in Upto(is, n) /\ n \notin Upto(is, n - 1)
    BY <1>1, <1>4 DEF Upto
  <2>2. \A r \in Upto(Bound, n - 1) : f[r] # n
    BY <1>2, <2>1
  <2>3. Others(Bound, is, n - 1, f)
    BY DEF is
  <2>4. \E g : Others(Bound, is, n, g)
    BY <1>1, <1>4, <2>1, <2>2, <2>3, ExtendOthers
  <2> QED BY <2>4 DEF is
<1>5. CASE n \in Bound /\ n \notin is
  <2>1. bind[n] = None /\ n \in Tops(Live(Alive) \ {}) /\ n \in Exists
    BY <1>1, <1>5, LiveIsListed DEF is, Inv, Types, OneSessionPerProcess
  <2>2. \A r \in S \cup {n} :
          /\ r \in Bound
          /\ \E s \in T : bind[s] = pinned[r].pid
    <3>1. TAKE r \in S \cup {n}
    <3>2. r \in Bound /\ r <= n /\ dir[r] = d
      BY <1>1, <1>5 DEF In, Upto
    <3> DEFINE p == pinned[r].pid
    <3>3. p \in OfDir(n, Alive) /\ proc[p].start <= meta[n]
      BY <2>1, <3>2, AbleToo
    <3> HIDE DEF p
    <3>4. PICK s \in 1 .. n - 1 : bind[s] = p
      BY <1>1, <2>1, <3>3 DEF BoundUpTo
    <3>5. s \in Rollout /\ s <= n - 1
      BY <1>1, Constants DEF Rollout
    <3>6. p \in Pid /\ p # None
      BY <3>3, Constants DEF OfDir, Candidates, Alive
    <3>7. p \in OfDir(s, Alive)
      BY <3>4, <3>5, <3>6 DEF BoundUpTo
    <3>8. dir[s] = d /\ s \in is
      BY <3>3, <3>4, <3>5, <3>6, <3>7 DEF OfDir, is
    <3> QED BY <3>2, <3>4, <3>5, <3>8 DEF In, Upto, p
  <2> DEFINE h == [r \in S \cup {n} |-> CHOOSE s \in T : bind[s] = pinned[r].pid]
  <2>3. \A r \in S \cup {n} : h[r] \in T /\ bind[h[r]] = pinned[r].pid
    BY <2>2
  <2>4. h \in [S \cup {n} -> T]
    BY <2>3
  <2> HIDE DEF h
  <2>5. \A a, b \in S \cup {n} : h[a] = h[b] => a = b
    BY <2>2, <2>3 DEF Inv, OneSessionPerProcess
  <2>6. h \in Injection(S \cup {n}, T)
    BY <2>4, <2>5 DEF Injection, IsInjective
  <2> DEFINE e == [r \in S |-> f[r]]
  <2>7. e \in Injection(S, T)
    <3>1. \A r \in S : r \in Upto(Bound, n - 1) /\ f[r] \in T
      BY <1>2 DEF In
    <3> HIDE DEF S, T
    <3> QED BY <1>2, <3>1 DEF Injection, IsInjective
  <2>8. n \notin S /\ IsFiniteSet(S) /\ IsFiniteSet(T)
    <3>1. IsFiniteSet(Upto(Bound, n - 1)) /\ IsFiniteSet(Upto(is, n - 1))
      BY <1>1, UptoFinite
    <3>2. IsFiniteSet(S) /\ IsFiniteSet(T)
      BY <3>1, FS_Subset DEF In
    <3> QED BY <1>1, <3>2 DEF In, Upto
  <2>9. PICK y \in T : \A s \in S : e[s] # y
    <3> HIDE DEF S, T, e
    <3> QED BY <2>6, <2>7, <2>8, OneIsLeft
  <2>10. y \in Upto(is, n) /\ dir[y] = dir[n]
    BY <1>1 DEF In, Upto
  <2>11. \A r \in Upto(Bound, n - 1) : f[r] # y
    BY <1>2, <2>9, <2>10 DEF In
  <2>12. Others(Bound, is, n - 1, f)
    BY DEF is
  <2>13. \E g : Others(Bound, is, n, g)
    BY <1>1, <1>5, <2>10, <2>11, <2>12, ExtendOthers
  <2> QED BY <2>13 DEF is
<1> QED BY <1>3, <1>4, <1>5

LEMMA AllOthers ==
  ASSUME Inv, \A r \in Bound : Lives(r),
         NEW bind, BoundUpTo(MaxRollout, bind, Tops(Live(Alive) \ {}), Alive)
  PROVE  \E f : Others(Bound, {r \in Rollout : bind[r] # None}, MaxRollout, f)
<1> DEFINE is == {r \in Rollout : bind[r] # None}
           S == {n \in 0 .. MaxRollout : \E f : Others(Bound, is, n, f)}
<1>1. 0 \in S
  <2>1. Upto(Bound, 0) = {} /\ 0 \in 0 .. MaxRollout
    <3>1. \A r \in Rollout : ~ (r <= 0)
      BY Constants DEF Rollout
    <3> QED BY <3>1, Constants DEF Upto, Bound
  <2> DEFINE f == [r \in {} |-> None]
  <2>2. f \in Injection({}, Upto(is, 0))
    BY DEF Injection, IsInjective
  <2> HIDE DEF f
  <2>3. Others(Bound, is, 0, f)
    BY <2>1, <2>2 DEF Others
  <2> QED BY <2>1, <2>3
<1>2. ASSUME NEW i \in 0 .. MaxRollout, i < MaxRollout, i \in S PROVE i + 1 \in S
  <2> DEFINE n == i + 1
  <2>1. n \in Rollout /\ n \in 0 .. MaxRollout /\ n - 1 = i
    BY <1>2, Constants DEF Rollout
  <2>2. PICK f : Others(Bound, is, n - 1, f)
    BY <1>2, <2>1
  <2> HIDE DEF n
  <2>3. \E g : Others(Bound, is, n, g)
    BY <2>1, <2>2, OthersStep
  <2>4. n \in S
    BY <2>1, <2>3
  <2> QED BY <2>4 DEF n
<1>3. MaxRollout \in Nat
  BY Constants
<1> HIDE DEF S
<1>4. MaxRollout \in S
  BY <1>1, <1>2, <1>3, UpTo
<1> QED BY <1>4 DEF S, is

LEMMA FewerNever ==
  ASSUME Inv, \A r \in Bound : Lives(r), Poll(Alive, {})
  PROVE  Cardinality(Bound) <= Cardinality(Bound')
<1>1. PICK bind : Polled(bind, Live(Alive) \ {}, Alive)
  BY PollBinds DEF Inv
<1> DEFINE is == {r \in Rollout : bind[r] # None}
<1>2. Bound' = is
  <2>1. \A r \in Rollout : bind[r] # None => PinOf(bind[r]) # None
    BY <1>1, ProcessOf, Constants DEF Polled, Inv
  <2>2. \A r \in Rollout : pinned'[r] # None <=> bind[r] # None
    BY <1>1, <2>1 DEF Polled
  <2> QED BY <2>2 DEF Bound
<1>3. PICK f : Others(Bound, is, MaxRollout, f)
  BY <1>1, AllOthers DEF Polled
<1> HIDE DEF is
<1>4. Bound \in SUBSET Rollout /\ is \in SUBSET Rollout /\ MaxRollout \in Nat
  BY Constants DEF Bound, is
<1>5. Upto(Bound, MaxRollout) = Bound /\ Upto(is, MaxRollout) = is
  <2>1. \A r \in Rollout : r <= MaxRollout
    BY <1>4 DEF Rollout
  <2> QED BY <1>4, <2>1 DEF Upto
<1>6. f \in Injection(Bound, is)
  BY <1>3, <1>5 DEF Others
<1>7. IsFiniteSet(Bound) /\ IsFiniteSet(is)
  BY <1>4, UptoFinite
<1> QED BY <1>2, <1>6, <1>7, FS_Injection

\* However bindAll spreads the processes, a poll that fails nowhere binds at
\* least as many rollouts as were bound, as long as each of those processes is
\* still there: taking the youngest that is old enough, in the order of
\* creation, leaves nobody without a process who could have had one
\* (nearestNotBefore, and the pins of addPinned that keep the idle listed).
THEOREM BoundOnesStayBound == Spec => BoundNeverFalls
<1> DEFINE Falls ==
      (\A r \in Bound : Lives(r)) /\ Poll(Alive, {})
        => Cardinality(Bound) <= Cardinality(Bound')
<1>1. Inv => Falls
  BY FewerNever
<1>2. [][Falls]_source <=> BoundNeverFalls
  BY DEF BoundNeverFalls
<1> HIDE DEF Falls
<1> QED BY <1>1, <1>2, AlwaysInv, PTL

-----------------------------------------------------------------------------
(***************************************************************************)
(* The line of a rollout: itself, its parent, the parent's parent and so   *)
(* on, for as long as they are in D.  A parent comes before its children.  *)
(***************************************************************************)
Line(x, f, D, p) == {x} \cup (IF p[x] \in D THEN f[p[x]] ELSE {})
Lines(L, D, p) == L = [x \in D |-> Line(x, L, D, p)]
Descends(D, p) == D \in SUBSET Rollout /\ \A x \in D : p[x] \in D => p[x] < x

LEMMA FromTheLeast ==
  ASSUME NEW D \in SUBSET Nat, NEW G,
         \A x \in D : (\A y \in D : y < x => y \in G) => x \in G
  PROVE  D \subseteq G
<1> SUFFICES ASSUME ~(D \subseteq G) PROVE FALSE
  OBVIOUS
<1> DEFINE T == D \ G
<1>1. T \in SUBSET Nat /\ T # {}
  OBVIOUS
<1>2. PICK x \in T : \A y \in T : x <= y
  BY <1>1, LeastElement
<1>3. ASSUME NEW y \in D, y < x PROVE y \in G
  <2>1. ~(x <= y)
    BY <1>3
  <2> QED BY <1>2, <2>1
<1> QED BY <1>2, <1>3

LEMMA RolloutsAre ==
  /\ MaxRollout \in Nat /\ Rollout \in SUBSET Nat /\ IsFiniteSet(Rollout) /\ None \notin Rollout
  /\ Cardinality(Rollout) = MaxRollout
  /\ \A x \in Rollout : x \in 1 .. MaxRollout /\ x \in Nat
<1>1. MaxRollout \in Nat /\ None \notin Rollout
  BY Constants
<1>2. IsFiniteSet(1 .. MaxRollout) /\ Cardinality(1 .. MaxRollout) = MaxRollout
  BY <1>1, FS_Interval
<1> QED BY <1>1, <1>2 DEF Rollout

LEMMA LinesExist ==
  ASSUME NEW D, NEW p, Descends(D, p)
  PROVE  \E L : Lines(L, D, p)
<1> DEFINE m == MaxRollout
           U(k) == {y \in D : y <= k}
           G == {k \in 0 .. m : \E f : f = [x \in U(k) |-> Line(x, f, D, p)]}
<1>1. m \in Nat /\ D \in SUBSET (1 .. m) /\ \A x \in D : x \in Nat /\ x <= m /\ ~(x <= 0)
  <2>1. \A x \in 1 .. m : x \in Nat /\ x <= m /\ ~(x <= 0)
    BY RolloutsAre
  <2> QED BY <2>1, RolloutsAre DEF Descends, Rollout
<1> HIDE DEF m
<1>2. 0 \in G
  <2> DEFINE g == [x \in U(0) |-> {}]
  <2>1. U(0) = {}
    BY <1>1
  <2>2. g = [x \in U(0) |-> Line(x, g, D, p)]
    BY <2>1
  <2> HIDE DEF g
  <2>3. \E f : f = [x \in U(0) |-> Line(x, f, D, p)]
    BY <2>2
  <2> QED BY <1>1, <2>3
<1>3. ASSUME NEW i \in 0 .. m, i < m, i \in G PROVE i + 1 \in G
  <2>1. PICK f : f = [x \in U(i) |-> Line(x, f, D, p)]
    BY <1>3
  <2> DEFINE g == [x \in U(i + 1) |-> IF x \in U(i) THEN f[x] ELSE Line(x, f, D, p)]
  <2>2. \A x \in D : x \in Nat
    BY <1>1
  <2>3. ASSUME NEW x \in U(i + 1) PROVE g[x] = Line(x, g, D, p)
    <3>1. g[x] = Line(x, f, D, p)
      <4>1. CASE x \in U(i)
        BY <2>1, <4>1
      <4>2. CASE x \notin U(i)
        BY <4>2
      <4> QED BY <4>1, <4>2
    <3>2. ASSUME p[x] \in D PROVE g[p[x]] = f[p[x]]
      <4>1. p[x] < x /\ x <= i + 1 /\ x \in Nat /\ p[x] \in Nat
        BY <2>2, <3>2 DEF Descends
      <4>2. p[x] \in U(i) /\ p[x] \in U(i + 1)
        BY <3>2, <4>1
      <4> HIDE DEF U
      <4> QED BY <4>2
    <3> HIDE DEF g, U
    <3> QED BY <3>1, <3>2 DEF Line
  <2>4. g = [x \in U(i + 1) |-> g[x]]
    OBVIOUS
  <2> HIDE DEF g, U
  <2>5. g = [x \in U(i + 1) |-> Line(x, g, D, p)]
    BY <2>3, <2>4
  <2>6. i + 1 \in 0 .. m /\ \E h : h = [x \in U(i + 1) |-> Line(x, h, D, p)]
    BY <1>1, <1>3, <2>5
  <2> QED BY <2>6
<1> HIDE DEF G
<1>4. m \in G
  BY <1>1, <1>2, <1>3, UpTo
<1>5. U(m) = D
  BY <1>1
<1> HIDE DEF U
<1>6. \E f : f = [x \in D |-> Line(x, f, D, p)]
  BY <1>4, <1>5 DEF G
<1> QED BY <1>6 DEF Lines

LEMMA LineIs ==
  ASSUME NEW D, NEW p, Descends(D, p), NEW L, Lines(L, D, p), NEW x \in D
  PROVE  L[x] = {x} \cup (IF p[x] \in D THEN L[p[x]] ELSE {})
<1>1. L[x] = Line(x, L, D, p)
  BY DEF Lines
<1> QED BY <1>1 DEF Line

\* What is in a line is not younger, and has a part of that line as its own; of
\* two in a line one is in the line of the other; and all but the first are
\* somebody's parent there.
LEMMA LineHas ==
  ASSUME NEW D, NEW p, Descends(D, p), NEW L, Lines(L, D, p)
  PROVE  \A x \in D :
           /\ L[x] \in SUBSET D /\ x \in L[x]
           /\ \A y \in L[x] : y <= x /\ L[y] \subseteq L[x]
           /\ \A y, z \in L[x] : y \in L[z] \/ z \in L[y]
           /\ \A y \in L[x] : y # x => \E k \in L[x] : p[k] = y
<1> DEFINE Has(x) ==
             /\ L[x] \in SUBSET D /\ x \in L[x]
             /\ \A y \in L[x] : y <= x /\ L[y] \subseteq L[x]
             /\ \A y, z \in L[x] : y \in L[z] \/ z \in L[y]
             /\ \A y \in L[x] : y # x => \E k \in L[x] : p[k] = y
           G == {x \in D : Has(x)}
<1>1. D \in SUBSET Nat
  BY RolloutsAre DEF Descends
<1>2. ASSUME NEW x \in D, \A y \in D : y < x => y \in G PROVE x \in G
  <2>1. L[x] = {x} \cup (IF p[x] \in D THEN L[p[x]] ELSE {})
    BY LineIs
  <2>2. CASE p[x] \notin D
    <3>1. L[x] = {x}
      BY <2>1, <2>2
    <3>2. x <= x
      BY <1>1
    <3> QED BY <3>1, <3>2
  <2>3. CASE p[x] \in D
    <3> DEFINE q == p[x]
    <3>1. q \in D /\ q < x /\ L[x] = {x} \cup L[q]
      BY <2>1, <2>3 DEF Descends
    <3>2. Has(q)
      BY <1>2, <3>1
    <3> HIDE DEF q
    <3>3. ASSUME NEW y \in L[q] PROVE y <= x /\ L[y] \subseteq L[x]
      <4>1. y \in Nat /\ q \in Nat /\ x \in Nat
        BY <1>1, <3>1, <3>2
      <4>2. y <= q /\ L[y] \subseteq L[q]
        BY <3>2
      <4> QED BY <3>1, <4>1, <4>2
    <3>4. L[x] \in SUBSET D /\ x \in L[x] /\ x <= x
      BY <1>1, <3>1, <3>2
    <3>5. \A y, z \in L[x] : y \in L[z] \/ z \in L[y]
      BY <3>1, <3>2, <3>4
    <3>6. \A y \in L[x] : y # x => \E k \in L[x] : p[k] = y
      BY <3>1, <3>2, <3>4 DEF q
    <3>7. \A y \in L[x] : y <= x /\ L[y] \subseteq L[x]
      BY <3>1, <3>3, <3>4
    <3> QED BY <3>4, <3>5, <3>6, <3>7
  <2> QED BY <2>2, <2>3
<1> HIDE DEF G
<1>3. D \subseteq G
  BY <1>1, <1>2, FromTheLeast
<1> QED BY <1>3 DEF G

\* Nobody has two children in one line.
LEMMA OneChildInLine ==
  ASSUME NEW D, NEW p, Descends(D, p), NEW L, Lines(L, D, p), NEW x \in D,
         NEW k \in L[x], NEW l \in L[x], p[k] = p[l], p[k] \in D
  PROVE  k = l
<1>1. ASSUME NEW y \in D, NEW z \in D, y \in L[z], p[y] = p[z], p[y] \in D PROVE y = z
  <2>1. y = z \/ y \in L[p[y]]
    BY <1>1, LineIs
  <2>2. y \in L[p[y]] => y <= p[y]
    BY <1>1, LineHas
  <2>3. p[y] < y /\ y \in Nat /\ p[y] \in Nat
    BY <1>1, RolloutsAre DEF Descends
  <2> QED BY <2>1, <2>2, <2>3
<1>2. k \in D /\ l \in D /\ (k \in L[l] \/ l \in L[k])
  BY LineHas
<1> QED BY <1>1, <1>2

\* A line is one longer than that of the parent.
LEMMA LineLength ==
  ASSUME NEW D, NEW p, Descends(D, p), NEW L, Lines(L, D, p), NEW x \in D
  PROVE  /\ Cardinality(L[x]) \in 1 .. Cardinality(D) /\ Cardinality(D) \in Nat
         /\ p[x] \in D => Cardinality(L[x]) = Cardinality(L[p[x]]) + 1
         /\ p[x] \notin D => Cardinality(L[x]) = 1
<1>1. IsFiniteSet(D) /\ Cardinality(D) \in Nat
  <2>1. D \in SUBSET Rollout /\ IsFiniteSet(Rollout)
    BY RolloutsAre DEF Descends
  <2>2. IsFiniteSet(D)
    BY <2>1, FS_Subset
  <2> QED BY <2>2, FS_CardinalityType
<1>2. ASSUME NEW y \in D
      PROVE  /\ IsFiniteSet(L[y]) /\ Cardinality(L[y]) \in Nat
             /\ Cardinality(L[y]) # 0 /\ Cardinality(L[y]) <= Cardinality(D)
  <2>1. L[y] \in SUBSET D /\ L[y] # {}
    BY LineHas
  <2>2. IsFiniteSet(L[y]) /\ Cardinality(L[y]) <= Cardinality(D)
    BY <1>1, <2>1, FS_Subset
  <2> QED BY <2>1, <2>2, FS_CardinalityType, FS_EmptySet
<1>3. L[x] = {x} \cup (IF p[x] \in D THEN L[p[x]] ELSE {})
  BY LineIs
<1>4. CASE p[x] \in D
  <2>1. p[x] < x /\ x \in Nat /\ p[x] \in Nat
    BY <1>4, RolloutsAre DEF Descends
  <2>2. x \notin L[p[x]]
    <3>1. x \in L[p[x]] => x <= p[x]
      BY <1>4, LineHas
    <3> QED BY <2>1, <3>1
  <2>3. L[x] = L[p[x]] \cup {x} /\ IsFiniteSet(L[p[x]])
    BY <1>2, <1>3, <1>4
  <2>4. Cardinality(L[x]) = Cardinality(L[p[x]]) + 1
    BY <2>2, <2>3, FS_AddElement
  <2> QED BY <1>1, <1>2, <1>4, <2>4
<1>5. CASE p[x] \notin D
  <2>1. L[x] = {x}
    BY <1>3, <1>5
  <2>2. Cardinality(L[x]) = 1
    BY <2>1, FS_Singleton
  <2> QED BY <1>1, <1>2, <1>5, <2>2
<1> QED BY <1>4, <1>5

-----------------------------------------------------------------------------
(***************************************************************************)
(* The walks up a line, as many hops as there are rollouts.                *)
(***************************************************************************)
Hops(f, m, c, h) == f = [n \in 0 .. m |-> IF n = 0 THEN c ELSE h[f[n - 1]]]

LEMMA HopsExist ==
  ASSUME NEW D, NEW h \in [D -> D], NEW c \in D, NEW m \in Nat
  PROVE  \E f : Hops(f, m, c, h) /\ f \in [0 .. m -> D]
<1> DEFINE G == {k \in 0 .. m : \E f : Hops(f, k, c, h) /\ f \in [0 .. k -> D]}
<1>1. 0 \in G
  <2> DEFINE g == [n \in 0 .. 0 |-> c]
  <2>1. Hops(g, 0, c, h) /\ g \in [0 .. 0 -> D]
    BY DEF Hops
  <2> QED BY <2>1
<1>2. ASSUME NEW i \in 0 .. m, i < m, i \in G PROVE i + 1 \in G
  <2>1. PICK f : Hops(f, i, c, h) /\ f \in [0 .. i -> D]
    BY <1>2
  <2> DEFINE g == [n \in 0 .. i + 1 |-> IF n = i + 1 THEN h[f[i]] ELSE f[n]]
  <2>2. ASSUME NEW n \in 0 .. i + 1 PROVE g[n] = (IF n = 0 THEN c ELSE h[g[n - 1]]) /\ g[n] \in D
    <3>1. CASE n = i + 1
      <4>1. n # 0 /\ n - 1 = i /\ i \in 0 .. i /\ i \in 0 .. i + 1 /\ i # i + 1
        BY <3>1
      <4>2. g[n] = h[f[i]] /\ g[n - 1] = f[i] /\ f[i] \in D
        BY <2>1, <3>1, <4>1
      <4> HIDE DEF g
      <4> QED BY <4>1, <4>2
    <3>2. CASE n # i + 1
      <4>1. n \in 0 .. i /\ (n # 0 => n - 1 \in 0 .. i /\ n - 1 \in 0 .. i + 1 /\ n - 1 # i + 1)
        BY <3>2
      <4>2. g[n] = f[n] /\ (n # 0 => g[n - 1] = f[n - 1]) /\ f[n] \in D
        BY <2>1, <3>2, <4>1
      <4>3. f[n] = IF n = 0 THEN c ELSE h[f[n - 1]]
        BY <2>1, <4>1 DEF Hops
      <4> HIDE DEF g
      <4> QED BY <4>2, <4>3
    <3> QED BY <3>1, <3>2
  <2>3. g = [n \in 0 .. i + 1 |-> g[n]]
    OBVIOUS
  <2> HIDE DEF g
  <2>4. Hops(g, i + 1, c, h) /\ g \in [0 .. i + 1 -> D]
    BY <2>2, <2>3 DEF Hops
  <2>5. i + 1 \in 0 .. m /\ \E l : Hops(l, i + 1, c, h) /\ l \in [0 .. i + 1 -> D]
    BY <1>2, <2>4
  <2> QED BY <2>5
<1> HIDE DEF G
<1>3. m \in G
  BY <1>1, <1>2, UpTo
<1> QED BY <1>3 DEF G

\* One hop of walkToRoot, and one of subagentDepth.
Upward(F, p, r) == IF r = None \/ p[r] = None THEN r ELSE IF p[r] \in F THEN p[r] ELSE None
Inward(D, p, s, x) == IF x # None /\ ParentID(p, s, x) \in D \ {x} THEN ParentID(p, s, x) ELSE None

\* The root in the line of c, or None when the line breaks off.
RootInLine(w, c, L, p) ==
  \/ w = None /\ \A y \in L[c] : p[y] # None
  \/ w \in L[c] /\ p[w] = None /\ \A y \in L[c] : p[y] = None => y = w

LEMMA WalkEnds ==
  ASSUME NEW F, NEW p, Descends(F, p), NEW L, Lines(L, F, p), NEW c \in F
  PROVE  RootInLine(WalkToRoot(F, p, c), c, L, p)
<1> DEFINE N == Cardinality(F)
           D == F \cup {None}
           h == [x \in D |-> Upward(F, p, x)]
           up[n \in 0 .. N] == IF n = 0 THEN c ELSE Upward(F, p, up[n - 1])
           Is(f) == f = [n \in 0 .. N |-> IF n = 0 THEN c ELSE Upward(F, p, f[n - 1])]
<1>1. WalkToRoot(F, p, c) = IF up[N] # None /\ p[up[N]] = None THEN up[N] ELSE None
  BY DEF WalkToRoot, Upward
<1>2. up = CHOOSE f : Is(f)
  OBVIOUS
<1>3. N \in Nat /\ None \notin F /\ None \notin Nat /\ F \in SUBSET Nat
  BY LineLength, RolloutsAre, Constants DEF Descends
<1> HIDE DEF up, N
<1>4. \E f : Is(f)
  <2>1. h \in [D -> D]
    BY DEF Upward
  <2> HIDE DEF h, D
  <2>2. c \in D
    BY DEF D
  <2>3. PICK f : Hops(f, N, c, h) /\ f \in [0 .. N -> D]
    BY <1>3, <2>1, <2>2, HopsExist
  <2>4. ASSUME NEW n \in 0 .. N, n # 0 PROVE h[f[n - 1]] = Upward(F, p, f[n - 1])
    <3>1. n - 1 \in 0 .. N
      BY <1>3, <2>4
    <3>2. f[n - 1] \in D
      BY <2>3, <3>1
    <3> QED BY <3>2 DEF h
  <2>5. Is(f)
    BY <2>3, <2>4 DEF Hops
  <2> QED BY <2>5
<1>5. Is(up)
  BY <1>2, <1>4
<1>6. up[0] = c /\ \A n \in 0 .. N : n < N => up[n + 1] = Upward(F, p, up[n])
  <2>1. \A n \in 0 .. N : up[n] = IF n = 0 THEN c ELSE Upward(F, p, up[n - 1])
    BY <1>5
  <2>2. 0 \in 0 .. N
    BY <1>3
  <2>3. ASSUME NEW n \in 0 .. N, n < N PROVE up[n + 1] = Upward(F, p, up[n])
    <3>1. n + 1 \in 0 .. N /\ n + 1 # 0 /\ (n + 1) - 1 = n
      BY <1>3, <2>3
    <3> QED BY <2>1, <3>1
  <2> QED BY <2>1, <2>2, <2>3
<1> DEFINE At(n) ==
             \/ up[n] = None /\ \A y \in L[c] : p[y] # None
             \/ /\ up[n] \in L[c] /\ \A y \in L[c] : p[y] = None => y \in L[up[n]]
                /\ p[up[n]] = None \/ Cardinality(L[up[n]]) + n <= Cardinality(L[c])
           G == {n \in 0 .. N : At(n)}
<1>7. /\ Cardinality(L[c]) \in 1 .. N /\ L[c] \in SUBSET F /\ c \in L[c]
      /\ \A x \in F : Cardinality(L[x]) \in Nat /\ Cardinality(L[x]) # 0
  <2>1. \A x \in F : Cardinality(L[x]) \in 1 .. N
    BY LineLength DEF N
  <2> QED BY <1>3, <2>1, LineHas
<1>8. 0 \in G
  <2>1. up[0] = c /\ Cardinality(L[c]) + 0 <= Cardinality(L[c])
    BY <1>6, <1>7
  <2> QED BY <1>3, <1>7, <2>1
<1>9. ASSUME NEW n \in 0 .. N, n < N, n \in G PROVE n + 1 \in G
  <2> DEFINE t == up[n]
  <2>1. n + 1 \in 0 .. N /\ up[n + 1] = Upward(F, p, t)
    BY <1>3, <1>6, <1>9
  <2>2. CASE t = None
    BY <1>3, <1>7, <1>9, <2>1, <2>2 DEF Upward
  <2>3. CASE t # None /\ p[t] = None
    BY <1>9, <2>1, <2>3 DEF Upward
  <2>4. CASE t # None /\ p[t] # None /\ p[t] \in F
    <3>1. /\ t \in L[c] /\ t \in F /\ Cardinality(L[t]) + n <= Cardinality(L[c])
          /\ \A y \in L[c] : p[y] = None => y \in L[t]
      BY <1>7, <1>9, <2>4
    <3>2. L[t] = {t} \cup L[p[t]] /\ Cardinality(L[t]) = Cardinality(L[p[t]]) + 1
      BY <2>4, <3>1, LineIs, LineLength
    <3>3. p[t] \in L[c]
      <4>1. p[t] \in L[t] /\ L[t] \subseteq L[c]
        BY <2>4, <3>1, <3>2, LineHas
      <4> QED BY <4>1
    <3>4. up[n + 1] = p[t]
      BY <2>1, <2>4 DEF Upward
    <3>5. Cardinality(L[p[t]]) + (n + 1) <= Cardinality(L[c])
      BY <1>3, <1>7, <2>4, <3>1, <3>2
    <3> HIDE DEF t
    <3>6. \A y \in L[c] : p[y] = None => y \in L[p[t]]
      BY <2>4, <3>1, <3>2
    <3> QED BY <2>1, <3>3, <3>4, <3>5, <3>6
  <2>5. CASE t # None /\ p[t] # None /\ p[t] \notin F
    <3>1. t \in F /\ \A y \in L[c] : p[y] = None => y \in L[t]
      BY <1>7, <1>9, <2>5
    <3>2. L[t] = {t}
      BY <2>5, <3>1, LineIs
    <3>3. up[n + 1] = None
      BY <2>1, <2>5 DEF Upward
    <3> QED BY <2>1, <2>5, <3>1, <3>2, <3>3
  <2> QED BY <2>2, <2>3, <2>4, <2>5
<1> HIDE DEF G
<1>10. N \in G
  BY <1>3, <1>8, <1>9, UpTo
<1>11. At(N)
  BY <1>10 DEF G
<1>12. CASE up[N] = None
  BY <1>1, <1>3, <1>7, <1>11, <1>12 DEF RootInLine
<1>13. CASE up[N] # None
  <2> DEFINE t == up[N]
  <2>1. t \in L[c] /\ t \in F /\ \A y \in L[c] : p[y] = None => y \in L[t]
    BY <1>7, <1>11, <1>13
  <2>2. p[t] = None
    <3>1. ~(Cardinality(L[t]) + N <= Cardinality(L[c]))
      <4> DEFINE a == Cardinality(L[t])
                 b == Cardinality(L[c])
      <4>1. a \in Nat /\ a # 0 /\ b \in 1 .. N
        BY <1>7, <2>1
      <4> HIDE DEF a, b
      <4> QED BY <1>3, <4>1 DEF a, b
    <3> QED BY <1>11, <1>13, <3>1
  <2>3. L[t] = {t}
    <3>1. p[t] \notin F
      BY <1>3, <2>2
    <3> QED BY <2>1, <3>1, LineIs
  <2>4. WalkToRoot(F, p, c) = t
    BY <1>1, <1>13, <2>2
  <2> HIDE DEF t
  <2> QED BY <2>1, <2>2, <2>3, <2>4 DEF RootInLine
<1> QED BY <1>12, <1>13

\* Among those listed below s a child is indented as far as its line there goes.
LEMMA DepthIs ==
  ASSUME NEW D, NEW p, Descends(D, p), NEW s, s \notin D,
         NEW L, Lines(L, D, p), NEW c \in D
  PROVE  Depth(D, p, s, c) = Cardinality(L[c]) - 1
<1> DEFINE M == Cardinality(D)
           E == D \cup {None}
           h == [x \in E |-> Inward(D, p, s, x)]
           up[n \in 0 .. M] == IF n = 0 THEN c ELSE Inward(D, p, s, up[n - 1])
           Is(f) == f = [n \in 0 .. M |-> IF n = 0 THEN c ELSE Inward(D, p, s, f[n - 1])]
<1>1. Depth(D, p, s, c) = Cardinality({n \in 1 .. M : up[n] # None})
  BY DEF Depth, Inward
<1>2. up = CHOOSE f : Is(f)
  OBVIOUS
<1>3. M \in Nat /\ None \notin D /\ None \notin Nat /\ D \in SUBSET Nat
  BY LineLength, RolloutsAre, Constants DEF Descends
<1> HIDE DEF up, M
<1>4. \A x \in D : Inward(D, p, s, x) = IF p[x] \in D THEN p[x] ELSE None
  <2>1. \A x \in D : p[x] \in D => p[x] # x /\ x \in Nat
    BY <1>3 DEF Descends
  <2> QED BY <1>3, <2>1 DEF Inward, ParentID
<1>5. Inward(D, p, s, None) = None
  BY DEF Inward
<1>6. \E f : Is(f)
  <2>1. h \in [E -> E]
    BY <1>4, <1>5
  <2> HIDE DEF h, E
  <2>2. c \in E
    BY DEF E
  <2>3. PICK f : Hops(f, M, c, h) /\ f \in [0 .. M -> E]
    BY <1>3, <2>1, <2>2, HopsExist
  <2>4. ASSUME NEW n \in 0 .. M, n # 0 PROVE h[f[n - 1]] = Inward(D, p, s, f[n - 1])
    <3>1. n - 1 \in 0 .. M
      BY <1>3, <2>4
    <3>2. f[n - 1] \in E
      BY <2>3, <3>1
    <3> QED BY <3>2 DEF h
  <2>5. Is(f)
    BY <2>3, <2>4 DEF Hops
  <2> QED BY <2>5
<1>7. Is(up)
  BY <1>2, <1>6
<1>8. up[0] = c /\ \A n \in 0 .. M : n < M => up[n + 1] = Inward(D, p, s, up[n])
  <2>1. \A n \in 0 .. M : up[n] = IF n = 0 THEN c ELSE Inward(D, p, s, up[n - 1])
    BY <1>7
  <2>2. 0 \in 0 .. M
    BY <1>3
  <2>3. ASSUME NEW n \in 0 .. M, n < M PROVE up[n + 1] = Inward(D, p, s, up[n])
    <3>1. n + 1 \in 0 .. M /\ n + 1 # 0 /\ (n + 1) - 1 = n
      BY <1>3, <2>3
    <3> QED BY <2>1, <3>1
  <2> QED BY <2>1, <2>2, <2>3
<1> DEFINE C == Cardinality(L[c])
           G == {n \in 0 .. M : /\ n < C => up[n] \in D /\ Cardinality(L[up[n]]) + n = C
                                /\ n >= C => up[n] = None}
<1>9. C \in 1 .. M /\ \A x \in D : Cardinality(L[x]) \in Nat /\ Cardinality(L[x]) # 0
  <2>1. \A x \in D : Cardinality(L[x]) \in 1 .. M
    BY LineLength DEF M
  <2> QED BY <1>3, <2>1
<1>10. 0 \in G
  BY <1>3, <1>8, <1>9
<1>11. ASSUME NEW n \in 0 .. M, n < M, n \in G PROVE n + 1 \in G
  <2>1. n + 1 \in 0 .. M /\ up[n + 1] = Inward(D, p, s, up[n])
    BY <1>3, <1>8, <1>11
  <2>2. CASE n >= C
    <3>1. n + 1 >= C /\ ~(n + 1 < C)
      BY <1>9, <2>2
    <3> QED BY <1>5, <1>11, <2>1, <2>2, <3>1
  <2>3. CASE n < C
    <3> DEFINE t == up[n]
    <3>1. t \in D /\ Cardinality(L[t]) + n = C
      BY <1>11, <2>3
    <3>2. CASE p[t] \in D
      <4>1. Cardinality(L[t]) = Cardinality(L[p[t]]) + 1 /\ up[n + 1] = p[t]
        BY <1>4, <2>1, <3>1, <3>2, LineLength
      <4> HIDE DEF t, C
      <4>2. Cardinality(L[p[t]]) + (n + 1) = C /\ n + 1 < C
        BY <1>9, <3>1, <3>2, <4>1
      <4>3. ~(n + 1 >= C)
        BY <1>9, <4>2
      <4> QED BY <2>1, <3>2, <4>1, <4>2, <4>3
    <3>3. CASE p[t] \notin D
      <4>1. Cardinality(L[t]) = 1 /\ up[n + 1] = None
        BY <1>4, <2>1, <3>1, <3>3, LineLength
      <4> HIDE DEF t, C
      <4>2. n + 1 = C /\ ~(n + 1 < C)
        BY <1>9, <3>1, <4>1
      <4> QED BY <2>1, <4>1, <4>2
    <3> QED BY <3>2, <3>3
  <2> QED BY <1>9, <2>2, <2>3
<1> HIDE DEF G
<1>12. ASSUME NEW n \in 0 .. M PROVE n \in G
  <2>1. n \in Nat /\ \A i \in 0 .. n : i < n /\ i \in G => i + 1 \in G
    BY <1>3, <1>11
  <2> QED BY <1>10, <2>1, UpTo
<1>13. {n \in 1 .. M : up[n] # None} = 1 .. C - 1
  <2>1. \A n \in 1 .. M : up[n] # None <=> n < C
    <3>1. \A n \in 1 .. M : n \in G /\ (n < C \/ n >= C) /\ ~(n < C /\ n >= C)
      BY <1>3, <1>9, <1>12
    <3> QED BY <1>3, <3>1 DEF G
  <2> HIDE DEF C
  <2> QED BY <1>3, <1>9, <2>1
<1>14. Cardinality(1 .. C - 1) = C - 1
  <2> HIDE DEF C
  <2>1. 1 \in Int /\ C - 1 \in Int
    BY <1>3, <1>9
  <2>2. Cardinality(1 .. C - 1) = IF 1 > C - 1 THEN 0 ELSE (C - 1) - 1 + 1
    BY <2>1, FS_Interval
  <2> QED BY <1>3, <1>9, <2>2
<1> QED BY <1>1, <1>13, <1>14

-----------------------------------------------------------------------------
(***************************************************************************)
(* The children of a rollout, in order.  A strict total order is given as  *)
(* the set of its pairs.                                                   *)
(***************************************************************************)
Precedes(R, S) ==
  /\ \A x \in S : <<x, x>> \notin R
  /\ \A x, y \in S : x # y => <<x, y>> \in R \/ <<y, x>> \in R
  /\ \A x, y, z \in S : <<x, y>> \in R /\ <<y, z>> \in R => <<x, z>> \in R

InOrder(s, R, S) ==
  /\ s \in [1 .. Cardinality(S) -> S]
  /\ \A i, j \in 1 .. Cardinality(S) : i < j => <<s[i], s[j]>> \in R

\* s has each element of S once.
Lists(s, S) ==
  /\ s \in Seq(S)
  /\ \A x \in S : \E i \in 1 .. Len(s) : s[i] = x
  /\ \A i, j \in 1 .. Len(s) : s[i] = s[j] => i = j

\* A finite set has an order: each element stands at the place that those
\* before it leave it.
LEMMA OrderExists ==
  ASSUME NEW S, IsFiniteSet(S), NEW R, Precedes(R, S)
  PROVE  \E s : InOrder(s, R, S)
<1> DEFINE N == Cardinality(S)
           Less(x) == {y \in S : <<y, x>> \in R}
           rank == [x \in S |-> Cardinality(Less(x)) + 1]
<1>1. N \in Nat
  BY FS_CardinalityType
<1>2. ASSUME NEW x \in S
      PROVE  IsFiniteSet(Less(x)) /\ Cardinality(Less(x)) \in Nat /\ Less(x) \subseteq S
  BY FS_Subset, FS_CardinalityType
<1>3. ASSUME NEW x \in S, NEW y \in S, <<x, y>> \in R
      PROVE  rank[x] < rank[y]
  <2>1. x \notin Less(x) /\ Less(x) \cup {x} \in SUBSET Less(y)
    BY <1>3 DEF Precedes
  <2> HIDE DEF Less
  <2>2. Cardinality(Less(x) \cup {x}) = Cardinality(Less(x)) + 1
    BY <1>2, <2>1, FS_AddElement
  <2>3. Cardinality(Less(x) \cup {x}) <= Cardinality(Less(y))
    BY <1>2, <2>1, FS_Subset
  <2>4. Cardinality(Less(x)) \in Nat /\ Cardinality(Less(y)) \in Nat
    BY <1>2
  <2> QED BY <2>2, <2>3, <2>4
<1>4. ASSUME NEW x \in S PROVE rank[x] \in 1 .. N
  <2>1. x \notin Less(x) /\ Less(x) \cup {x} \in SUBSET S
    BY DEF Precedes
  <2> HIDE DEF Less
  <2>2. Cardinality(Less(x) \cup {x}) = Cardinality(Less(x)) + 1
    BY <1>2, <2>1, FS_AddElement
  <2>3. Cardinality(Less(x) \cup {x}) <= N
    BY <2>1, FS_Subset
  <2> HIDE DEF N
  <2> QED BY <1>1, <1>2, <2>2, <2>3
<1>5. DOMAIN rank = S
  OBVIOUS
<1>6. rank \in [S -> 1 .. N]
  <2>1. rank = [x \in S |-> rank[x]]
    OBVIOUS
  <2> HIDE DEF rank, N
  <2> QED BY <1>4, <2>1
<1> HIDE DEF rank
<1>7. rank \in Injection(S, 1 .. N)
  <2>1. ASSUME NEW x \in S, NEW y \in S, rank[x] = rank[y] PROVE x = y
    <3>1. rank[x] \in Int /\ rank[y] \in Int
      BY <1>1, <1>4
    <3>2. ~(rank[x] < rank[y]) /\ ~(rank[y] < rank[x])
      BY <2>1, <3>1
    <3>3. <<x, y>> \notin R /\ <<y, x>> \notin R
      BY <1>3, <3>2
    <3> QED BY <3>3 DEF Precedes
  <2> QED BY <1>6, <2>1 DEF Injection, IsInjective
<1>8. IsFiniteSet(1 .. N) /\ Cardinality(1 .. N) = N
  <2> HIDE DEF N
  <2>1. 1 \in Int /\ N \in Int
    BY <1>1
  <2>2. IsFiniteSet(1 .. N) /\ Cardinality(1 .. N) = IF 1 > N THEN 0 ELSE N - 1 + 1
    BY <2>1, FS_Interval
  <2> QED BY <1>1, <2>2
<1>9. rank \in Surjection(S, 1 .. N)
  BY <1>7, <1>8, FS_Injection
<1> DEFINE s == [i \in 1 .. N |-> CHOOSE x \in S : rank[x] = i]
<1>10. ASSUME NEW i \in 1 .. N PROVE s[i] \in S /\ rank[s[i]] = i
  <2>1. \E x \in S : rank[x] = i
    BY <1>9 DEF Surjection
  <2> QED BY <2>1
<1>11. ASSUME NEW i \in 1 .. N, NEW j \in 1 .. N, i < j PROVE <<s[i], s[j]>> \in R
  <2>1. s[i] \in S /\ s[j] \in S /\ rank[s[i]] = i /\ rank[s[j]] = j
    BY <1>10
  <2> HIDE DEF s
  <2>2. i \in Int /\ j \in Int
    BY <1>1
  <2>3. s[i] # s[j] /\ ~(j < i)
    BY <1>11, <2>1, <2>2
  <2>4. <<s[j], s[i]>> \notin R
    BY <1>3, <2>1, <2>3
  <2> QED BY <2>1, <2>3, <2>4 DEF Precedes
<1>12. s \in [1 .. N -> S]
  BY <1>10
<1> HIDE DEF s
<1>13. InOrder(s, R, S)
  BY <1>11, <1>12 DEF InOrder
<1> QED BY <1>13

LEMMA InOrderLists ==
  ASSUME NEW S, IsFiniteSet(S), NEW R, Precedes(R, S), NEW s, InOrder(s, R, S)
  PROVE  Lists(s, S)
<1> DEFINE N == Cardinality(S)
<1>1. N \in Nat
  BY FS_CardinalityType
<1>2. s \in [1 .. N -> S] /\ \A i, j \in 1 .. N : i < j => <<s[i], s[j]>> \in R
  BY DEF InOrder
<1>3. s \in Seq(S) /\ Len(s) = N
  <2> HIDE DEF N
  <2> QED BY <1>1, <1>2
<1>4. s \in Injection(1 .. N, S)
  <2>1. ASSUME NEW i \in 1 .. N, NEW j \in 1 .. N, s[i] = s[j] PROVE i = j
    <3>1. s[i] \in S /\ <<s[i], s[i]>> \notin R
      BY <1>2 DEF Precedes
    <3>2. i \in Int /\ j \in Int
      BY <1>1
    <3>3. ~(i < j) /\ ~(j < i)
      BY <1>2, <2>1, <3>1
    <3> QED BY <3>2, <3>3
  <2> QED BY <1>2, <2>1 DEF Injection, IsInjective
<1>5. IsFiniteSet(1 .. N) /\ Cardinality(1 .. N) = N
  <2> HIDE DEF N
  <2>1. 1 \in Int /\ N \in Int
    BY <1>1
  <2>2. IsFiniteSet(1 .. N) /\ Cardinality(1 .. N) = IF 1 > N THEN 0 ELSE N - 1 + 1
    BY <2>1, FS_Interval
  <2> QED BY <1>1, <2>2
<1>6. s \in Surjection(1 .. N, S)
  BY <1>4, <1>5, FS_Injection
<1>7. \A x \in S : \E i \in 1 .. N : s[i] = x
  BY <1>6 DEF Surjection
<1>8. \A i, j \in 1 .. N : s[i] = s[j] => i = j
  BY <1>4 DEF Injection, IsInjective
<1> QED BY <1>3, <1>7, <1>8 DEF Lists

LEMMA BeforeOrders ==
  ASSUME NEW start, NEW x \in Nat, NEW y \in Nat, NEW z \in Nat,
         start[x] \in Nat, start[y] \in Nat, start[z] \in Nat
  PROVE  /\ ~Before(start, x, x)
         /\ x # y => Before(start, x, y) \/ Before(start, y, x)
         /\ Before(start, x, y) /\ Before(start, y, z) => Before(start, x, z)
BY DEF Before

LEMMA SpawnedLists ==
  ASSUME NEW F, F \in SUBSET Rollout, NEW p, NEW start, \A x \in F : start[x] \in Nat, NEW r
  PROVE  Lists(Spawned(F, p, start, r), {c \in F : p[c] = r})
<1> DEFINE S == {c \in F : p[c] = r}
           R == {q \in S \X S : Before(start, q[1], q[2])}
<1>1. S \in SUBSET Nat /\ IsFiniteSet(S) /\ \A x \in S : start[x] \in Nat
  <2>1. S \in SUBSET Rollout /\ IsFiniteSet(Rollout) /\ Rollout \in SUBSET Nat
    BY RolloutsAre
  <2> QED BY <2>1, FS_Subset
<1>2. \A x, y \in S : <<x, y>> \in R <=> Before(start, x, y)
  OBVIOUS
<1>3. Spawned(F, p, start, r) =
        CHOOSE s \in [1 .. Cardinality(S) -> S] :
          \A i, j \in 1 .. Cardinality(S) : i < j => Before(start, s[i], s[j])
  BY DEF Spawned
<1> HIDE DEF R, S
<1>4. Precedes(R, S)
  BY <1>1, <1>2, BeforeOrders DEF Precedes
<1>5. PICK s : InOrder(s, R, S)
  BY <1>1, <1>4, OrderExists
<1>6. \A t \in [1 .. Cardinality(S) -> S] :
        (\A i, j \in 1 .. Cardinality(S) : i < j => Before(start, t[i], t[j])) <=> InOrder(t, R, S)
  BY <1>2 DEF InOrder
<1>7. InOrder(Spawned(F, p, start, r), R, S)
  BY <1>3, <1>5, <1>6 DEF InOrder
<1>8. Lists(Spawned(F, p, start, r), S)
  BY <1>1, <1>4, <1>7, InOrderLists
<1> QED BY <1>8 DEF S

-----------------------------------------------------------------------------
(***************************************************************************)
(* Sequences put one behind the other.  from: what comes before each.      *)
(***************************************************************************)
Flat(t, seqs, n, from) ==
  /\ \A i \in 1 .. n : from[i] \in Nat
  /\ \A i \in 1 .. n : \A j \in 1 .. Len(seqs[i]) :
       from[i] + j \in 1 .. Len(t) /\ t[from[i] + j] = seqs[i][j]
  /\ \A k \in 1 .. Len(t) : \E i \in 1 .. n : k - from[i] \in 1 .. Len(seqs[i])

Joined(seqs, i, f) == IF i = 1 THEN seqs[i] ELSE f[i - 1] \o seqs[i]
Joins(f, n, seqs) == f = [i \in 1 .. n |-> Joined(seqs, i, f)]

LEMMA JoinsExist ==
  ASSUME NEW seqs, NEW n \in Nat
  PROVE  \E f : Joins(f, n, seqs)
<1> DEFINE G == {k \in 0 .. n : \E f : Joins(f, k, seqs)}
<1>1. 0 \in G
  <2> DEFINE g == [i \in 1 .. 0 |-> {}]
  <2>1. 1 .. 0 = {}
    OBVIOUS
  <2>2. g = [i \in 1 .. 0 |-> Joined(seqs, i, g)]
    BY <2>1
  <2> HIDE DEF g
  <2>3. Joins(g, 0, seqs)
    BY <2>2 DEF Joins
  <2> QED BY <2>3
<1>2. ASSUME NEW k \in 0 .. n, k < n, k \in G PROVE k + 1 \in G
  <2>1. PICK f : Joins(f, k, seqs)
    BY <1>2
  <2> DEFINE g == [i \in 1 .. k + 1 |-> IF i = k + 1 THEN Joined(seqs, i, f) ELSE f[i]]
  <2>2. ASSUME NEW i \in 1 .. k + 1 PROVE g[i] = Joined(seqs, i, g)
    <3>1. i # 1 => i - 1 \in 1 .. k + 1 /\ i - 1 # k + 1 /\ g[i - 1] = f[i - 1]
      <4>1. i # 1 => i - 1 \in 1 .. k + 1 /\ i - 1 # k + 1
        OBVIOUS
      <4> QED BY <4>1
    <3>2. g[i] = Joined(seqs, i, f)
      <4>1. CASE i = k + 1
        BY <4>1
      <4>2. CASE i # k + 1
        <5>1. i \in 1 .. k
          BY <4>2
        <5>2. f[i] = Joined(seqs, i, f)
          BY <2>1, <5>1 DEF Joins
        <5> QED BY <4>2, <5>2
      <4> QED BY <4>1, <4>2
    <3> HIDE DEF g
    <3> QED BY <3>1, <3>2 DEF Joined
  <2>3. g = [i \in 1 .. k + 1 |-> g[i]]
    OBVIOUS
  <2> HIDE DEF g
  <2>4. Joins(g, k + 1, seqs) /\ k + 1 \in 0 .. n
    BY <1>2, <2>2, <2>3 DEF Joins
  <2> QED BY <2>4
<1> HIDE DEF G
<1>3. n \in G
  BY <1>1, <1>2, UpTo
<1> QED BY <1>3 DEF G

LEMMA SeqConcat ==
  ASSUME NEW S, NEW s \in Seq(S), NEW t \in Seq(S)
  PROVE  /\ s \o t \in Seq(S) /\ Len(s \o t) = Len(s) + Len(t)
         /\ Len(s) \in Nat /\ Len(t) \in Nat
         /\ \A i \in 1 .. Len(s) : (s \o t)[i] = s[i]
         /\ \A i \in 1 .. Len(t) : (s \o t)[Len(s) + i] = t[i]
OBVIOUS

LEMMA FlatOne ==
  ASSUME NEW S, NEW seqs, seqs[1] \in Seq(S)
  PROVE  \E from : Flat(seqs[1], seqs, 1, from)
<1> DEFINE from == [i \in 1 .. 1 |-> 0]
<1>1. Len(seqs[1]) \in Nat /\ 1 .. 1 = {1}
  OBVIOUS
<1>2. from[1] = 0
  OBVIOUS
<1> HIDE DEF from
<1>3. \A k \in 1 .. Len(seqs[1]) : 0 + k = k /\ k - 0 = k
  BY <1>1
<1>4. Flat(seqs[1], seqs, 1, from)
  BY <1>1, <1>2, <1>3 DEF Flat
<1> QED BY <1>4

LEMMA FlatMore ==
  ASSUME NEW S, NEW seqs, NEW n \in Nat, NEW t \in Seq(S), NEW from, Flat(t, seqs, n, from),
         seqs[n + 1] \in Seq(S), \A i \in 1 .. n : seqs[i] \in Seq(S)
  PROVE  \E more : Flat(t \o seqs[n + 1], seqs, n + 1, more)
<1> DEFINE u == t \o seqs[n + 1]
           more == [i \in 1 .. n + 1 |-> IF i = n + 1 THEN Len(t) ELSE from[i]]
           m == Len(seqs[n + 1])
<1>1. /\ u \in Seq(S) /\ Len(u) = Len(t) + m /\ Len(t) \in Nat /\ m \in Nat
      /\ \A i \in 1 .. Len(t) : u[i] = t[i]
      /\ \A i \in 1 .. m : u[Len(t) + i] = seqs[n + 1][i]
  BY SeqConcat
<1>2. /\ n + 1 \in 1 .. n + 1
      /\ \A i \in 1 .. n + 1 : i = n + 1 \/ i \in 1 .. n
      /\ \A i \in 1 .. n : i \in 1 .. n + 1 /\ i # n + 1
  OBVIOUS
<1>3. more[n + 1] = Len(t) /\ \A i \in 1 .. n : more[i] = from[i]
  BY <1>2
<1> HIDE DEF more, u, m
<1>4. \A i \in 1 .. n + 1 : more[i] \in Nat
  BY <1>1, <1>2, <1>3 DEF Flat
<1>5. ASSUME NEW i \in 1 .. n + 1, NEW j \in 1 .. Len(seqs[i])
      PROVE  more[i] + j \in 1 .. Len(u) /\ u[more[i] + j] = seqs[i][j]
  <2>1. CASE i = n + 1
    <3>1. j \in 1 .. m
      BY <2>1 DEF m
    <3>2. Len(t) + j \in 1 .. Len(t) + m
      BY <1>1, <3>1
    <3> QED BY <1>1, <1>3, <2>1, <3>1, <3>2
  <2>2. CASE i \in 1 .. n
    <3>1. from[i] + j \in 1 .. Len(t) /\ t[from[i] + j] = seqs[i][j]
      BY <2>2 DEF Flat
    <3>2. from[i] + j \in 1 .. Len(t) + m
      BY <1>1, <3>1
    <3> QED BY <1>1, <1>3, <2>2, <3>1, <3>2
  <2> QED BY <1>2, <2>1, <2>2
<1>6. ASSUME NEW k \in 1 .. Len(u)
      PROVE  \E i \in 1 .. n + 1 : k - more[i] \in 1 .. Len(seqs[i])
  <2>1. CASE k \in 1 .. Len(t)
    <3>1. PICK i \in 1 .. n : k - from[i] \in 1 .. Len(seqs[i])
      BY <2>1 DEF Flat
    <3> QED BY <1>2, <1>3, <3>1
  <2>2. CASE k \notin 1 .. Len(t)
    <3>1. k - Len(t) \in 1 .. m
      BY <1>1, <2>2
    <3> QED BY <1>2, <1>3, <3>1 DEF m
  <2> QED BY <2>1, <2>2
<1>7. Flat(u, seqs, n + 1, more)
  BY <1>4, <1>5, <1>6 DEF Flat
<1> QED BY <1>7 DEF u

LEMMA FlattenIs ==
  ASSUME NEW S, NEW seqs \in Seq(Seq(S))
  PROVE  /\ FlattenSeq(seqs) \in Seq(S)
         /\ \E from : Flat(FlattenSeq(seqs), seqs, Len(seqs), from)
<1> DEFINE n == Len(seqs)
           flatten[i \in 1 .. Len(seqs)] == IF i = 1 THEN seqs[i] ELSE flatten[i - 1] \o seqs[i]
<1>1. n \in Nat /\ \A i \in 1 .. n : seqs[i] \in Seq(S)
  OBVIOUS
<1>2. CASE n = 0
  <2>1. FlattenSeq(seqs) = seqs /\ seqs = <<>> /\ 1 .. 0 = {}
    BY <1>2 DEF FlattenSeq
  <2>2. Flat(<<>>, seqs, 0, <<>>)
    BY <2>1 DEF Flat
  <2>3. <<>> \in Seq(S)
    OBVIOUS
  <2> QED BY <1>2, <2>1, <2>2, <2>3
<1>3. CASE n # 0
  <2>1. FlattenSeq(seqs) = flatten[n]
    BY <1>3 DEF FlattenSeq
  <2>2. flatten = CHOOSE f : Joins(f, n, seqs)
    BY DEF Joins, Joined
  <2> HIDE DEF flatten, n
  <2>3. Joins(flatten, n, seqs)
    BY <1>1, <2>2, JoinsExist
  <2>4. \A i \in 1 .. n : flatten[i] = Joined(seqs, i, flatten)
    BY <2>3 DEF Joins
  <2> DEFINE Good(i) == flatten[i] \in Seq(S) /\ \E from : Flat(flatten[i], seqs, i, from)
             G == {k \in 0 .. n : k # 0 => Good(k)}
  <2>5. 0 \in G
    BY <1>1
  <2>6. ASSUME NEW k \in 0 .. n, k < n, k \in G PROVE k + 1 \in G
    <3>1. k + 1 \in 1 .. n /\ k + 1 \in 0 .. n /\ (k + 1) - 1 = k /\ k \in Nat
      BY <1>1, <2>6
    <3>2. CASE k = 0
      <4>1. 1 \in 1 .. n /\ k + 1 = 1
        BY <3>1, <3>2
      <4>2. flatten[1] = seqs[1] /\ seqs[1] \in Seq(S)
        BY <1>1, <2>4, <4>1 DEF Joined
      <4>3. Good(1)
        BY <4>2, FlatOne
      <4> QED BY <3>1, <4>1, <4>3
    <3>3. CASE k # 0
      <4>1. flatten[k + 1] = flatten[k] \o seqs[k + 1] /\ seqs[k + 1] \in Seq(S)
        <5>1. k + 1 # 1
          BY <3>1, <3>3
        <5>2. flatten[k + 1] = Joined(seqs, k + 1, flatten)
          BY <2>4, <3>1
        <5> QED BY <1>1, <3>1, <5>1, <5>2 DEF Joined
      <4> DEFINE t == flatten[k]
      <4>2. PICK from : Flat(t, seqs, k, from)
        BY <2>6, <3>3
      <4>3. t \in Seq(S) /\ \A i \in 1 .. k : seqs[i] \in Seq(S)
        <5>1. \A i \in 1 .. k : i \in 1 .. n
          BY <1>1, <2>6
        <5> QED BY <1>1, <2>6, <3>3, <5>1
      <4> HIDE DEF t
      <4>4. \E more : Flat(t \o seqs[k + 1], seqs, k + 1, more)
        BY <3>1, <4>1, <4>2, <4>3, FlatMore
      <4>5. t \o seqs[k + 1] \in Seq(S)
        BY <4>1, <4>3
      <4> QED BY <3>1, <4>1, <4>4, <4>5 DEF t
    <3> QED BY <3>2, <3>3
  <2> HIDE DEF G
  <2>7. n \in G
    BY <1>1, <2>5, <2>6, UpTo
  <2>8. Good(n)
    BY <1>3, <2>7 DEF G
  <2> QED BY <2>1, <2>8 DEF n
<1> QED BY <1>2, <1>3

-----------------------------------------------------------------------------
(***************************************************************************)
(* What is listed below each rollout.                                      *)
(***************************************************************************)
Branch(kids, t) == FlattenSeq([i \in DOMAIN kids |-> <<kids[i]>> \o t[kids[i]]])
Trees(t, F, p, start) == t = [r \in F |-> Branch(Spawned(F, p, start, r), t)]

LEMMA FromTheGreatest ==
  ASSUME NEW m \in Nat, NEW D \in SUBSET (1 .. m), NEW G,
         \A x \in D : (\A y \in D : x < y => y \in G) => x \in G
  PROVE  D \subseteq G
<1> SUFFICES ASSUME ~(D \subseteq G) PROVE FALSE
  OBVIOUS
<1> DEFINE T == {m - x : x \in D \ G}
<1>1. \A x \in D : m - x \in Nat /\ x \in Nat
  OBVIOUS
<1>2. T \in SUBSET Nat /\ T # {}
  BY <1>1
<1>3. PICK a \in T : \A b \in T : a <= b
  BY <1>2, LeastElement
<1>4. PICK x \in D \ G : a = m - x
  BY <1>3
<1>5. ASSUME NEW y \in D, x < y PROVE y \in G
  <2>1. ~(m - x <= m - y)
    BY <1>1, <1>4, <1>5
  <2>2. m - y \notin T
    BY <1>3, <1>4, <2>1
  <2> QED BY <2>2
<1> QED BY <1>4, <1>5

LEMMA BranchSame ==
  ASSUME NEW kids, NEW f, NEW g, \A i \in DOMAIN kids : f[kids[i]] = g[kids[i]]
  PROVE  Branch(kids, f) = Branch(kids, g)
<1>1. [i \in DOMAIN kids |-> <<kids[i]>> \o f[kids[i]]] = [i \in DOMAIN kids |-> <<kids[i]>> \o g[kids[i]]]
  OBVIOUS
<1> QED BY <1>1 DEF Branch

LEMMA KidsAre ==
  ASSUME NEW F, NEW p, Descends(F, p), NEW start, \A x \in F : start[x] \in Nat, NEW r
  PROVE  \A i \in DOMAIN Spawned(F, p, start, r) :
           /\ Spawned(F, p, start, r)[i] \in F
           /\ p[Spawned(F, p, start, r)[i]] = r
           /\ r \in F => r < Spawned(F, p, start, r)[i]
<1> DEFINE s == Spawned(F, p, start, r)
           K == {c \in F : p[c] = r}
<1>1. F \in SUBSET Rollout
  BY DEF Descends
<1>2. Lists(s, K)
  BY <1>1, SpawnedLists
<1> HIDE DEF s
<1>3. s \in Seq(K)
  BY <1>2 DEF Lists
<1>4. \A i \in DOMAIN s : s[i] \in K
  BY <1>3
<1>5. \A c \in K : r \in F => r < c
  BY DEF Descends
<1>6. \A i \in DOMAIN s : s[i] \in F /\ p[s[i]] = r /\ (r \in F => r < s[i])
  BY <1>4, <1>5
<1> QED BY <1>6 DEF s

LEMMA TreesExist ==
  ASSUME NEW F, NEW p, Descends(F, p), NEW start, \A x \in F : start[x] \in Nat
  PROVE  \E t : Trees(t, F, p, start)
<1> DEFINE m == MaxRollout
           U(k) == {y \in F : m - k < y}
           kids(x) == Spawned(F, p, start, x)
           Is(f, D) == f = [x \in D |-> Branch(kids(x), f)]
           G == {k \in 0 .. m : \E f : Is(f, U(k))}
<1>1. m \in Nat /\ \A x \in F : x \in Nat /\ x <= m /\ 0 < x
  <2>1. \A x \in 1 .. m : x \in Nat /\ x <= m /\ 0 < x
    BY RolloutsAre
  <2> QED BY <2>1, RolloutsAre DEF Descends
<1>2. \A x : \A i \in DOMAIN kids(x) : kids(x)[i] \in F /\ (x \in F => x < kids(x)[i])
  BY KidsAre
<1> HIDE DEF m, kids
<1>3. 0 \in G
  <2> DEFINE g == [x \in U(0) |-> {}]
  <2>1. U(0) = {}
    BY <1>1
  <2>2. Is(g, U(0))
    BY <2>1
  <2> HIDE DEF g, Is
  <2> QED BY <1>1, <2>2
<1>4. ASSUME NEW i \in 0 .. m, i < m, i \in G PROVE i + 1 \in G
  <2>1. PICK f : Is(f, U(i))
    BY <1>4
  <2> DEFINE g == [x \in U(i + 1) |-> IF x \in U(i) THEN f[x] ELSE Branch(kids(x), f)]
  <2>2. ASSUME NEW x \in U(i + 1) PROVE g[x] = Branch(kids(x), g)
    <3>1. g[x] = Branch(kids(x), f)
      BY <2>1
    <3>2. ASSUME NEW j \in DOMAIN kids(x) PROVE f[kids(x)[j]] = g[kids(x)[j]]
      <4> DEFINE c == kids(x)[j]
      <4>1. c \in F /\ x < c /\ x \in F
        BY <1>2
      <4> HIDE DEF c
      <4>2. m - (i + 1) < x /\ x \in Nat /\ c \in Nat /\ i \in Nat
        BY <1>1, <4>1
      <4>3. m - i < c /\ m - (i + 1) < c
        BY <1>1, <4>1, <4>2
      <4>4. c \in U(i) /\ c \in U(i + 1)
        BY <4>1, <4>3
      <4>5. g[c] = f[c]
        BY <4>4
      <4> QED BY <4>5 DEF c
    <3> HIDE DEF g, U
    <3>3. Branch(kids(x), f) = Branch(kids(x), g)
      BY <3>2, BranchSame
    <3> QED BY <3>1, <3>3
  <2>3. g = [x \in U(i + 1) |-> g[x]]
    OBVIOUS
  <2> HIDE DEF g, U
  <2>4. Is(g, U(i + 1))
    BY <2>2, <2>3
  <2>5. i + 1 \in 0 .. m
    BY <1>1, <1>4
  <2> QED BY <2>4, <2>5
<1> HIDE DEF G
<1>5. m \in G
  BY <1>1, <1>3, <1>4, UpTo
<1>6. U(m) = F
  BY <1>1
<1> HIDE DEF U
<1>7. \E f : Is(f, F)
  BY <1>5, <1>6 DEF G
<1> QED BY <1>7 DEF Trees, kids

\* s lists what is below r, once each and after its parent.
TreeIs(s, r, F, L, p) ==
  /\ s \in Seq(F)
  /\ \A k \in 1 .. Len(s) : s[k] # r /\ r \in L[s[k]]
  /\ \A x \in F : x # r /\ r \in L[x] => \E k \in 1 .. Len(s) : s[k] = x
  /\ \A k, l \in 1 .. Len(s) : s[k] = s[l] => k = l
  /\ \A k \in 1 .. Len(s) : p[s[k]] = r \/ \E j \in 1 .. k - 1 : s[j] = p[s[k]]

\* q lists c and then what is below c.
TwigIs(q, c, F, L, p) ==
  /\ q \in Seq(F)
  /\ \A k \in 1 .. Len(q) : c \in L[q[k]]
  /\ \A x \in F : c \in L[x] => \E k \in 1 .. Len(q) : q[k] = x
  /\ \A k, l \in 1 .. Len(q) : q[k] = q[l] => k = l
  /\ \A k \in 1 .. Len(q) : q[k] = c \/ \E j \in 1 .. k - 1 : q[j] = p[q[k]]

LEMMA TwigGrows ==
  ASSUME NEW F, NEW p, Descends(F, p), NEW L, Lines(L, F, p),
         NEW c \in F, NEW s, TreeIs(s, c, F, L, p)
  PROVE  TwigIs(<<c>> \o s, c, F, L, p)
<1> DEFINE q == <<c>> \o s
           n == Len(s)
<1>1. s \in Seq(F) /\ <<c>> \in Seq(F) /\ Len(<<c>>) = 1 /\ <<c>>[1] = c
  BY DEF TreeIs
<1>2. /\ q \in Seq(F) /\ Len(q) = 1 + n /\ n \in Nat
      /\ q[1] = c /\ \A i \in 1 .. n : q[1 + i] = s[i]
  BY <1>1, SeqConcat
<1>3. c \in L[c]
  BY LineHas
<1> HIDE DEF q
<1>4. \A k \in 1 .. Len(q) : k = 1 \/ (k - 1 \in 1 .. n /\ q[k] = s[k - 1])
  <2>1. TAKE k \in 1 .. Len(q)
  <2>2. k = 1 \/ (k - 1 \in 1 .. n /\ 1 + (k - 1) = k)
    BY <1>2
  <2> QED BY <1>2, <2>2
<1>5. 1 \in 1 .. Len(q) /\ \A i \in 1 .. n : 1 + i \in 1 .. Len(q) /\ i \in Nat
  BY <1>2
<1>6. /\ \A k \in 1 .. n : s[k] # c /\ c \in L[s[k]]
      /\ \A x \in F : x # c /\ c \in L[x] => \E k \in 1 .. n : s[k] = x
      /\ \A k, l \in 1 .. n : s[k] = s[l] => k = l
      /\ \A k \in 1 .. n : p[s[k]] = c \/ \E j \in 1 .. k - 1 : s[j] = p[s[k]]
  BY DEF TreeIs
<1> HIDE DEF n
<1>7. \A k \in 1 .. Len(q) : c \in L[q[k]]
  BY <1>2, <1>3, <1>4, <1>6
<1>8. \A x \in F : c \in L[x] => \E k \in 1 .. Len(q) : q[k] = x
  BY <1>2, <1>5, <1>6
<1>9. ASSUME NEW k \in 1 .. Len(q), NEW l \in 1 .. Len(q), q[k] = q[l] PROVE k = l
  <2>1. CASE k = 1 /\ l = 1
    BY <2>1
  <2>2. CASE k - 1 \in 1 .. n /\ l - 1 \in 1 .. n /\ q[k] = s[k - 1] /\ q[l] = s[l - 1]
    <3>1. k - 1 = l - 1
      BY <1>6, <1>9, <2>2
    <3>2. k \in Nat /\ l \in Nat
      BY <1>2
    <3> QED BY <3>1, <3>2
  <2>3. CASE k = 1 /\ l - 1 \in 1 .. n /\ q[l] = s[l - 1]
    BY <1>2, <1>6, <1>9, <2>3
  <2>4. CASE l = 1 /\ k - 1 \in 1 .. n /\ q[k] = s[k - 1]
    BY <1>2, <1>6, <1>9, <2>4
  <2> QED BY <1>4, <2>1, <2>2, <2>3, <2>4
<1>10. ASSUME NEW k \in 1 .. Len(q) PROVE q[k] = c \/ \E j \in 1 .. k - 1 : q[j] = p[q[k]]
  <2>1. CASE k = 1
    BY <1>2, <2>1
  <2>2. CASE k - 1 \in 1 .. n /\ q[k] = s[k - 1]
    <3>1. k \in Nat /\ 1 \in 1 .. k - 1
      BY <1>2, <2>2
    <3>2. CASE p[q[k]] = c
      BY <1>2, <3>1, <3>2
    <3>3. CASE p[q[k]] # c
      <4>1. PICK j \in 1 .. (k - 1) - 1 : s[j] = p[s[k - 1]]
        BY <1>6, <2>2, <3>3
      <4>2. j \in 1 .. n /\ 1 + j \in 1 .. k - 1
        BY <1>2, <2>2, <3>1
      <4> QED BY <1>2, <2>2, <4>1, <4>2
    <3> QED BY <3>2, <3>3
  <2> QED BY <1>4, <2>1, <2>2
<1>11. TwigIs(q, c, F, L, p)
  BY <1>2, <1>7, <1>8, <1>9, <1>10 DEF TwigIs
<1> QED BY <1>11 DEF q

\* The twigs of r's children, one behind the other, are what is below r.
LEMMA TwigsMakeTree ==
  ASSUME NEW F, NEW p, Descends(F, p), NEW L, Lines(L, F, p), NEW r \in F,
         NEW kids, Lists(kids, {c \in F : p[c] = r}),
         NEW seqs, NEW s, s \in Seq(F), NEW from, Flat(s, seqs, Len(kids), from),
         \A i \in 1 .. Len(kids) : TwigIs(seqs[i], kids[i], F, L, p)
  PROVE  TreeIs(s, r, F, L, p)
<1> DEFINE K == {c \in F : p[c] = r}
           n == Len(kids)
<1>1. kids \in Seq(K) /\ n \in Nat /\ \A i \in 1 .. n : kids[i] \in K
  BY DEF Lists
<1>2. /\ \A c \in K : \E i \in 1 .. n : kids[i] = c
      /\ \A i, j \in 1 .. n : kids[i] = kids[j] => i = j
  BY DEF Lists
<1>3. \A i \in 1 .. n : kids[i] \in F /\ p[kids[i]] = r
  BY <1>1
<1>4. \A i \in 1 .. n : \A a \in 1 .. Len(seqs[i]) :
        /\ seqs[i][a] \in F /\ kids[i] \in L[seqs[i][a]]
        /\ a \in Nat
        /\ seqs[i][a] = kids[i] \/ \E b \in 1 .. a - 1 : seqs[i][b] = p[seqs[i][a]]
  <2>1. TAKE i \in 1 .. n
  <2>2. TAKE a \in 1 .. Len(seqs[i])
  <2>3. seqs[i] \in Seq(F)
    BY DEF TwigIs
  <2>4. a \in Nat /\ seqs[i][a] \in F
    BY <2>3
  <2> QED BY <2>4 DEF TwigIs
<1> HIDE DEF K, n
\* Where each place of s is.
<1>5. ASSUME NEW k \in 1 .. Len(s)
      PROVE  \E i \in 1 .. n : \E a \in 1 .. Len(seqs[i]) :
               k = from[i] + a /\ s[k] = seqs[i][a] /\ from[i] \in Nat /\ k \in Nat
  <2>1. PICK i \in 1 .. n : k - from[i] \in 1 .. Len(seqs[i])
    BY DEF Flat, n
  <2> DEFINE a == k - from[i]
  <2>2. from[i] \in Nat /\ k \in Nat
    BY DEF Flat, n
  <2>3. k = from[i] + a /\ a \in 1 .. Len(seqs[i])
    BY <2>1, <2>2
  <2> HIDE DEF a
  <2>4. s[from[i] + a] = seqs[i][a]
    BY <2>3 DEF Flat, n
  <2> QED BY <2>2, <2>3, <2>4
<1>6. ASSUME NEW i \in 1 .. n, NEW a \in 1 .. Len(seqs[i])
      PROVE  from[i] + a \in 1 .. Len(s) /\ s[from[i] + a] = seqs[i][a]
  BY DEF Flat, n
<1>7. ASSUME NEW k \in 1 .. Len(s) PROVE s[k] # r /\ r \in L[s[k]]
  <2>1. PICK i \in 1 .. n : \E a \in 1 .. Len(seqs[i]) : s[k] = seqs[i][a]
    BY <1>5
  <2> DEFINE c == kids[i]
             y == s[k]
  <2>2. c \in F /\ p[c] = r /\ y \in F /\ c \in L[y]
    BY <1>3, <1>4, <2>1
  <2> HIDE DEF c, y
  <2>3. r \in L[c] /\ r < c
    <3>1. L[c] = {c} \cup L[r] /\ r \in L[r]
      BY <2>2, LineIs, LineHas
    <3> QED BY <2>2, <3>1 DEF Descends
  <2>4. c <= y /\ L[c] \subseteq L[y]
    BY <2>2, LineHas
  <2>5. r \in Nat /\ c \in Nat
    BY <2>2, RolloutsAre DEF Descends
  <2>6. y # r /\ r \in L[y]
    BY <2>3, <2>4, <2>5
  <2> QED BY <2>6 DEF y
<1>8. ASSUME NEW x \in F, x # r, r \in L[x] PROVE \E k \in 1 .. Len(s) : s[k] = x
  <2>1. PICK c \in L[x] : p[c] = r
    BY <1>8, LineHas
  <2>2. c \in K
    BY <2>1, LineHas DEF K
  <2>3. PICK i \in 1 .. n : kids[i] = c
    BY <1>2, <2>2
  <2>4. PICK a \in 1 .. Len(seqs[i]) : seqs[i][a] = x
    BY <2>1, <2>3 DEF TwigIs, n
  <2> QED BY <1>6, <2>4
<1>9. ASSUME NEW k \in 1 .. Len(s), NEW l \in 1 .. Len(s), s[k] = s[l] PROVE k = l
  <2>1. PICK i \in 1 .. n : \E a \in 1 .. Len(seqs[i]) :
               k = from[i] + a /\ s[k] = seqs[i][a] /\ from[i] \in Nat /\ k \in Nat
    BY <1>5
  <2>2. PICK a \in 1 .. Len(seqs[i]) : k = from[i] + a /\ s[k] = seqs[i][a]
    BY <2>1
  <2>3. PICK j \in 1 .. n : \E b \in 1 .. Len(seqs[j]) :
               l = from[j] + b /\ s[l] = seqs[j][b] /\ from[j] \in Nat /\ l \in Nat
    BY <1>5
  <2>4. PICK b \in 1 .. Len(seqs[j]) : l = from[j] + b /\ s[l] = seqs[j][b]
    BY <2>3
  <2> DEFINE y == s[k]
  <2>5. y \in F /\ kids[i] \in L[y] /\ kids[j] \in L[y]
    BY <1>4, <1>9, <2>2, <2>4
  <2> HIDE DEF y
  <2>6. kids[i] = kids[j]
    <3> DEFINE ki == kids[i]
               kj == kids[j]
    <3>1. p[ki] = r /\ p[kj] = r /\ ki \in L[y] /\ kj \in L[y]
      BY <1>3, <2>5
    <3> HIDE DEF ki, kj
    <3>2. ki = kj
      BY <2>5, <3>1, OneChildInLine
    <3> QED BY <3>2 DEF ki, kj
  <2>7. i = j
    BY <1>2, <2>6
  <2>8. a = b
    BY <1>9, <2>2, <2>4, <2>7 DEF TwigIs, n
  <2> QED BY <2>2, <2>4, <2>7, <2>8
<1>10. ASSUME NEW k \in 1 .. Len(s) PROVE p[s[k]] = r \/ \E j \in 1 .. k - 1 : s[j] = p[s[k]]
  <2>1. PICK i \in 1 .. n : \E a \in 1 .. Len(seqs[i]) :
               k = from[i] + a /\ s[k] = seqs[i][a] /\ from[i] \in Nat /\ k \in Nat
    BY <1>5
  <2>2. PICK a \in 1 .. Len(seqs[i]) : k = from[i] + a /\ s[k] = seqs[i][a]
    BY <2>1
  <2>3. CASE seqs[i][a] = kids[i]
    BY <1>3, <2>2, <2>3
  <2>4. CASE seqs[i][a] # kids[i]
    <3>1. PICK b \in 1 .. a - 1 : seqs[i][b] = p[seqs[i][a]]
      BY <1>4, <2>4
    <3>2. a \in Nat /\ seqs[i] \in Seq(F)
      BY <1>4 DEF TwigIs, n
    <3>3. b \in 1 .. Len(seqs[i])
      BY <3>2
    <3>4. s[from[i] + b] = p[s[k]] /\ from[i] + b \in 1 .. Len(s)
      BY <1>6, <2>2, <3>1, <3>3
    <3>5. from[i] + b \in 1 .. k - 1
      <4>1. b \in Nat /\ 1 <= b /\ b < a
        BY <3>2
      <4> QED BY <2>1, <2>2, <3>2, <4>1
    <3> QED BY <3>4, <3>5
  <2> QED BY <2>3, <2>4
<1> QED BY <1>7, <1>8, <1>9, <1>10 DEF TreeIs

LEMMA TreesAre ==
  ASSUME NEW F, NEW p, Descends(F, p), NEW start, \A x \in F : start[x] \in Nat,
         NEW L, Lines(L, F, p), NEW t, Trees(t, F, p, start)
  PROVE  \A r \in F : TreeIs(t[r], r, F, L, p)
<1> DEFINE G == {r \in F : TreeIs(t[r], r, F, L, p)}
<1>1. MaxRollout \in Nat /\ F \in SUBSET (1 .. MaxRollout)
  BY RolloutsAre DEF Descends, Rollout
<1>2. ASSUME NEW r \in F, \A y \in F : r < y => y \in G PROVE r \in G
  <2> DEFINE kids == Spawned(F, p, start, r)
             seqs == [i \in DOMAIN kids |-> <<kids[i]>> \o t[kids[i]]]
  <2>1. t[r] = FlattenSeq(seqs)
    BY DEF Trees, Branch
  <2>2. Lists(kids, {c \in F : p[c] = r})
    BY SpawnedLists DEF Descends
  <2>3. \A i \in DOMAIN kids : kids[i] \in F /\ kids[i] \in G
    BY <1>2, KidsAre
  <2> HIDE DEF kids, G
  <2>4. DOMAIN kids = 1 .. Len(kids) /\ Len(kids) \in Nat
    BY <2>2 DEF Lists
  <2>5. ASSUME NEW i \in 1 .. Len(kids) PROVE TwigIs(seqs[i], kids[i], F, L, p)
    <3> DEFINE c == kids[i]
    <3>1. c \in F /\ TreeIs(t[c], c, F, L, p)
      BY <2>3, <2>4 DEF G
    <3>2. seqs[i] = <<c>> \o t[c]
      BY <2>4
    <3> HIDE DEF c, seqs
    <3>3. TwigIs(<<c>> \o t[c], c, F, L, p)
      BY <3>1, TwigGrows
    <3> QED BY <3>2, <3>3 DEF c
  <2>6. DOMAIN seqs = 1 .. Len(kids)
    BY <2>4
  <2>7. seqs \in Seq(Seq(F)) /\ Len(seqs) = Len(kids)
    <3>1. \A i \in 1 .. Len(kids) : seqs[i] \in Seq(F)
      BY <2>5 DEF TwigIs
    <3>2. seqs = [i \in 1 .. Len(kids) |-> seqs[i]]
      BY <2>4
    <3> HIDE DEF seqs
    <3>3. seqs \in [1 .. Len(kids) -> Seq(F)]
      BY <3>1, <3>2
    <3> QED BY <2>4, <2>6, <3>3
  <2> HIDE DEF seqs
  <2> DEFINE s == FlattenSeq(seqs)
  <2>8. s \in Seq(F) /\ \E from : Flat(s, seqs, Len(kids), from)
    BY <2>7, FlattenIs
  <2> HIDE DEF s
  <2>9. TreeIs(s, r, F, L, p)
    BY <2>2, <2>5, <2>8, TwigsMakeTree
  <2> QED BY <2>1, <2>9 DEF s, G
<1> HIDE DEF G
<1>3. F \subseteq G
  BY <1>1, <1>2, FromTheGreatest
<1> QED BY <1>3 DEF G

\* Below a session stands what came from it, once each and after its parent;
\* below a child that is a row of its own, nothing.
LEMMA BelowIs ==
  ASSUME NEW F, NEW p, Descends(F, p), NEW start, \A x \in F : start[x] \in Nat,
         NEW L, Lines(L, F, p), NEW s \in F
  PROVE  IF p[s] = None THEN TreeIs(Below(F, p, start, s), s, F, L, p)
         ELSE Below(F, p, start, s) = <<>>
<1> DEFINE tree[r \in F] ==
             LET kids == Spawned(F, p, start, r)
             IN FlattenSeq([i \in DOMAIN kids |-> <<kids[i]>> \o tree[kids[i]]])
<1>1. Below(F, p, start, s) = IF p[s] = None THEN tree[s] ELSE <<>>
  BY DEF Below
<1>2. tree = CHOOSE t : Trees(t, F, p, start)
  BY DEF Trees, Branch
<1> HIDE DEF tree
<1>3. Trees(tree, F, p, start)
  BY <1>2, TreesExist
<1>4. TreeIs(tree[s], s, F, L, p)
  BY <1>3, TreesAre
<1> QED BY <1>1, <1>4

-----------------------------------------------------------------------------
(***************************************************************************)
(* Every rollout of a poll has its place in the result.                    *)
(***************************************************************************)
LEMMA RootsLine ==
  ASSUME NEW F, NEW p, Descends(F, p), NEW L, Lines(L, F, p), NEW s \in F, p[s] = None
  PROVE  L[s] = {s}
<1>1. None \notin F
  BY RolloutsAre DEF Descends
<1> QED BY <1>1, LineIs

\* A line that reaches a root in all rollouts, and stays in F, does so in F.
LEMMA WholeLine ==
  ASSUME NEW p \in [Rollout -> Rollout \cup {None}], Descends(Rollout, p),
         NEW A, Lines(A, Rollout, p),
         NEW F \in SUBSET Rollout, Descends(F, p), NEW L, Lines(L, F, p)
  PROVE  \A r \in Rollout : A[r] \subseteq F => \E y \in L[r] : p[y] = None
<1> DEFINE G == {r \in Rollout : A[r] \subseteq F => \E y \in L[r] : p[y] = None}
<1>1. ASSUME NEW r \in Rollout, \A y \in Rollout : y < r => y \in G PROVE r \in G
  <2> SUFFICES ASSUME A[r] \subseteq F PROVE \E y \in L[r] : p[y] = None
    OBVIOUS
  <2>1. A[r] = {r} \cup (IF p[r] \in Rollout THEN A[p[r]] ELSE {})
    BY LineIs
  <2>2. r \in F /\ r \in L[r] /\ L[r] = {r} \cup (IF p[r] \in F THEN L[p[r]] ELSE {})
    <3>1. r \in F
      BY <2>1
    <3> QED BY <3>1, LineIs, LineHas
  <2>3. CASE p[r] = None
    BY <2>2, <2>3
  <2>4. CASE p[r] # None
    <3> DEFINE q == p[r]
    <3>1. q \in Rollout /\ q < r /\ A[r] = {r} \cup A[q]
      BY <2>1, <2>4 DEF Descends
    <3>2. q \in F
      <4>1. q \in A[q]
        BY <3>1, LineHas
      <4> QED BY <3>1, <4>1
    <3>3. L[r] = {r} \cup L[q]
      BY <2>2, <3>2
    <3> HIDE DEF q
    <3>4. \E y \in L[q] : p[y] = None
      BY <1>1, <3>1
    <3> QED BY <3>3, <3>4
  <2> QED BY <2>3, <2>4
<1> HIDE DEF G
<1>2. Rollout \subseteq G
  <2>1. Rollout \in SUBSET Nat
    BY RolloutsAre
  <2> QED BY <1>1, <2>1, FromTheLeast
<1> QED BY <1>2 DEF G

\* What is listed below s, as a set: all whose line passes s but s itself.
LEMMA TreeHas ==
  ASSUME NEW F, NEW p, Descends(F, p), NEW L, Lines(L, F, p), NEW r \in F,
         NEW s, TreeIs(s, r, F, L, p)
  PROVE  /\ ToSet(s) = {x \in F : x # r /\ r \in L[x]}
         /\ Len(s) \in 0 .. MaxRollout
<1> DEFINE n == Len(s)
<1>1. s \in Seq(F) /\ n \in Nat /\ DOMAIN s = 1 .. n /\ \A k \in 1 .. n : s[k] \in F
  BY DEF TreeIs
<1>2. ToSet(s) = {s[k] : k \in DOMAIN s}
  BY DEF ToSet
<1>3. ToSet(s) = {x \in F : x # r /\ r \in L[x]}
  BY <1>1, <1>2 DEF TreeIs
<1>4. F \in SUBSET Rollout
  BY DEF Descends
<1>5. s \in Injection(1 .. n, Rollout)
  <2>1. s \in [1 .. n -> Rollout]
    BY <1>1, <1>4
  <2>2. \A k, l \in 1 .. n : s[k] = s[l] => k = l
    BY DEF TreeIs
  <2> QED BY <2>1, <2>2 DEF Injection, IsInjective
<1> HIDE DEF n
<1>6. n <= MaxRollout
  <2>1. IsFiniteSet(1 .. n) /\ Cardinality(1 .. n) = n
    <3>1. IsFiniteSet(1 .. n) /\ Cardinality(1 .. n) = IF 1 > n THEN 0 ELSE n - 1 + 1
      BY <1>1, FS_Interval
    <3> QED BY <1>1, <3>1
  <2>2. Cardinality(1 .. n) <= Cardinality(Rollout)
    BY <1>5, <2>1, RolloutsAre, FS_Injection
  <2> QED BY <2>1, <2>2, RolloutsAre
<1> QED BY <1>1, <1>3, <1>6, RolloutsAre DEF n

\* The lines of what is listed below s, which end before s.
LEMMA DepthBelow ==
  ASSUME NEW F, NEW p, Descends(F, p), NEW L, Lines(L, F, p), NEW s \in F, NEW r \in F,
         NEW D, D = {x \in F : x # s /\ s \in L[x]}, r \in D
  PROVE  IF p[r] = s THEN Depth(D, p, s, r) = 0
         ELSE p[r] \in D /\ Depth(D, p, s, r) = Depth(D, p, s, p[r]) + 1
<1>1. s \notin D /\ Descends(D, p)
  BY DEF Descends
<1>2. PICK M : Lines(M, D, p)
  BY <1>1, LinesExist
<1>3. \A c \in D : Depth(D, p, s, c) = Cardinality(M[c]) - 1
  BY <1>1, <1>2, DepthIs
<1>4. CASE p[r] = s
  <2>1. Cardinality(M[r]) = 1
    BY <1>1, <1>2, <1>4, LineLength
  <2> QED BY <1>3, <1>4, <2>1
<1>5. CASE p[r] # s
  <2>1. L[r] = {r} \cup (IF p[r] \in F THEN L[p[r]] ELSE {})
    BY LineIs
  <2>2. p[r] \in D
    BY <1>5, <2>1
  <2> DEFINE a == Cardinality(M[r])
             b == Cardinality(M[p[r]])
  <2>3. a = b + 1 /\ b \in 1 .. Cardinality(D) /\ Cardinality(D) \in Nat
    BY <1>1, <1>2, <2>2, LineLength
  <2>4. Depth(D, p, s, r) = a - 1 /\ Depth(D, p, s, p[r]) = b - 1
    BY <1>3, <2>2
  <2> HIDE DEF a, b
  <2>5. a - 1 = (b - 1) + 1
    BY <2>3
  <2> QED BY <1>5, <2>2, <2>4, <2>5
<1> QED BY <1>4, <1>5

\* A parent is there before its children are.
Parents == Descends(Rollout, parent)

LEMMA ParentsNext == Inv /\ Parents /\ [Next]_vars => Parents'
<1> SUFFICES ASSUME Inv, Parents, [Next]_vars PROVE Parents'
  OBVIOUS
<1>1. Types /\ parent \in [Rollout -> Rollout \cup {None}]
  BY DEF Inv, Types
<1>2. ASSUME NEW d, NEW q \in Exists \cup {None}, Add(d, q) PROVE Parents'
  <2> DEFINE n == count + 1
  <2>1. n \in Rollout
    BY <1>1, <1>2, ExistsAre DEF Add, Rollout
  <2>2. q \in Rollout => q < n
    <3>1. None \notin Rollout
      BY RolloutsAre
    <3> QED BY <1>1, <3>1, ExistsAre
  <2>3. parent' = [parent EXCEPT ![n] = q]
    BY <1>2 DEF Add
  <2> HIDE DEF n
  <2>4. \A x \in Rollout : parent'[x] = IF x = n THEN q ELSE parent[x]
    BY <1>1, <2>1, <2>3
  <2> QED BY <2>1, <2>2, <2>4 DEF Parents, Descends
<1>3. CASE UNCHANGED parent
  BY <1>3 DEF Parents
<1>4. CASE Tick
  BY <1>3, <1>4 DEF Tick, disk
<1>5. CASE Cycle
  BY <1>3, <1>5 DEF Cycle, Poll, disk
<1>6. CASE \E p \in Pid : Exit(p) \/ Begin(p)
  <2>1. PICK p \in Pid : Exit(p) \/ Begin(p)
    BY <1>6
  <2>2. CASE Exit(p)
    BY <1>3, <2>2 DEF Exit, disk
  <2>3. CASE Begin(p)
    BY <1>2, <2>3 DEF Begin
  <2> QED BY <2>1, <2>2, <2>3
<1>7. CASE \E p \in Pid, d \in Dir, is \in {"codex", "daemon"} : Launch(p, d, is)
  BY <1>3, <1>7 DEF Launch, disk
<1>8. CASE \E p \in Pid, r \in Exists : Spawn(p, r) \/ Write(p, r) \/ Resume(p, r)
  <2>1. PICK p \in Pid, r \in Exists : Spawn(p, r) \/ Write(p, r) \/ Resume(p, r)
    BY <1>8
  <2>2. CASE Spawn(p, r)
    BY <1>2, <2>2 DEF Spawn
  <2>3. CASE Write(p, r) \/ Resume(p, r)
    BY <1>3, <2>3 DEF Write, Resume, Touch
  <2> QED BY <2>1, <2>2, <2>3
<1>9. CASE UNCHANGED vars
  BY <1>3, <1>9 DEF vars, disk
<1> QED BY <1>4, <1>5, <1>6, <1>7, <1>8, <1>9 DEF Next

LEMMA AlwaysParents == Spec => []Parents
<1>1. Init => Parents
  <2> SUFFICES ASSUME Init PROVE Parents
    OBVIOUS
  <2>1. None \notin Rollout /\ \A x \in Rollout : parent[x] = None
    BY RolloutsAre DEF Init
  <2> QED BY <2>1 DEF Parents, Descends
<1> QED BY <1>1, ParentsNext, AlwaysInv, PTL DEF Spec

\* c is at place k below s, after its parent q and one deeper.
StandsAt(c, q, s, k) ==
  LET D == ToSet(Below(sessions, parent, meta, s))
  IN IF q = s THEN Depth(D, parent, s, c) = 0
     ELSE /\ Depth(D, parent, s, c) = Depth(D, parent, s, q) + 1
          /\ \E i \in 1 .. k - 1 : <<s, i>> \in Places(q)

LEMMA PlaceIs ==
  ASSUME NEW r
  PROVE  /\ \A s, k : <<s, k>> \in Places(r) <=>
              /\ s \in Rows(sessions, parent) /\ k \in 1 .. MaxRollout
              /\ k <= Len(Below(sessions, parent, meta, s))
              /\ Below(sessions, parent, meta, s)[k] = r
         /\ \A place \in Places(r) : \E s, k : place = <<s, k>>
BY DEF Places

LEMMA StandsBehind ==
  ASSUME NEW q, NEW c, NEW s, NEW k, <<s, k>> \in Places(c), StandsAt(c, q, s, k)
  PROVE  Behind(q, c)
<1> DEFINE place == <<s, k>>
<1>1. place \in Places(c) /\ place[1] = s /\ place[2] = k
  OBVIOUS
<1> HIDE DEF place
<1> QED BY <1>1 DEF Behind, StandsAt

LEMMA NoneLost == Inv /\ Parents => NoChildLost
<1> SUFFICES ASSUME Inv, Parents, NEW r \in sessions
             PROVE  IF r \in Rows(sessions, parent)
                    THEN Places(r) = {} /\ (Root(r) \/ ChainBroken(r))
                    ELSE Cardinality(Places(r)) = 1 /\ Behind(parent[r], r)
  BY DEF NoChildLost
<1> DEFINE F == sessions
           p == parent
<1>1. /\ F \in SUBSET Rollout /\ p \in [Rollout -> Rollout \cup {None}]
      /\ \A x \in F : meta[x] \in Nat
  <2>1. Types /\ sessions \subseteq Exists
    BY DEF Inv, Types
  <2> QED BY <2>1, ExistsAre DEF Types
<1>2. Descends(Rollout, p) /\ Descends(F, p)
  BY <1>1 DEF Parents, Descends
<1>3. PICK L : Lines(L, F, p)
  BY <1>2, LinesExist
<1>4. \A s \in F : IF p[s] = None THEN TreeIs(Below(F, p, meta, s), s, F, L, p)
                   ELSE Below(F, p, meta, s) = <<>>
  BY <1>1, <1>2, <1>3, BelowIs
<1>5. \A c \in F : RootInLine(WalkToRoot(F, p, c), c, L, p)
  BY <1>2, <1>3, WalkEnds
<1>6. \A s \in F : p[s] = None => L[s] = {s}
  BY <1>2, <1>3, RootsLine
<1>7. \A s : s \in Rows(F, p) <=> s \in F /\ WalkToRoot(F, p, s) \in {s, None}
  BY DEF Rows
<1>8. None \notin F
  BY <1>1, RolloutsAre
<1>9. \A c \in F : /\ L[c] \in SUBSET F /\ c \in L[c]
                   /\ \A y, z \in L[c] : y \in L[z] \/ z \in L[y]
  BY <1>2, <1>3, LineHas
\* Who is listed below whom.
<1>10. ASSUME NEW s, NEW k, <<s, k>> \in Places(r)
       PROVE  /\ s \in F /\ p[s] = None /\ r # s /\ s \in L[r]
              /\ TreeIs(Below(F, p, meta, s), s, F, L, p)
              /\ k \in 1 .. Len(Below(F, p, meta, s)) /\ Below(F, p, meta, s)[k] = r
  <2> DEFINE B == Below(F, p, meta, s)
  <2>1. s \in F /\ k \in 1 .. MaxRollout /\ k <= Len(B) /\ B[k] = r
    BY <1>7, <1>10, PlaceIs
  <2>2. p[s] = None /\ TreeIs(B, s, F, L, p)
    <3>1. B # <<>>
      <4>1. Len(<<>>) = 0 /\ MaxRollout \in Nat
        BY RolloutsAre
      <4> QED BY <2>1, <4>1
    <3> QED BY <1>4, <2>1, <3>1
  <2> HIDE DEF B
  <2>3. k \in 1 .. Len(B)
    <3>1. Len(B) \in Nat /\ MaxRollout \in Nat
      BY <2>2, RolloutsAre DEF TreeIs
    <3> QED BY <2>1, <3>1
  <2>4. r # s /\ s \in L[r]
    BY <2>1, <2>2, <2>3 DEF TreeIs
  <2> QED BY <2>1, <2>2, <2>3, <2>4 DEF B
<1> DEFINE w == WalkToRoot(F, p, r)
<1>11. RootInLine(w, r, L, p)
  BY <1>5
<1> HIDE DEF w
<1>12. CASE r \in Rows(F, p)
  <2>1. w \in {r, None}
    BY <1>7, <1>12 DEF w
  <2>2. Places(r) = {}
    <3> SUFFICES ASSUME NEW place \in Places(r) PROVE FALSE
      OBVIOUS
    <3>1. PICK s, k : place = <<s, k>>
      BY PlaceIs
    <3>2. s \in F /\ p[s] = None /\ r # s /\ s \in L[r]
      BY <1>10, <3>1
    <3>3. w = s
      BY <1>11, <3>2 DEF RootInLine
    <3> QED BY <1>8, <2>1, <3>2, <3>3
  <2>3. CASE w = r
    <3>1. Root(r)
      BY <1>8, <1>11, <2>3 DEF RootInLine, Root
    <3> QED BY <1>12, <2>2, <3>1
  <2>4. CASE w = None
    <3> DEFINE above[q \in Rollout] == IF Root(q) THEN {q} ELSE {q} \cup above[parent[q]]
    <3>1. ChainBroken(r) <=> ~(above[r] \subseteq sessions)
      BY DEF ChainBroken
    <3>2. above = CHOOSE A : A = [q \in Rollout |-> IF Root(q) THEN {q} ELSE {q} \cup A[parent[q]]]
      OBVIOUS
    <3> HIDE DEF above
    <3>3. \A A : Lines(A, Rollout, p) <=>
                 A = [q \in Rollout |-> IF Root(q) THEN {q} ELSE {q} \cup A[parent[q]]]
      <4>1. TAKE A
      <4>2. \A q \in Rollout : Line(q, A, Rollout, p) = IF Root(q) THEN {q} ELSE {q} \cup A[parent[q]]
        <5>1. None \notin Rollout
          BY RolloutsAre
        <5> QED BY <1>1, <5>1 DEF Line, Root
      <4> QED BY <4>2 DEF Lines
    <3>4. Lines(above, Rollout, p)
      <4>1. \E A : Lines(A, Rollout, p)
        BY <1>2, LinesExist
      <4> QED BY <3>2, <3>3, <4>1
    <3>5. ~(above[r] \subseteq F)
      <4>1. \A y \in L[r] : p[y] # None
        BY <1>8, <1>9, <1>11, <2>4 DEF RootInLine
      <4>2. r \in Rollout
        BY <1>1
      <4>3. above[r] \subseteq F => \E y \in L[r] : p[y] = None
        BY <1>1, <1>2, <1>3, <3>4, <4>2, WholeLine
      <4> QED BY <4>1, <4>3
    <3> QED BY <1>12, <2>2, <3>1, <3>5
  <2> QED BY <2>1, <2>3, <2>4
<1>13. CASE r \notin Rows(F, p)
  <2>1. w # r /\ w # None
    BY <1>7, <1>13 DEF w
  <2>2. w \in L[r] /\ p[w] = None /\ w \in F
    BY <1>9, <1>11, <2>1 DEF RootInLine
  <2> DEFINE B == Below(F, p, meta, w)
             D == ToSet(B)
  <2>3. TreeIs(B, w, F, L, p)
    BY <1>4, <2>2
  <2>4. w \in Rows(F, p)
    <3>1. L[w] = {w} /\ RootInLine(WalkToRoot(F, p, w), w, L, p)
      BY <1>5, <1>6, <2>2
    <3>2. WalkToRoot(F, p, w) \in {w, None}
      BY <3>1 DEF RootInLine
    <3> QED BY <1>7, <2>2, <3>2
  <2>5. \A c : \A k \in 1 .. Len(B) : B[k] = c => <<w, k>> \in Places(c)
    <3> HIDE DEF B
    <3>1. Len(B) \in 0 .. MaxRollout
      BY <1>2, <1>3, <2>2, <2>3, TreeHas
    <3>2. MaxRollout \in Nat
      BY RolloutsAre
    <3>3. \A k \in 1 .. Len(B) : k \in 1 .. MaxRollout /\ k <= Len(B)
      BY <3>1, <3>2
    <3> QED BY <2>4, <3>3, PlaceIs DEF B
  <2>6. D = {x \in F : x # w /\ w \in L[x]}
    <3> HIDE DEF B
    <3> QED BY <1>2, <1>3, <2>2, <2>3, TreeHas
  <2>7. PICK k \in 1 .. Len(B) : B[k] = r
    BY <2>1, <2>2, <2>3 DEF TreeIs
  <2>8. Places(r) = {<<w, k>>}
    <3>1. <<w, k>> \in Places(r)
      BY <2>5, <2>7
    <3>2. ASSUME NEW place \in Places(r) PROVE place = <<w, k>>
      <4>1. PICK s, l : place = <<s, l>>
        BY PlaceIs
      <4>2. /\ s \in F /\ p[s] = None /\ s \in L[r]
            /\ l \in 1 .. Len(Below(F, p, meta, s)) /\ Below(F, p, meta, s)[l] = r
        BY <1>10, <3>2, <4>1
      <4>3. s = w
        BY <1>11, <2>1, <4>2 DEF RootInLine
      <4>4. l = k
        BY <2>3, <2>7, <4>2, <4>3 DEF TreeIs
      <4> QED BY <4>1, <4>3, <4>4
    <3> QED BY <3>1, <3>2
  <2>9. Cardinality(Places(r)) = 1
    BY <2>8, FS_Singleton
  <2>10. StandsAt(r, p[r], w, k)
    <3> DEFINE q == p[r]
    <3>1. r \in D
      BY <2>1, <2>2, <2>6
    <3>2. IF q = w THEN Depth(D, p, w, r) = 0
          ELSE q \in D /\ Depth(D, p, w, r) = Depth(D, p, w, q) + 1
      <4> HIDE DEF D
      <4> QED BY <1>2, <1>3, <2>2, <2>6, <3>1, DepthBelow
    <3>3. q # w => \E j \in 1 .. k - 1 : <<w, j>> \in Places(q)
      <4> SUFFICES ASSUME q # w PROVE \E j \in 1 .. k - 1 : <<w, j>> \in Places(q)
        OBVIOUS
      <4>1. PICK j \in 1 .. k - 1 : B[j] = q
        BY <2>3, <2>7 DEF TreeIs
      <4>2. j \in 1 .. Len(B)
        <5> HIDE DEF B
        <5>1. Len(B) \in Nat
          BY <2>3 DEF TreeIs
        <5> QED BY <2>7, <5>1
      <4> QED BY <2>5, <4>1, <4>2
    <3> QED BY <3>2, <3>3 DEF StandsAt
  <2>11. Behind(parent[r], r)
    BY <2>8, <2>10, StandsBehind
  <2> QED BY <1>13, <2>9, <2>11
<1> QED BY <1>12, <1>13

\* However deep the children of a poll nest, and whichever rollouts have idled
\* out of it or could not be read, each stands in the result exactly once,
\* behind its parent and one deeper, and is a row of its own only when its line
\* is broken (walkToRoot and sortSubagentsTree, and the table's subagentDepth).
THEOREM NoRolloutIsLost == Spec => []NoChildLost
<1> QED BY NoneLost, AlwaysInv, AlwaysParents, PTL
=============================================================================
