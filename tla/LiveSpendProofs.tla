-------------------------- MODULE LiveSpendProofs --------------------------
(***************************************************************************)
(* What holds of burn rates for any window, smoothing factor, scale, seed  *)
(* limits, prices and read sizes, and any number of records, swaps and     *)
(* drops.                                                                  *)
(***************************************************************************)
EXTENDS LiveSpend, TLAPS

LEMMA Constants ==
  /\ Window \in Nat /\ Scale \in Nat \ {0}
  /\ AlphaNum \in Nat /\ AlphaDen \in Nat \ {0} /\ AlphaNum <= AlphaDen
  /\ SeedWindow \in Nat /\ SeedMinSpan \in Nat
  /\ Epoch \in Nat /\ MaxTime \in Nat /\ MaxRecords + SeedMinSpan < Epoch
  /\ Prices \subseteq Nat \ {0} /\ Chunks \subseteq Nat \ {0}
  /\ MaxGap \in Nat /\ MaxRecords \in Nat
  /\ NoCost \notin Nat /\ NoEntry \notin Entry
BY WindowAssumption, ScaleAssumption, AlphaAssumption, SeedAssumption,
   ClockAssumption, PricesAssumption, ChunkAssumption, BoundAssumption,
   NoCostAssumption, NoEntryAssumption

-----------------------------------------------------------------------------
(***************************************************************************)
(* Arithmetic.                                                             *)
(***************************************************************************)
LEMMA Division ==
  ASSUME NEW a \in Nat, NEW b \in Nat \ {0}
  PROVE  /\ a \div b \in Nat
         /\ \A c \in Nat : a <= b * c => a \div b <= c
<1>1. a \div b \in Nat /\ b * (a \div b) <= a
  BY SMT
<1>2. ASSUME NEW c \in Nat, a <= b * c, a \div b > c PROVE FALSE
  <2>1. (a \div b) >= c + 1
    BY <1>1, <1>2
  <2>2. b * (a \div b) >= b * (c + 1)
    BY <1>1, <2>1, SMT
  <2>3. b * (c + 1) = b * c + b
    BY SMT
  <2>4. b * c \in Nat /\ b * (a \div b) \in Nat
    BY <1>1, SMT
  <2> QED BY <1>1, <1>2, <2>2, <2>3, <2>4
<1>3. ASSUME NEW c \in Nat, a <= b * c PROVE a \div b <= c
  BY <1>1, <1>2, <1>3
<1> QED BY <1>1, <1>3

LEMMA Products ==
  ASSUME NEW a \in Nat, NEW b \in Nat, NEW c \in Nat
  PROVE  a * b \in Nat /\ (a <= b => a * c <= b * c)
BY SMT

\* A delta that took its time shows as a rate no faster than the price.
LEMMA InstBounded ==
  ASSUME NEW delta \in Int, NEW dt \in Nat \ {0}, NEW p \in Nat,
         delta <= dt * p
  PROVE  Inst(delta, dt) \in Nat /\ Inst(delta, dt) <= p * Scale
<1>1. p * Scale \in Nat /\ dt * p \in Nat
  BY Constants, Products
<1>2. CASE delta < 0
  BY <1>1, <1>2 DEF Inst
<1>3. CASE delta >= 0
  <2>1. delta \in Nat
    BY <1>3
  <2>2. delta * Scale \in Nat /\ delta * Scale <= (dt * p) * Scale
    BY <1>1, <2>1, Constants, Products
  <2>3. (dt * p) * Scale = dt * (p * Scale)
    BY Constants, SMT
  <2> QED BY <1>1, <1>3, <2>1, <2>2, <2>3, Division DEF Inst
<1> QED BY <1>2, <1>3

LEMMA InstType ==
  ASSUME NEW delta \in Int, NEW dt \in Nat \ {0}
  PROVE  Inst(delta, dt) \in Nat /\ (delta <= 0 => Inst(delta, dt) = 0)
<1>1. CASE delta <= 0
  <2>1. delta <= dt * 0
    BY <1>1
  <2>2. 0 * Scale = 0
    BY Constants
  <2> QED BY <2>1, <2>2, InstBounded
<1>2. CASE delta > 0
  <2>1. delta \in Nat /\ delta * Scale \in Nat
    BY <1>2, Constants, Products
  <2> QED BY <1>2, <2>1, Division DEF Inst
<1> QED BY <1>1, <1>2

\* The smoothed rate is between the old one and the new one.
LEMMA SmoothedBounded ==
  ASSUME NEW e \in Entry, NEW i \in Nat
  PROVE  /\ Smoothed(e, i) \in Nat
         /\ \A top \in Nat : i <= top /\ e.ewma <= top => Smoothed(e, i) <= top
<1> DEFINE w == e.ewma
           rest == AlphaDen - AlphaNum
           sum == AlphaNum * i + rest * w
<1>1. w \in Nat /\ rest \in Nat
  BY Constants DEF Entry
<1>2. CASE ~ e.hasEWMA
  BY <1>2 DEF Smoothed
<1>3. CASE e.hasEWMA
  <2>1. Smoothed(e, i) = sum \div AlphaDen
    BY <1>3 DEF Smoothed
  <2>2. AlphaNum * i \in Nat /\ rest * w \in Nat
    BY <1>1, Constants, Products
  <2>3. ASSUME NEW top \in Nat, i <= top, w <= top
        PROVE  sum <= AlphaDen * top
    <3> HIDE DEF rest, w
    <3>1. AlphaNum * i <= AlphaNum * top /\ rest * w <= rest * top
      BY <1>1, <2>3, Constants, SMT
    <3>2. AlphaNum * top + rest * top = AlphaDen * top
      <4>1. (AlphaNum + rest) * top = AlphaNum * top + rest * top
        BY <1>1, Constants, SMT
      <4>2. AlphaNum + rest = AlphaDen
        BY Constants DEF rest
      <4> QED BY <4>1, <4>2
    <3>3. AlphaNum * top \in Nat /\ rest * top \in Nat
      BY <1>1, Constants, Products
    <3> QED BY <2>2, <3>1, <3>2, <3>3
  <2>4. sum \in Nat
    BY <2>2
  <2> HIDE DEF sum
  <2> QED BY <2>1, <2>3, <2>4, Constants, Division
<1> QED BY <1>2, <1>3

-----------------------------------------------------------------------------
(***************************************************************************)
(* The tracker.                                                            *)
(***************************************************************************)
\* What Observe makes of an entry e: the next delta starts here, and the rate
\* is zero for a first sighting, the old one where the delta does not count,
\* and smoothed otherwise (burn.go:108-140).
ResultOf(e, usd, t, ev, r) ==
  /\ r \in Entry
  /\ r.lastObs = t /\ r.lastEvent = ev /\ r.lastUSD = usd
  /\ \/ e = NoEntry /\ r.ewma = 0
     \/ e # NoEntry /\ r.ewma = e.ewma
     \/ /\ e # NoEntry /\ Counts(e, t, ev) /\ Span(e, t, ev) \in Nat \ {0}
        /\ r.ewma = Smoothed(e, Inst(usd - e.lastUSD, Span(e, t, ev)))

LEMMA ObserveResult ==
  ASSUME NEW e \in Entry \cup {NoEntry}, NEW usd \in Nat, NEW t \in Nat,
         NEW ev \in Int, e # NoEntry => e.lastObs <= t
  PROVE  ResultOf(e, usd, t, ev, Observe(e, usd, t, ev))
<1> USE DEF ResultOf
<1>1. CASE e = NoEntry
  BY <1>1 DEF Observe, Advanced, Entry
<1>2. CASE e # NoEntry /\ Counts(e, t, ev) /\ Span(e, t, ev) > 0
  <2>1. e \in Entry /\ e.lastUSD \in Nat /\ e.lastObs \in Nat /\ e.lastEvent \in Int
    BY <1>2 DEF Entry
  <2>2. Span(e, t, ev) \in Nat \ {0}
    BY <1>2, <2>1 DEF Span
  <2>3. Smoothed(e, Inst(usd - e.lastUSD, Span(e, t, ev))) \in Nat
    BY <2>1, <2>2, InstType, SmoothedBounded
  <2> QED BY <1>2, <2>2, <2>3 DEF Observe, Advanced, Entry
<1>3. CASE e # NoEntry /\ ~ (Counts(e, t, ev) /\ Span(e, t, ev) > 0)
  <2>1. e \in Entry /\ e.ewma \in Nat /\ e.hasEWMA \in BOOLEAN
    BY <1>3 DEF Entry
  <2>2. Observe(e, usd, t, ev) = Advanced(e.ewma, e.hasEWMA, usd, t, ev)
    BY <1>3 DEF Observe
  <2> QED BY <1>3, <2>1, <2>2 DEF Advanced, Entry
<1> QED BY <1>1, <1>2, <1>3

LEMMA ObserveType ==
  ASSUME NEW e \in Entry \cup {NoEntry}, NEW usd \in Nat, NEW t \in Nat,
         NEW ev \in Int, e # NoEntry => e.lastObs <= t
  PROVE  /\ Observe(e, usd, t, ev) \in Entry
         /\ Observe(e, usd, t, ev).lastObs = t
BY ObserveResult DEF ResultOf

\* A key that shows no rate comes to show one only through usage that is in the
\* window, and never through a total that has not risen.
Rateless(e) == e = NoEntry \/ e.ewma = 0

LEMMA RateNeedsUsage ==
  ASSUME NEW e \in Entry \cup {NoEntry}, NEW usd \in Nat, NEW t \in Nat,
         NEW ev \in Int, e # NoEntry => e.lastObs <= t, Rateless(e),
         Observe(e, usd, t, ev).ewma # 0
  PROVE  /\ e # NoEntry /\ usd > e.lastUSD
         /\ Known(ev) => t - ev <= Window
<1> DEFINE r == Observe(e, usd, t, ev)
<1>4. ResultOf(e, usd, t, ev, r)
  BY ObserveResult
<1> HIDE DEF r
<1>1. /\ e # NoEntry /\ e \in Entry /\ e.ewma = 0 /\ Counts(e, t, ev)
      /\ Span(e, t, ev) \in Nat \ {0} /\ e.lastUSD \in Nat
      /\ Smoothed(e, Inst(usd - e.lastUSD, Span(e, t, ev))) # 0
  <2>1. r.ewma # 0
    BY DEF r
  <2>2. e # NoEntry /\ e.ewma = 0
    BY <1>4, <2>1 DEF Rateless, ResultOf
  <2> QED BY <1>4, <2>1, <2>2 DEF Entry, ResultOf
<1>2. Known(ev) => t - ev <= Window
  BY <1>1 DEF Counts
<1>3. ASSUME usd <= e.lastUSD PROVE FALSE
  <2>1. Inst(usd - e.lastUSD, Span(e, t, ev)) = 0
    BY <1>1, <1>3, InstType
  <2>2. Smoothed(e, 0) <= 0 /\ Smoothed(e, 0) \in Nat
    BY <1>1, SmoothedBounded
  <2> QED BY <1>1, <2>1, <2>2
<1> QED BY <1>1, <1>2, <1>3

-----------------------------------------------------------------------------
(***************************************************************************)
(* Types, and the order of the times: records are written at times of      *)
(* their own after the start, none of them near Go's zero time, and no     *)
(* observation lies in the future.                                         *)
(***************************************************************************)
Shape ==
  /\ isChild \in BOOLEAN /\ chunk \in Nat \ {0} /\ named \in BOOLEAN
  /\ now \in Nat /\ born \in Nat
  /\ log \in Seq(Nat) /\ Len(log) <= MaxRecords
  /\ price \in Nat \ {0} /\ swaps \in Nat
  /\ read \in 0 .. Len(log) /\ held \in 0 .. Len(log)
  /\ entry \in Entry \cup {NoEntry} /\ last \in Nat \cup {NoCost}
  /\ shown \in Nat /\ at \in Nat /\ polled \in Nat
  /\ before \in Nat \cup {NoCost}

Times ==
  /\ SeedMinSpan < born /\ born <= now /\ polled <= now
  /\ \A i \in 1 .. Len(log) : log[i] <= now /\ born + i <= log[i]
  /\ \A i, j \in 1 .. Len(log) : i <= j => log[i] + (j - i) <= log[j]
  /\ entry # NoEntry => entry.lastObs <= now

\* A row that is not tracked has left no cost behind.
Untracked ==
  before = NoCost =>
    /\ last = NoCost /\ held = 0 /\ shown = 0
    /\ ~isChild => entry = NoEntry

Base == Shape /\ Times /\ Untracked

LEMMA InitBase == Init => Base
<1> SUFFICES ASSUME Init PROVE Base
  OBVIOUS
<1>1. PICK n \in 0 .. MaxRecords : log = [i \in 1 .. n |-> Epoch - n + i]
  BY DEF Init
<1>2. /\ Len(log) = n /\ n \in Nat /\ n <= MaxRecords
      /\ \A i \in 1 .. n : log[i] = Epoch - n + i
  BY <1>1, Constants
<1>3. born = Epoch - n
  <2>1. CASE n = 0
    BY <1>1, <2>1, Constants DEF Init
  <2>2. CASE n # 0
    <3>1. log # <<>> /\ log[1] = Epoch - n + 1
      BY <1>2, <2>2
    <3> QED BY <1>2, <3>1, Constants DEF Init
  <2> QED BY <2>1, <2>2
<1>4. log \in Seq(Nat)
  BY <1>1, <1>2, Constants
<1>5. Shape
  BY <1>2, <1>3, <1>4, Constants DEF Init, Shape
<1>6. Times
  <2>1. \A i \in 1 .. n : log[i] <= Epoch /\ born + i <= log[i]
    BY <1>2, <1>3, Constants
  <2>2. \A i, j \in 1 .. n : i <= j => log[i] + (j - i) <= log[j]
    BY <1>2, Constants
  <2>3. SeedMinSpan < born /\ born <= Epoch
    BY <1>2, <1>3, Constants
  <2>4. now = Epoch /\ polled = Epoch /\ entry = NoEntry
    BY DEF Init
  <2> QED BY <1>2, <2>1, <2>2, <2>3, <2>4, Constants DEF Times
<1>7. Untracked
  BY DEF Init, Untracked
<1> QED BY <1>5, <1>6, <1>7 DEF Base

\* The event times the reducer passes to the tracker.
LEMMA EventTimes ==
  ASSUME Base, NEW n \in 0 .. Len(log)
  PROVE  /\ NewestOf(n) \in Nat /\ n * price \in Nat
         /\ NewestOf(n) <= now
         /\ n > 0 => NewestOf(n) = log[n] /\ born + n <= NewestOf(n)
         /\ n = 0 /\ isChild => NewestOf(n) = born
         /\ n = 0 /\ ~ isChild => NewestOf(n) = 0
         /\ isChild => SeedAt(n) \in 1 .. born
         /\ SeedAt(n) \in Int
<1>1. n \in Nat /\ (n > 0 => n \in 1 .. Len(log) /\ log[n] \in Nat)
  BY DEF Base, Shape
<1>2. n * price \in Nat
  BY <1>1, Products DEF Base, Shape
<1>3. /\ NewestOf(n) \in Nat /\ NewestOf(n) <= now
      /\ n > 0 => NewestOf(n) = log[n] /\ born + n <= NewestOf(n)
      /\ n = 0 /\ isChild => NewestOf(n) = born
      /\ n = 0 /\ ~ isChild => NewestOf(n) = 0
  BY <1>1 DEF Base, Shape, Times, NewestOf
<1>4. isChild => born <= NewestOf(n)
  BY <1>1, <1>3 DEF Base, Shape
<1>5. SeedAt(n) \in Int /\ (isChild => SeedAt(n) \in 1 .. born)
  <2>1. /\ SeedMinSpan \in Nat /\ born \in Nat /\ SeedMinSpan < born
        /\ NewestOf(n) \in Nat
    BY <1>3, Constants DEF Base, Shape, Times
  <2> QED BY <1>4, <2>1 DEF SeedAt
<1> QED BY <1>2, <1>3, <1>5

\* The entry after the seed of a newborn subagent, and the three ways a row is
\* enriched: nothing is priced, the total is the one recorded, or it is
\* observed and recorded.
From(n) == IF Seeds THEN Observe(entry, 0, now, SeedAt(n)) ELSE entry

LEMMA EnrichedCases ==
  ASSUME NEW n
  PROVE  \/ /\ ~ Priced(n)
            /\ Enriched(n).entry = entry /\ Enriched(n).last = last
         \/ /\ Priced(n) /\ n * price = IF Seeds THEN 0 ELSE last
            /\ Enriched(n).entry = From(n) /\ Enriched(n).last = last
         \/ /\ Priced(n) /\ n * price # IF Seeds THEN 0 ELSE last
            /\ Enriched(n).entry = Observe(From(n), n * price, now, NewestOf(n))
            /\ Enriched(n).last = n * price
BY DEF Enriched, From

LEMMA EntryType ==
  ASSUME Base, NEW n \in 0 .. Len(log)
  PROVE  /\ From(n) \in Entry \cup {NoEntry}
         /\ From(n) # NoEntry => From(n).lastObs <= now
         /\ Enriched(n).entry \in Entry \cup {NoEntry}
         /\ Enriched(n).entry # NoEntry => Enriched(n).entry.lastObs <= now
         /\ Enriched(n).last \in Nat \cup {NoCost}
<1>1. /\ entry \in Entry \cup {NoEntry} /\ now \in Nat
      /\ entry # NoEntry => entry.lastObs <= now
      /\ last \in Nat \cup {NoCost}
  BY DEF Base, Shape, Times
<1>2. NewestOf(n) \in Int /\ SeedAt(n) \in Int /\ n * price \in Nat
  BY EventTimes
<1>3. /\ From(n) \in Entry \cup {NoEntry}
      /\ From(n) # NoEntry => From(n).lastObs <= now
  <2>1. /\ Observe(entry, 0, now, SeedAt(n)) \in Entry
        /\ Observe(entry, 0, now, SeedAt(n)).lastObs = now
    <3> DEFINE e == entry
               zero == 0
               ev == SeedAt(n)
               t == now
    <3>1. /\ e \in Entry \cup {NoEntry} /\ (e # NoEntry => e.lastObs <= t)
          /\ zero \in Nat /\ ev \in Int /\ t \in Nat
      BY <1>1, <1>2
    <3> HIDE DEF e, zero, ev, t
    <3>2. Observe(e, zero, t, ev) \in Entry /\ Observe(e, zero, t, ev).lastObs = t
      BY <3>1, ObserveType
    <3> QED BY <3>2 DEF e, zero, ev, t
  <2> QED BY <1>1, <2>1 DEF From
<1>4. /\ Observe(From(n), n * price, now, NewestOf(n)) \in Entry
      /\ Observe(From(n), n * price, now, NewestOf(n)).lastObs = now
  <2> DEFINE f == From(n)
             usd == n * price
             ev == NewestOf(n)
  <2>1. /\ f \in Entry \cup {NoEntry} /\ (f # NoEntry => f.lastObs <= now)
        /\ usd \in Nat /\ ev \in Int /\ now \in Nat
    BY <1>1, <1>2, <1>3
  <2> HIDE DEF f, usd, ev
  <2>2. Observe(f, usd, now, ev) \in Entry /\ Observe(f, usd, now, ev).lastObs = now
    BY <2>1, ObserveType
  <2> QED BY <2>2 DEF f, usd, ev
<1> QED BY <1>1, <1>2, <1>3, <1>4, EnrichedCases

\* A shown rate is the entry's, of an observation within the window.
LEMMA RateShown ==
  ASSUME NEW e \in Entry \cup {NoEntry}, NEW t \in Nat
  PROVE  /\ RatePerHour(e, t) \in Nat
         /\ RatePerHour(e, t) > 0 =>
              /\ ~ Rateless(e) /\ e \in Entry /\ RatePerHour(e, t) = e.ewma
              /\ t - e.lastObs <= Window
<1>1. CASE e = NoEntry
  BY <1>1 DEF RatePerHour
<1>2. CASE e # NoEntry
  BY <1>2, Constants DEF RatePerHour, Entry, Rateless
<1> QED BY <1>1, <1>2

LEMMA EnrichBase ==
  ASSUME Base, NEW n \in 0 .. Len(log), Enrich(n), read' \in 0 .. Len(log),
         polled' \in {polled, now}, before' \in Nat,
         UNCHANGED <<kind, now, transcript, table>>
  PROVE  Base'
<1>1. /\ isChild' = isChild /\ chunk' = chunk /\ now' = now /\ log' = log
      /\ named' = named /\ born' = born /\ price' = price /\ swaps' = swaps
  BY DEF kind, transcript, table
<1>2. /\ held' = n /\ at' = now
      /\ entry' = Enriched(n).entry /\ last' = Enriched(n).last
      /\ shown' = IF Priced(n) THEN RatePerHour(entry', now) ELSE 0
  BY DEF Enrich
<1>3. /\ entry' \in Entry \cup {NoEntry} /\ last' \in Nat \cup {NoCost}
      /\ entry' # NoEntry => entry'.lastObs <= now
  BY <1>2, EntryType
<1>4. shown' \in Nat
  BY <1>2, <1>3, RateShown DEF Base, Shape
<1>5. polled' \in Nat /\ polled' <= now
  BY DEF Base, Shape, Times
<1>6. Shape'
  BY <1>1, <1>2, <1>3, <1>4, <1>5 DEF Base, Shape
<1>7. Times'
  BY <1>1, <1>3, <1>5 DEF Base, Times
<1>8. Untracked'
  BY Constants DEF Untracked
<1> QED BY <1>6, <1>7, <1>8 DEF Base

LEMMA ReadByType ==
  ASSUME Base
  PROVE  ReadBy(chunk) \in 0 .. Len(log)
BY DEF Base, Shape, ReadBy

\* A record that is written is the newest one, and leaves the others alone.
LEMMA Written ==
  ASSUME Base, Generate
  PROVE  /\ log' = Append(log, now) /\ Len(log') = Len(log) + 1
         /\ log' \in Seq(Nat) /\ Len(log') <= MaxRecords
         /\ log'[Len(log) + 1] = now
         /\ \A i \in 1 .. Len(log) : log'[i] = log[i]
         /\ UNCHANGED <<kind, now, named, born, source, table, row>>
<1>1. log \in Seq(Nat) /\ now \in Nat /\ Len(log) \in Nat
  BY DEF Base, Shape
<1>2. /\ log' = Append(log, now) /\ Len(log) < MaxRecords
      /\ UNCHANGED <<kind, now, named, born, source, table, row>>
  BY DEF Generate
<1> QED BY <1>1, <1>2, Constants

LEMMA GenerateBase ==
  ASSUME Base, Generate
  PROVE  Base'
<1>1. /\ isChild' = isChild /\ chunk' = chunk /\ now' = now /\ named' = named
      /\ born' = born /\ read' = read /\ held' = held /\ polled' = polled
      /\ price' = price /\ swaps' = swaps /\ entry' = entry /\ last' = last
      /\ shown' = shown /\ at' = at /\ before' = before
  BY DEF Generate, kind, source, table, row
<1>2. Shape'
  BY <1>1, Written DEF Base, Shape
<1>3. Untracked'
  BY <1>1 DEF Base, Untracked
<1>4. /\ Len(log) \in Nat /\ now \in Nat /\ born \in Nat
      /\ \A i \in 1 .. Len(log) : log[i] \in Nat
  BY DEF Base, Shape
<1>5. IF Len(log) = 0 THEN born < now ELSE log[Len(log)] < now
  BY <1>4 DEF Base, Shape, Generate
<1>6. \A i \in 1 .. Len(log) : log[i] + (Len(log) - i) < now
  <2> TAKE i \in 1 .. Len(log)
  <2>1. Len(log) \in 1 .. Len(log) /\ i <= Len(log) /\ log[Len(log)] < now
    BY <1>4, <1>5
  <2>2. log[i] + (Len(log) - i) <= log[Len(log)]
    BY <2>1 DEF Base, Times
  <2> QED BY <1>4, <2>1, <2>2
<1>7. born + Len(log) + 1 <= now
  <2>1. CASE Len(log) = 0
    BY <1>4, <1>5, <2>1
  <2>2. CASE Len(log) # 0
    <3>1. born + Len(log) <= log[Len(log)]
      BY <1>4, <2>2 DEF Base, Times
    <3> QED BY <1>4, <1>5, <2>2, <3>1
  <2> QED BY <2>1, <2>2
<1>8. \A i \in 1 .. Len(log') : log'[i] <= now /\ born + i <= log'[i]
  <2> TAKE i \in 1 .. Len(log')
  <2>1. CASE i = Len(log) + 1
    BY <1>4, <1>7, <2>1, Written
  <2>2. CASE i # Len(log) + 1
    <3>1. i \in 1 .. Len(log)
      BY <1>4, <2>2, Written
    <3> QED BY <3>1, Written DEF Base, Times
  <2> QED BY <2>1, <2>2
<1>9. \A i, j \in 1 .. Len(log') : i <= j => log'[i] + (j - i) <= log'[j]
  <2> TAKE i, j \in 1 .. Len(log')
  <2> HAVE i <= j
  <2>1. CASE j = Len(log) + 1 /\ i = j
    BY <1>4, <2>1, Written
  <2>2. CASE j = Len(log) + 1 /\ i # j
    <3>1. i \in 1 .. Len(log)
      BY <1>4, <2>2, Written
    <3> QED BY <1>4, <1>6, <2>2, <3>1, Written
  <2>3. CASE j # Len(log) + 1
    <3>1. i \in 1 .. Len(log) /\ j \in 1 .. Len(log)
      BY <1>4, <2>3, Written
    <3> QED BY <3>1, Written DEF Base, Times
  <2> QED BY <2>1, <2>2, <2>3
<1>10. Times'
  BY <1>1, <1>8, <1>9 DEF Base, Times
<1> QED BY <1>2, <1>3, <1>10 DEF Base

LEMMA TickBase ==
  ASSUME Base, Tick
  PROVE  Base'
<1>1. now' = now + 1 /\ UNCHANGED <<kind, transcript, source, table, row>>
  BY DEF Tick
<1>2. now \in Nat /\ Len(log) \in Nat /\ \A i \in 1 .. Len(log) : log[i] \in Nat
  BY DEF Base, Shape
<1>3. Shape' /\ Untracked'
  BY <1>1, <1>2 DEF Base, Shape, Untracked, kind, transcript, source, table, row
<1>4. entry # NoEntry => entry.lastObs \in Nat
  BY DEF Base, Shape, Entry
<1>5. Times'
  BY <1>1, <1>2, <1>4
     DEF Base, Shape, Times, kind, transcript, source, table, row
<1> QED BY <1>3, <1>5 DEF Base

LEMMA CycleBase ==
  ASSUME Base, Cycle
  PROVE  Base'
<1>1. ReadBy(chunk) \in 0 .. Len(log)
  BY ReadByType
<1>2. before' \in Nat
  BY DEF Base, Shape, Cycle
<1> QED BY <1>1, <1>2, EnrichBase DEF Cycle

LEMMA TornBase ==
  ASSUME Base, Torn
  PROVE  Base'
<1>1. held \in 0 .. Len(log) /\ 0 \in 0 .. Len(log)
  BY DEF Base, Shape
<1>2. before' \in Nat
  BY DEF Base, Shape, Torn
<1> QED BY <1>1, <1>2, EnrichBase DEF Torn

LEMMA SwapBase ==
  ASSUME Base, Swap
  PROVE  Base'
<1>1. /\ price' \in Prices /\ swaps' = swaps + 1
      /\ UNCHANGED <<kind, now, transcript, source, row>>
  BY DEF Swap
<1>2. Shape' /\ Times' /\ Untracked'
  BY <1>1, Constants
     DEF Base, Shape, Times, Untracked, kind, transcript, source, row
<1> QED BY <1>2 DEF Base

LEMMA DropBase ==
  ASSUME Base, Drop
  PROVE  Base'
<1>1. /\ entry' = Forgotten /\ last' = NoCost /\ read' = 0 /\ held' = 0
      /\ shown' = 0 /\ at' = now /\ before' = NoCost
      /\ UNCHANGED <<kind, now, transcript, polled, table>>
  BY DEF Drop
<1>2. Forgotten \in {entry, NoEntry} /\ (~ isChild => Forgotten = NoEntry)
  BY DEF Forgotten
<1>3. Shape' /\ Times' /\ Untracked'
  BY <1>1, <1>2 DEF Base, Shape, Times, Untracked, kind, transcript, table
<1> QED BY <1>3 DEF Base

LEMMA StepBase == Base /\ [Next]_vars => Base'
<1> SUFFICES ASSUME Base, [Next]_vars PROVE Base'
  OBVIOUS
<1>1. CASE UNCHANGED vars
  BY <1>1 DEF vars, kind, transcript, source, table, row,
              Base, Shape, Times, Untracked
<1> QED BY <1>1, GenerateBase, TickBase, CycleBase, TornBase, SwapBase, DropBase
        DEF Next

LEMMA BaseHolds == Spec => []Base
BY InitBase, StepBase, PTL DEF Spec

\* A row that appears, for the first time or again, shows no rate, whatever the
\* session cost by then and whatever became of an earlier row of the same id
\* (burn.go:12-16, reduce.go:107-113).
THEOREM FirstSightingsShowNothing == Spec => FirstSightingShowsNothing
<1>1. Base /\ [Next]_vars =>
        [~isChild /\ before = NoCost /\ before' # NoCost => shown' = 0]_vars
  <2> SUFFICES ASSUME Base, Next, ~isChild, before = NoCost, before' # NoCost
               PROVE  shown' = 0
    OBVIOUS
  <2>1. Cycle
    BY DEF Next, Generate, Tick, Torn, Swap, Drop, row
  <2> DEFINE n == ReadBy(chunk)
  <2>2. n \in 0 .. Len(log) /\ Enrich(n)
    BY <2>1, ReadByType DEF Cycle
  <2>3. entry = NoEntry /\ last = NoCost /\ ~ Seeds
    BY DEF Base, Untracked, Seeds
  <2>4. n * price \in Nat /\ n * price # NoCost
    BY <2>2, EventTimes, Constants
  <2>5. Rateless(Enriched(n).entry)
    BY <2>3 DEF Enriched, Observe, Advanced, Rateless
  <2>6. Enriched(n).entry \in Entry \cup {NoEntry} /\ now \in Nat
    BY <2>2, EntryType DEF Base, Shape
  <2>7. RatePerHour(Enriched(n).entry, now) = 0
    BY <2>5, <2>6, RateShown
  <2> QED BY <2>2, <2>7 DEF Enrich
<1> QED BY <1>1, BaseHolds, PTL DEF Spec, FirstSightingShowsNothing

-----------------------------------------------------------------------------
(***************************************************************************)
(* No rate faster than the spend.  The inductive invariant: at one price,  *)
(* the total an entry was last observed with is that of the first m        *)
(* records, and the event time it has is theirs, or for a subagent with    *)
(* none a time no later than its start.                                    *)
(***************************************************************************)
EventOf(m, ev) ==
  IF m > 0 THEN ev = log[m] ELSE IF isChild THEN ev \in 1 .. born ELSE ev = 0

SupportedEntry(e) ==
  e # NoEntry =>
    /\ e.ewma <= price * Scale
    /\ \E m \in 0 .. Len(log) : e.lastUSD = m * price /\ EventOf(m, e.lastEvent)

Supported == swaps = 0 => shown <= price * Scale /\ SupportedEntry(entry)

\* From m records to n of them takes as long as n - m at least.
LEMMA SpendTakesTime ==
  ASSUME Base, NEW m \in 0 .. Len(log), NEW n \in 0 .. Len(log), m < n,
         NEW was \in Int, EventOf(m, was), NEW ev \in Int, EventOf(n, ev),
         Known(ev) <=> Known(was)
  PROVE  Known(ev) /\ n - m <= ev - was
<1>1. /\ Len(log) \in Nat /\ n \in 1 .. Len(log) /\ ev = log[n] /\ log[n] \in Nat
      /\ born \in Nat /\ born + n <= log[n]
  <2>1. log \in Seq(Nat) /\ born \in Nat
    BY DEF Base, Shape
  <2>2. Len(log) \in Nat /\ n \in 1 .. Len(log) /\ n > 0
    BY <2>1
  <2>3. log[n] \in Nat
    BY <2>1, <2>2
  <2>4. ev = log[n]
    BY <2>2 DEF EventOf
  <2>5. born + n <= log[n]
    BY <2>2 DEF Base, Times
  <2> QED BY <2>1, <2>2, <2>3, <2>4, <2>5
<1>2. Known(ev) /\ Known(was)
  BY <1>1 DEF Known
<1>3. CASE m > 0
  <2>1. m \in 1 .. Len(log) /\ was = log[m] /\ log[m] \in Nat
    BY <1>1, <1>3 DEF Base, Shape, EventOf
  <2>2. log[m] + (n - m) <= log[n]
    BY <1>1, <2>1 DEF Base, Times
  <2> QED BY <1>1, <1>2, <2>1, <2>2
<1>4. CASE m = 0
  <2>1. was <= born
    BY <1>2, <1>4 DEF EventOf, Known
  <2> QED BY <1>1, <1>2, <1>4, <2>1
<1> QED BY <1>3, <1>4

LEMMA ObserveSupported ==
  ASSUME Base, NEW e \in Entry \cup {NoEntry}, e # NoEntry => e.lastObs <= now,
         SupportedEntry(e), NEW n \in 0 .. Len(log), NEW ev \in Int, EventOf(n, ev)
  PROVE  SupportedEntry(Observe(e, n * price, now, ev))
<1> DEFINE usd == n * price
           r == Observe(e, usd, now, ev)
<1>1. price \in Nat /\ usd \in Nat /\ now \in Nat /\ price * Scale \in Nat
  BY Constants, Products, EventTimes DEF Base, Shape
<1> HIDE DEF usd
<1>2. ResultOf(e, usd, now, ev, r)
  BY <1>1, ObserveResult
<1> HIDE DEF r
<1>3. ASSUME e # NoEntry, Counts(e, now, ev), Span(e, now, ev) \in Nat \ {0}
      PROVE  Smoothed(e, Inst(usd - e.lastUSD, Span(e, now, ev))) <= price * Scale
  <2> DEFINE dt == Span(e, now, ev)
  <2>1. /\ e \in Entry /\ e.lastUSD \in Nat /\ e.lastEvent \in Int
        /\ e.lastObs \in Nat /\ e.ewma <= price * Scale
    BY <1>3 DEF SupportedEntry, Entry
  <2>2. PICK m \in 0 .. Len(log) : e.lastUSD = m * price /\ EventOf(m, e.lastEvent)
    BY <1>3 DEF SupportedEntry
  <2>3. m \in Nat /\ n \in Nat
    OBVIOUS
  <2>4. usd - e.lastUSD <= dt * price
    <3>1. CASE n <= m
      <4>1. n * price <= m * price
        BY <1>1, <2>3, <3>1, Products
      <4>2. dt * price \in Nat
        BY <1>1, <1>3, Products
      <4> QED BY <1>1, <2>1, <2>2, <4>1, <4>2 DEF usd
    <3>2. CASE m < n
      <4>1. Known(ev) /\ n - m <= ev - e.lastEvent
        BY <1>3, <2>1, <2>2, <3>2, SpendTakesTime DEF Counts
      <4>2. n - m <= dt
        BY <1>1, <2>1, <2>3, <4>1 DEF Span
      <4> HIDE DEF dt
      <4>3. (n - m) * price <= dt * price
        <5>1. n - m \in Nat /\ dt \in Nat
          BY <1>3, <2>3, <3>2 DEF dt
        <5> QED BY <1>1, <4>2, <5>1, Products
      <4>4. (n - m) * price = n * price - m * price
        BY <1>1, <2>3, SMT
      <4> QED BY <2>2, <4>3, <4>4 DEF usd
    <3> QED BY <2>3, <3>1, <3>2
  <2> HIDE DEF dt
  <2>5. usd - e.lastUSD \in Int /\ dt \in Nat \ {0}
    BY <1>1, <1>3, <2>1 DEF dt
  <2>6. Inst(usd - e.lastUSD, dt) \in Nat /\ Inst(usd - e.lastUSD, dt) <= price * Scale
    BY <1>1, <2>4, <2>5, InstBounded
  <2> QED BY <1>1, <2>1, <2>6, SmoothedBounded DEF dt
<1>4. r.ewma <= price * Scale
  BY <1>1, <1>2, <1>3 DEF SupportedEntry, ResultOf
<1>5. \E m \in 0 .. Len(log) : r.lastUSD = m * price /\ EventOf(m, r.lastEvent)
  BY <1>2 DEF usd, ResultOf
<1> QED BY <1>4, <1>5 DEF SupportedEntry, r, usd

LEMMA EnrichedSupported ==
  ASSUME Base, SupportedEntry(entry), NEW n \in 0 .. Len(log)
  PROVE  SupportedEntry(Enriched(n).entry)
<1>1. /\ entry \in Entry \cup {NoEntry} /\ (entry # NoEntry => entry.lastObs <= now)
      /\ Len(log) \in Nat
  BY DEF Base, Shape, Times
<1>2. /\ From(n) \in Entry \cup {NoEntry}
      /\ From(n) # NoEntry => From(n).lastObs <= now
  BY EntryType
<1>3. SupportedEntry(From(n))
  <2>1. CASE Seeds
    <3>1. EventOf(0, SeedAt(n)) /\ SeedAt(n) \in Int
      BY <2>1, EventTimes DEF Seeds, EventOf
    <3>2. SupportedEntry(Observe(entry, 0 * price, now, SeedAt(n)))
      BY <1>1, <3>1, ObserveSupported
    <3>3. 0 * price = 0
      BY DEF Base, Shape
    <3> QED BY <2>1, <3>2, <3>3 DEF From
  <2>2. CASE ~ Seeds
    BY <2>2 DEF From
  <2> QED BY <2>1, <2>2
<1>4. SupportedEntry(Observe(From(n), n * price, now, NewestOf(n)))
  <2>1. EventOf(n, NewestOf(n)) /\ NewestOf(n) \in Int
    BY EventTimes DEF EventOf, Base, Times, Shape
  <2> DEFINE f == From(n)
             ev == NewestOf(n)
  <2>2. /\ f \in Entry \cup {NoEntry} /\ (f # NoEntry => f.lastObs <= now)
        /\ SupportedEntry(f) /\ ev \in Int /\ EventOf(n, ev)
    BY <1>2, <1>3, <2>1
  <2> HIDE DEF f, ev
  <2>3. SupportedEntry(Observe(f, n * price, now, ev))
    BY <2>2, ObserveSupported
  <2> QED BY <2>3 DEF f, ev
<1> QED BY <1>3, <1>4, EnrichedCases

LEMMA EnrichSupported ==
  ASSUME Base, Supported, NEW n \in 0 .. Len(log), Enrich(n),
         UNCHANGED <<kind, now, transcript, table>>
  PROVE  Supported'
<1>1. /\ isChild' = isChild /\ log' = log /\ born' = born
      /\ price' = price /\ swaps' = swaps /\ now' = now
  BY DEF kind, transcript, table
<1> SUFFICES ASSUME swaps = 0
             PROVE  (shown <= price * Scale /\ SupportedEntry(entry))'
  BY <1>1 DEF Supported
<1>2. SupportedEntry(entry) /\ price * Scale \in Nat
  BY Constants, Products DEF Supported, Base, Shape
<1>3. entry' = Enriched(n).entry /\ SupportedEntry(entry')
  BY <1>2, EnrichedSupported DEF Enrich
<1>4. SupportedEntry(entry)'
  BY <1>1, <1>3 DEF SupportedEntry, EventOf
<1>5. entry' \in Entry \cup {NoEntry} /\ now \in Nat
  BY <1>3, EntryType DEF Base, Shape
<1>6. RatePerHour(entry', now) <= price * Scale
  <2>1. CASE RatePerHour(entry', now) > 0
    <3>1. /\ entry' \in Entry /\ RatePerHour(entry', now) = entry'.ewma
          /\ ~ Rateless(entry')
      BY <1>5, <2>1, RateShown
    <3> QED BY <1>3, <3>1 DEF Rateless, SupportedEntry
  <2>2. CASE ~ RatePerHour(entry', now) > 0
    BY <1>2, <1>5, <2>2, RateShown
  <2> QED BY <2>1, <2>2
<1>7. shown' <= price * Scale
  BY <1>2, <1>6 DEF Enrich
<1> QED BY <1>1, <1>4, <1>7

LEMMA InitSupported == Init => Supported
<1> SUFFICES ASSUME Init PROVE Supported
  OBVIOUS
<1>1. entry = NoEntry /\ shown = 0 /\ price \in Nat
  BY Constants DEF Init
<1>2. price * Scale \in Nat
  BY <1>1, Constants, Products
<1> QED BY <1>1, <1>2 DEF Supported, SupportedEntry

LEMMA StepSupported == Base /\ Supported /\ [Next]_vars => Supported'
<1> SUFFICES ASSUME Base, Supported, [Next]_vars PROVE Supported'
  OBVIOUS
<1>1. CASE Generate
  <2>1. /\ isChild' = isChild /\ born' = born /\ price' = price /\ swaps' = swaps
        /\ entry' = entry /\ shown' = shown
    BY <1>1 DEF Generate, kind, table, row
  <2>2. ASSUME SupportedEntry(entry) PROVE SupportedEntry(entry)'
    <3> SUFFICES ASSUME entry # NoEntry PROVE SupportedEntry(entry)'
      BY <2>1 DEF SupportedEntry
    <3>1. PICK m \in 0 .. Len(log) :
            entry.lastUSD = m * price /\ EventOf(m, entry.lastEvent)
      BY <2>2 DEF SupportedEntry
    <3>2. Len(log) \in Nat
      BY DEF Base, Shape
    <3>3. m \in 0 .. Len(log') /\ (m > 0 => log'[m] = log[m])
      BY <1>1, <3>2, Written
    <3>4. EventOf(m, entry.lastEvent)'
      BY <2>1, <3>1, <3>3 DEF EventOf
    <3> QED BY <2>1, <2>2, <3>1, <3>3, <3>4 DEF SupportedEntry
  <2> QED BY <2>1, <2>2 DEF Supported
<1>2. CASE Tick
  BY <1>2 DEF Tick, kind, transcript, source, table, row,
              Supported, SupportedEntry, EventOf
<1>3. CASE Cycle
  <2>1. ReadBy(chunk) \in 0 .. Len(log)
    BY ReadByType
  <2> QED BY <1>3, <2>1, EnrichSupported DEF Cycle
<1>4. CASE Torn
  <2>1. held \in 0 .. Len(log)
    BY DEF Base, Shape
  <2> QED BY <1>4, <2>1, EnrichSupported DEF Torn
<1>5. CASE Swap
  <2>1. swaps' # 0
    BY <1>5 DEF Swap, Base, Shape
  <2> QED BY <2>1 DEF Supported
<1>6. CASE Drop
  <2>1. /\ isChild' = isChild /\ log' = log /\ born' = born
        /\ price' = price /\ swaps' = swaps /\ shown' = 0
        /\ entry' \in {entry, NoEntry}
    BY <1>6 DEF Drop, Forgotten, kind, transcript, table
  <2>2. price * Scale \in Nat
    BY Constants, Products DEF Base, Shape
  <2> QED BY <2>1, <2>2 DEF Supported, SupportedEntry, EventOf
<1>7. CASE UNCHANGED vars
  BY <1>7 DEF vars, kind, transcript, table, row,
              Supported, SupportedEntry, EventOf
<1> QED BY <1>1, <1>2, <1>3, <1>4, <1>5, <1>6, <1>7 DEF Next

\* No rate is shown that is faster than one record's price per tick, whether
\* the records were read one by one, in one poll or again after a torn read,
\* whether the subagent was seeded and however the rates were smoothed
\* (burn.go:74-80, 108-140).
THEOREM RatesAreSupported == Spec => []RateSupported
<1>1. Supported => RateSupported
  BY DEF Supported, RateSupported
<1> QED BY <1>1, BaseHolds, InitSupported, StepSupported, PTL DEF Spec

-----------------------------------------------------------------------------
(***************************************************************************)
(* What is recorded: at one price, the last cost is that of the records    *)
(* the session was last reported with, and a key without one shows no      *)
(* rate.                                                                   *)
(***************************************************************************)
Recorded ==
  swaps = 0 =>
    IF last = NoCost
    THEN held = 0 /\ Rateless(entry) /\ (~isChild /\ before # NoCost => entry = NoEntry)
    ELSE last = held * price /\ before # NoCost

\* A poll that finds nothing finds an empty transcript.
LEMMA NothingRead ==
  ASSUME Base, ReadBy(chunk) = 0
  PROVE  Len(log) = 0
BY DEF Base, Shape, ReadBy

\* A key without a cost that is seeded, or not, still shows no rate.
LEMMA SeedShowsNothing ==
  ASSUME Base, Rateless(entry), NEW n \in 0 .. Len(log)
  PROVE  Rateless(From(n))
<1>1. CASE Seeds
  <2> DEFINE ev == SeedAt(n)
             t  == now
             e  == entry
             r  == Observe(e, 0, t, ev)
  <2>1. /\ e \in Entry \cup {NoEntry} /\ (e # NoEntry => e.lastObs <= t)
        /\ ev \in Int /\ t \in Nat /\ Rateless(e)
    BY EventTimes DEF Base, Shape, Times
  <2>2. From(n) = r
    BY <1>1 DEF From
  <2> HIDE DEF ev, t, e
  <2>3. ASSUME r.ewma # 0 PROVE FALSE
    <3>1. e # NoEntry /\ 0 > e.lastUSD
      BY <2>1, <2>3, RateNeedsUsage
    <3>2. e.lastUSD \in Nat
      BY <2>1, <3>1 DEF Entry
    <3> QED BY <3>1, <3>2
  <2> QED BY <2>2, <2>3 DEF Rateless
<1>2. CASE ~ Seeds
  BY <1>2 DEF From
<1> QED BY <1>1, <1>2

\* A key without a cost comes to show a rate only through usage in the window.
LEMMA FirstCost ==
  ASSUME Base, Rateless(entry), NEW n \in 0 .. Len(log),
         ~ Rateless(Enriched(n).entry)
  PROVE  /\ Known(NewestOf(n)) /\ now - NewestOf(n) <= Window
         /\ Enriched(n).entry.lastObs = now
<1> DEFINE f == From(n)
           usd == n * price
           ev == NewestOf(n)
           t == now
<1>1. /\ f \in Entry \cup {NoEntry} /\ (f # NoEntry => f.lastObs <= t)
      /\ usd \in Nat /\ ev \in Nat /\ t \in Nat /\ Rateless(f)
  BY EntryType, EventTimes, SeedShowsNothing DEF Base, Shape
<1>2. Enriched(n).entry = Observe(f, usd, t, ev)
  BY <1>1, EnrichedCases
<1>3. usd > 0 => Known(ev)
  <2>1. CASE n = 0
    BY <2>1 DEF Base, Shape
  <2>2. CASE n # 0
    <3>1. n > 0 /\ n \in Nat /\ born \in Nat /\ born + n <= ev /\ ev \in Nat
      BY <2>2, EventTimes DEF Base, Shape
    <3> QED BY <3>1 DEF Known
  <2> QED BY <2>1, <2>2
<1> HIDE DEF f, usd, ev, t
<1>4. Observe(f, usd, t, ev).ewma # 0
  BY <1>2 DEF Rateless
<1>5. /\ f # NoEntry /\ usd > f.lastUSD
      /\ Known(ev) => t - ev <= Window
  BY <1>1, <1>4, RateNeedsUsage
<1>6. f.lastUSD \in Nat
  BY <1>1, <1>5 DEF Entry
<1>7. Observe(f, usd, t, ev).lastObs = t
  <2>1. ev \in Int
    BY <1>1
  <2> QED BY <1>1, <2>1, ObserveType
<1> QED BY <1>1, <1>2, <1>3, <1>5, <1>6, <1>7 DEF ev, t

LEMMA PriceCancels ==
  ASSUME Base, NEW m \in Nat, NEW n \in Nat, m * price = n * price
  PROVE  m = n
<1>1. price \in Nat \ {0}
  BY DEF Base, Shape
<1> HIDE DEF Base
<1>2. ASSUME NEW a \in Nat, NEW b \in Nat, a < b PROVE a * price < b * price
  <2>1. (b - a) * price = b * price - a * price
    BY <1>1, SMT
  <2>2. (b - a) * price > 0
    BY <1>1, <1>2, SMT
  <2>3. a * price \in Nat /\ b * price \in Nat
    BY <1>1, Products
  <2> QED BY <2>1, <2>2, <2>3
<1>3. m < n => m * price < n * price
  BY <1>2
<1>4. n < m => n * price < m * price
  BY <1>2
<1>5. m * price \in Nat
  BY <1>1, Products
<1> QED BY <1>3, <1>4, <1>5

\* A total that is recorded already leaves everything as it is.
LEMMA SameTotal ==
  ASSUME Base, Recorded, swaps = 0, last # NoCost, NEW n \in 0 .. Len(log),
         n = held \/ ~ Priced(n)
  PROVE  Enriched(n).entry = entry /\ Enriched(n).last = last
<1>1. ~ Seeds /\ (n = held => n * price = last)
  BY DEF Seeds, Recorded
<1> QED BY <1>1, EnrichedCases DEF From

LEMMA EnrichRecorded ==
  ASSUME Base, Recorded, NEW n \in 0 .. Len(log), Enrich(n),
         n = held \/ (n = 0 => Len(log) = 0), before' \in Nat,
         UNCHANGED <<kind, now, transcript, table>>
  PROVE  Recorded'
<1>1. /\ isChild' = isChild /\ price' = price /\ swaps' = swaps
      /\ held' = n /\ entry' = Enriched(n).entry /\ last' = Enriched(n).last
  BY DEF kind, transcript, table, Enrich
<1> SUFFICES ASSUME swaps = 0
             PROVE  IF Enriched(n).last = NoCost
                    THEN /\ n = 0 /\ Rateless(Enriched(n).entry)
                         /\ ~isChild => Enriched(n).entry = NoEntry
                    ELSE Enriched(n).last = n * price
  BY <1>1, Constants DEF Recorded
<1>2. n * price \in Nat /\ n \in Nat /\ Len(log) \in Nat /\ held \in 0 .. Len(log)
  BY EventTimes DEF Base, Shape
<1>3. CASE last = NoCost
  <2>1. Rateless(entry) /\ (~isChild => entry = NoEntry)
    BY <1>3 DEF Recorded, Base, Untracked
  <2>2. CASE ~ Priced(n)
    BY <1>2, <1>3, <2>1, <2>2, EnrichedCases DEF Priced
  <2>3. CASE Priced(n) /\ n * price = IF Seeds THEN 0 ELSE last
    <3>1. Seeds /\ n * price = 0 * price
      BY <1>2, <1>3, <2>3, Constants DEF Base, Shape
    <3>2. n = 0
      BY <1>2, <3>1, PriceCancels
    <3>3. isChild /\ Rateless(From(n))
      BY <2>1, <3>1, SeedShowsNothing DEF Seeds
    <3> QED BY <1>3, <2>3, <3>2, <3>3, EnrichedCases
  <2>4. CASE Priced(n) /\ n * price # IF Seeds THEN 0 ELSE last
    BY <1>2, <2>4, EnrichedCases, Constants
  <2> QED BY <2>2, <2>3, <2>4
<1>4. CASE last # NoCost
  <2>1. last = held * price /\ ~ Seeds
    BY <1>4 DEF Recorded, Seeds
  <2>2. CASE ~ Priced(n)
    <3>1. n = held
      BY <1>2, <2>2 DEF Priced
    <3> QED BY <1>4, <2>1, <2>2, <3>1, EnrichedCases
  <2>3. CASE Priced(n)
    BY <1>2, <1>4, <2>1, <2>3, EnrichedCases, Constants
  <2> QED BY <2>2, <2>3
<1> QED BY <1>3, <1>4

LEMMA StepRecorded == Base /\ Recorded /\ [Next]_vars => Recorded'
<1> SUFFICES ASSUME Base, Recorded, [Next]_vars PROVE Recorded'
  OBVIOUS
<1>1. CASE Generate \/ Tick \/ UNCHANGED vars
  BY <1>1 DEF Generate, Tick, vars, kind, source, table, row, Recorded, Rateless
<1>2. CASE Cycle
  <2>1. /\ ReadBy(chunk) \in 0 .. Len(log)
        /\ ReadBy(chunk) = 0 => Len(log) = 0
    BY ReadByType, NothingRead
  <2>2. before' \in Nat
    BY <1>2 DEF Base, Shape, Cycle
  <2> QED BY <1>2, <2>1, <2>2, EnrichRecorded DEF Cycle
<1>3. CASE Torn
  <2>1. held \in 0 .. Len(log) /\ before' \in Nat
    BY <1>3 DEF Base, Shape, Torn
  <2> QED BY <1>3, <2>1, EnrichRecorded DEF Torn
<1>4. CASE Swap
  <2>1. swaps' # 0
    BY <1>4 DEF Swap, Base, Shape
  <2> QED BY <2>1 DEF Recorded
<1>5. CASE Drop
  <2>1. /\ last' = NoCost /\ held' = 0 /\ before' = NoCost /\ swaps' = swaps
        /\ entry' = Forgotten
    BY <1>5 DEF Drop, table
  <2>2. swaps = 0 => Rateless(Forgotten)
    BY DEF Forgotten, Recorded, Rateless
  <2> QED BY <2>1, <2>2 DEF Recorded
<1> QED BY <1>1, <1>2, <1>3, <1>4, <1>5 DEF Next

LEMMA RecordedHolds == Spec => []Recorded
<1>1. Init => Recorded
  BY DEF Init, Recorded, Rateless
<1> QED BY <1>1, BaseHolds, StepRecorded, PTL DEF Spec

-----------------------------------------------------------------------------
(***************************************************************************)
(* Only watched spend.  While a session has no more records than when its  *)
(* row appeared, its key shows no rate.                                    *)
(***************************************************************************)
Watched ==
  swaps = 0 /\ InOneRead /\ ~isChild /\ before # NoCost =>
    before <= held /\ (held = before => Rateless(entry) /\ shown = 0)

LEMMA ReadsAll ==
  ASSUME Base, InOneRead
  PROVE  ReadBy(chunk) = Len(log)
BY Constants DEF Base, Shape, InOneRead, ReadBy

LEMMA RatelessShowsNothing ==
  ASSUME Base, NEW n \in 0 .. Len(log), Enrich(n), Rateless(Enriched(n).entry)
  PROVE  Rateless(entry') /\ shown' = 0
<1>1. /\ entry' = Enriched(n).entry /\ entry' \in Entry \cup {NoEntry}
      /\ now \in Nat
  BY EntryType DEF Enrich, Base, Shape
<1>2. RatePerHour(entry', now) \in Nat /\ ~ RatePerHour(entry', now) > 0
  BY <1>1, RateShown
<1> QED BY <1>1, <1>2 DEF Enrich

LEMMA CycleWatched ==
  ASSUME Base, Recorded, Watched, Cycle
  PROVE  Watched'
<1> DEFINE n == ReadBy(chunk)
<1>1. /\ n \in 0 .. Len(log) /\ Enrich(n) /\ isChild' = isChild
      /\ chunk' = chunk /\ swaps' = swaps /\ held' = n
      /\ before' = IF before = NoCost THEN Len(log) ELSE before
  BY ReadByType DEF Cycle, Enrich, kind, table
<1> SUFFICES ASSUME swaps = 0, InOneRead, ~isChild
             PROVE  before' <= n /\ (n = before' => Rateless(entry') /\ shown' = 0)
  BY <1>1 DEF Watched, InOneRead
<1>2. n = Len(log) /\ n \in Nat /\ held \in 0 .. Len(log)
  BY ReadsAll DEF Base, Shape
<1> HIDE DEF n
<1>3. CASE before = NoCost
  <2>1. entry = NoEntry /\ last = NoCost /\ ~ Seeds
    BY <1>3 DEF Base, Untracked, Seeds
  <2>2. Rateless(Enriched(n).entry)
    BY <2>1 DEF Enriched, Observe, Advanced, Rateless
  <2> QED BY <1>1, <1>2, <1>3, <2>2, RatelessShowsNothing
<1>4. CASE before # NoCost
  <2>1. before \in Nat /\ before <= held /\ before <= n
    BY <1>2, <1>4 DEF Base, Shape, Watched
  <2>2. ASSUME n = before PROVE Rateless(Enriched(n).entry)
    <3>1. n = held /\ Rateless(entry)
      BY <1>2, <1>4, <2>1, <2>2 DEF Watched
    <3>2. CASE last # NoCost
      BY <1>1, <3>1, <3>2, SameTotal
    <3>3. CASE last = NoCost
      <4>1. entry = NoEntry /\ ~ Seeds
        BY <1>4, <3>3 DEF Recorded, Seeds
      <4> QED BY <4>1 DEF Enriched, Observe, Advanced, Rateless
    <3> QED BY <3>2, <3>3
  <2> QED BY <1>1, <1>2, <1>4, <2>1, <2>2, RatelessShowsNothing
<1> QED BY <1>3, <1>4

LEMMA TornWatched ==
  ASSUME Base, Recorded, Watched, Torn
  PROVE  Watched'
<1>1. /\ held \in 0 .. Len(log) /\ Enrich(held) /\ isChild' = isChild
      /\ chunk' = chunk /\ swaps' = swaps /\ held' = held
      /\ before # NoCost /\ before' = before
  BY DEF Torn, Enrich, kind, table, Base, Shape
<1> SUFFICES ASSUME swaps = 0, InOneRead, ~isChild
             PROVE  /\ before <= held
                    /\ held = before => Rateless(entry') /\ shown' = 0
  BY <1>1 DEF Watched, InOneRead
<1>2. ASSUME held = before PROVE Rateless(Enriched(held).entry)
  <2>1. Rateless(entry)
    BY <1>1, <1>2 DEF Watched
  <2>2. CASE last # NoCost
    BY <1>1, <2>1, <2>2, SameTotal
  <2>3. CASE last = NoCost
    <3>1. entry = NoEntry /\ ~ Seeds
      BY <1>1, <2>3 DEF Recorded, Seeds
    <3> QED BY <3>1 DEF Enriched, Observe, Advanced, Rateless
  <2> QED BY <2>2, <2>3
<1> QED BY <1>1, <1>2, RatelessShowsNothing DEF Watched

LEMMA StepWatched == Base /\ Recorded /\ Watched /\ [Next]_vars => Watched'
<1> SUFFICES ASSUME Base, Recorded, Watched, [Next]_vars PROVE Watched'
  OBVIOUS
<1>1. CASE Generate \/ Tick \/ UNCHANGED vars
  BY <1>1 DEF Generate, Tick, vars, kind, source, table, row,
              Watched, InOneRead, Rateless
<1>2. CASE Swap
  <2>1. swaps' # 0
    BY <1>2 DEF Swap, Base, Shape
  <2> QED BY <2>1 DEF Watched
<1>3. CASE Drop
  BY <1>3 DEF Drop, Watched
<1> QED BY <1>1, <1>2, <1>3, CycleWatched, TornWatched DEF Next

\* Cost incurred before a session's row appeared never shows as a rate, nor
\* does any until a record written after that was read, when each poll reads
\* to the end of the transcript (burn.go:32-38).
THEOREM OnlyWatchedSpendShows == Spec => []OnlyWatchedSpendInOneRead
<1>1. Init => Watched
  BY DEF Init, Watched
<1>2. Base /\ Watched => OnlyWatchedSpendInOneRead
  BY DEF Base, Shape, Untracked, Watched, OnlyWatchedSpendInOneRead,
         OnlyWatchedSpend
<1> QED BY <1>1, <1>2, BaseHolds, RecordedHolds, StepWatched, PTL DEF Spec

-----------------------------------------------------------------------------
(***************************************************************************)
(* A quiet key reads zero.  CaughtUp: a record that has not been reported  *)
(* was written since the last poll, which was not long ago.  Recent: a key *)
(* that has a rate was last observed within a window of its newest record, *)
(* and shows it for one window more.                                       *)
(***************************************************************************)
CaughtUp ==
  InOneRead /\ before # NoCost =>
    /\ now - polled <= MaxGap
    /\ \A i \in held + 1 .. Len(log) : polled <= log[i]

Recent ==
  swaps = 0 /\ InOneRead =>
    /\ ~ Rateless(entry) =>
         /\ before # NoCost
         /\ entry.lastObs <= NewestOf(held) + Window
    /\ shown > 0 => at <= NewestOf(held) + 2 * Window

LEMMA StepCaughtUp == Base /\ CaughtUp /\ [Next]_vars => CaughtUp'
<1> SUFFICES ASSUME Base, CaughtUp, [Next]_vars PROVE CaughtUp'
  OBVIOUS
<1>1. /\ now \in Nat /\ polled \in Nat /\ polled <= now /\ Len(log) \in Nat
      /\ held \in 0 .. Len(log)
  BY DEF Base, Shape, Times
<1>2. CASE Generate
  <2>1. /\ chunk' = chunk /\ now' = now /\ polled' = polled
        /\ before' = before /\ held' = held
    BY <1>2 DEF Generate, kind, source, row
  <2>2. ASSUME NEW i \in held + 1 .. Len(log'),
               \A j \in held + 1 .. Len(log) : polled <= log[j]
        PROVE  polled <= log'[i]
    <3>1. CASE i = Len(log) + 1
      BY <1>1, <1>2, <3>1, Written
    <3>2. CASE i # Len(log) + 1
      <4>1. i \in held + 1 .. Len(log) /\ i \in 1 .. Len(log)
        BY <1>1, <1>2, <3>2, Written
      <4> QED BY <1>2, <2>2, <4>1, Written
    <3> QED BY <3>1, <3>2
  <2> QED BY <2>1, <2>2 DEF CaughtUp, InOneRead
<1>3. CASE Tick
  <2>1. /\ chunk' = chunk /\ now' = now + 1 /\ polled' = polled /\ log' = log
        /\ before' = before /\ held' = held
        /\ before # NoCost => now - polled < MaxGap
    BY <1>3 DEF Tick, kind, source, row, transcript
  <2> QED BY <1>1, <2>1, Constants DEF CaughtUp, InOneRead
<1>4. CASE Cycle
  <2>1. /\ chunk' = chunk /\ now' = now /\ polled' = now /\ log' = log
        /\ held' = ReadBy(chunk)
    BY <1>4 DEF Cycle, Enrich, kind, transcript
  <2>2. InOneRead => held' = Len(log)
    BY <2>1, ReadsAll
  <2> QED BY <1>1, <2>1, <2>2, Constants DEF CaughtUp, InOneRead
<1>5. CASE Torn
  BY <1>5 DEF Torn, Enrich, kind, transcript, CaughtUp, InOneRead
<1>6. CASE Swap
  BY <1>6 DEF Swap, kind, transcript, source, row, CaughtUp, InOneRead
<1>7. CASE Drop
  BY <1>7 DEF Drop, CaughtUp
<1>8. CASE UNCHANGED vars
  BY <1>8 DEF vars, kind, transcript, source, row, CaughtUp, InOneRead
<1> QED BY <1>2, <1>3, <1>4, <1>5, <1>6, <1>7, <1>8 DEF Next

LEMMA RecentEntry ==
  ASSUME Base, Recorded, CaughtUp, Recent, MaxGap <= Window, swaps = 0, InOneRead,
         NEW n \in 0 .. Len(log), n \in {held, Len(log)},
         ~ Rateless(Enriched(n).entry)
  PROVE  Enriched(n).entry.lastObs <= NewestOf(n) + Window
<1>1. /\ now \in Nat /\ polled \in Nat /\ held \in 0 .. Len(log) /\ Len(log) \in Nat
      /\ n \in Nat /\ NewestOf(n) \in Nat
  BY EventTimes DEF Base, Shape
<1>2. CASE last = NoCost
  <2>1. Rateless(entry)
    BY <1>2 DEF Recorded
  <2> QED BY <1>1, <2>1, FirstCost, Constants
<1>3. CASE last # NoCost /\ n = held
  <2>1. Enriched(n).entry = entry
    BY <1>3, SameTotal
  <2> QED BY <1>3, <2>1 DEF Recent
<1>4. CASE last # NoCost /\ n # held
  <2>1. n \in held + 1 .. Len(log) /\ n \in 1 .. Len(log) /\ n > 0
    BY <1>1, <1>4
  <2>2. before # NoCost
    BY <1>4 DEF Recorded
  <2>3. NewestOf(n) = log[n] /\ polled <= log[n]
    BY <2>1, <2>2 DEF NewestOf, CaughtUp
  <2>4. now <= NewestOf(n) + Window
    BY <1>1, <2>2, <2>3, Constants DEF CaughtUp
  <2>5. Enriched(n).entry \in Entry
    BY EntryType DEF Rateless
  <2>6. Enriched(n).entry.lastObs \in Nat /\ Enriched(n).entry.lastObs <= now
    BY <2>5, EntryType, Constants DEF Entry
  <2> QED BY <1>1, <2>4, <2>6, Constants
<1> QED BY <1>2, <1>3, <1>4

LEMMA EnrichRecent ==
  ASSUME Base, Recorded, CaughtUp, Recent, MaxGap <= Window,
         NEW n \in 0 .. Len(log), InOneRead => n \in {held, Len(log)},
         Enrich(n), before' # NoCost, UNCHANGED <<kind, now, transcript, table>>
  PROVE  Recent'
<1>1. /\ isChild' = isChild /\ chunk' = chunk /\ log' = log /\ born' = born
      /\ swaps' = swaps /\ held' = n /\ at' = now /\ entry' = Enriched(n).entry
      /\ shown' = IF Priced(n) THEN RatePerHour(entry', now) ELSE 0
  BY DEF kind, transcript, table, Enrich
<1>2. NewestOf(n)' = NewestOf(n)
  BY <1>1 DEF NewestOf
<1> SUFFICES ASSUME swaps = 0, InOneRead
             PROVE  /\ ~ Rateless(entry') => entry'.lastObs <= NewestOf(n) + Window
                    /\ shown' > 0 => now <= NewestOf(n) + 2 * Window
  BY <1>1, <1>2 DEF Recent, InOneRead, Rateless, NewestOf
<1>3. ~ Rateless(entry') => entry'.lastObs <= NewestOf(n) + Window
  BY <1>1, RecentEntry
<1>4. entry' \in Entry \cup {NoEntry} /\ now \in Nat /\ NewestOf(n) \in Nat
  BY <1>1, EntryType, EventTimes DEF Base, Shape
<1>5. ASSUME shown' > 0 PROVE now <= NewestOf(n) + 2 * Window
  <2>1. /\ ~ Rateless(entry') /\ entry' \in Entry
        /\ now - entry'.lastObs <= Window
    <3>1. RatePerHour(entry', now) > 0
      BY <1>1, <1>5
    <3> QED BY <1>4, <3>1, RateShown
  <2>2. entry'.lastObs \in Nat
    BY <2>1 DEF Entry
  <2> QED BY <1>3, <1>4, <2>1, <2>2, Constants
<1> QED BY <1>3, <1>5

LEMMA StepRecent ==
  ASSUME MaxGap <= Window
  PROVE  Base /\ Recorded /\ CaughtUp /\ Recent /\ [Next]_vars => Recent'
<1> SUFFICES ASSUME Base, Recorded, CaughtUp, Recent, [Next]_vars PROVE Recent'
  OBVIOUS
<1>1. held \in 0 .. Len(log) /\ Len(log) \in Nat
  BY DEF Base, Shape
<1>2. CASE Generate
  <2>1. /\ isChild' = isChild /\ chunk' = chunk /\ born' = born /\ swaps' = swaps
        /\ held' = held /\ entry' = entry /\ shown' = shown /\ at' = at
        /\ before' = before
    BY <1>2 DEF Generate, kind, source, table, row
  <2>2. held > 0 => log'[held] = log[held]
    BY <1>1, <1>2, Written
  <2>3. NewestOf(held)' = NewestOf(held)
    BY <1>1, <2>1, <2>2 DEF NewestOf
  <2> QED BY <2>1, <2>3 DEF Recent, InOneRead, Rateless
<1>3. CASE Tick \/ UNCHANGED vars
  BY <1>3 DEF Tick, vars, kind, source, table, row, transcript,
              Recent, InOneRead, Rateless, NewestOf
<1>4. CASE Cycle
  <2>1. ReadBy(chunk) \in 0 .. Len(log) /\ (InOneRead => ReadBy(chunk) = Len(log))
    BY ReadByType, ReadsAll
  <2>2. before' # NoCost
    BY <1>4, Constants DEF Cycle, Base, Shape
  <2> QED BY <1>4, <2>1, <2>2, EnrichRecent DEF Cycle
<1>5. CASE Torn
  BY <1>1, <1>5, EnrichRecent DEF Torn
<1>6. CASE Swap
  <2>1. swaps' # 0
    BY <1>6 DEF Swap, Base, Shape
  <2> QED BY <2>1 DEF Recent
<1>7. CASE Drop
  <2>1. swaps' = swaps /\ shown' = 0 /\ entry' = Forgotten
    BY <1>7 DEF Drop, table
  <2>2. swaps = 0 => Rateless(Forgotten)
    BY DEF Forgotten, Recorded, Rateless
  <2> QED BY <2>1, <2>2 DEF Recent, Rateless
<1> QED BY <1>2, <1>3, <1>4, <1>5, <1>6, <1>7 DEF Next

\* Two windows after its newest usage a session or subagent shows no rate,
\* whatever it was polled in between, when each poll reads to the end and no
\* two polls are more than a window apart; the row is dropped long before
\* (burn.go:143-155, state.go:91-97).
THEOREM QuietKeysReadZero ==
  ASSUME MaxGap <= Window
  PROVE  Spec => []QuietReadsZero
<1>1. Init => CaughtUp /\ Recent
  BY DEF Init, CaughtUp, Recent, Rateless
<1>2. Base /\ CaughtUp /\ [Next]_vars => CaughtUp'
  BY StepCaughtUp
<1>3. Base /\ Recorded /\ CaughtUp /\ Recent /\ [Next]_vars => Recent'
  BY StepRecent
<1>4. Base /\ Recent => QuietReadsZero
  <2> SUFFICES ASSUME Base, Recent, swaps = 0, InOneRead, shown > 0
               PROVE  at - NewestOf(held) <= 2 * Window
    BY DEF QuietReadsZero
  <2>1. at \in Nat /\ NewestOf(held) \in Nat /\ at <= NewestOf(held) + 2 * Window
    BY EventTimes DEF Base, Shape, Recent
  <2> QED BY <2>1, Constants
<1> QED BY <1>1, <1>2, <1>3, <1>4, BaseHolds, RecordedHolds, PTL DEF Spec
=============================================================================
