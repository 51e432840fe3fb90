------------------------------ MODULE LiveSpend ------------------------------
(***************************************************************************)
(* How spend becomes a burn rate, for one burn key: a session, or one of   *)
(* its subagents, writes usage records to its transcript, its source reads *)
(* up to chunk of them per poll, the reducer prices what                   *)
(* has been read so far at the current table, and feeds the tracker when   *)
(* the total has changed.  The pricing table can be replaced while the     *)
(* program runs, a poll can miss the session and lose what it had read,    *)
(* and the row can be dropped and come back.                               *)
(*                                                                         *)
(* Every record costs one unit at price 1, at most one is written per      *)
(* tick, and the clock stops at MaxTime: the bounds of the model are       *)
(* MaxTime, MaxRecords, MaxDrops and MaxSwaps.                             *)
(***************************************************************************)
EXTENDS BurnTracker, Sequences

CONSTANTS Chunks,       \* how many records a poll can read
          Prices,       \* what a record can cost (one per pricing table)
          SeedWindow,   \* childSeedWindow (2 min)
          SeedMinSpan,  \* childSeedMinSpan (30 s)
          Epoch,        \* the time the model starts at
          MaxGap,       \* the longest time between two polls that report it
          MaxTime, MaxRecords, MaxDrops, MaxSwaps,
          NoCost        \* burnLastCost has no entry, or a row is not tracked

ASSUME SeedAssumption == SeedWindow \in Nat /\ SeedMinSpan \in Nat
ASSUME ClockAssumption ==  \* no time comes near Go's zero time
  Epoch \in Nat /\ MaxTime \in Nat /\ MaxRecords + SeedMinSpan < Epoch
ASSUME PricesAssumption == Prices \subseteq Nat \ {0}
ASSUME ChunkAssumption == Chunks \subseteq Nat \ {0}
ASSUME BoundAssumption == {MaxGap, MaxRecords, MaxDrops, MaxSwaps} \subseteq Nat
ASSUME NoCostAssumption == NoCost \notin Nat

VARIABLES isChild, \* whether the key is a subagent's
          chunk,  \* how many records a poll can read
          now,    \* the clock
          log,    \* the times of the usage records in the transcript
          read,   \* how many of them the source has accounted
          held,   \* how many of them are in the session it last reported
          named,  \* whether the model is known before the first usage
          born,   \* Subagent.StartedAt
          price,  \* the price in the current table
          swaps,  \* how often the table was replaced
          entry,  \* the key's entry in BurnTracker.byID
          last,   \* the key's entry in burnLastCost
          shown,  \* BurnUSDPerHr in the last snapshot, 0 for nil
          at,     \* the time of that snapshot
          polled, \* the time of the last poll that reported the session
          before, \* how many records were written before the row was tracked
          drops   \* how often the row was dropped

transcript == <<log, named, born>>
source == <<read, held, polled>>
table == <<price, swaps>>
kind == <<isChild, chunk>>
row == <<entry, last, shown, at, before, drops>>
vars == <<kind, now, transcript, source, table, row>>

-----------------------------------------------------------------------------
\* The time of the newest of the first n records: LastUsageAt of a session
\* (zero when it has none), LastActivityAt of a subagent.
NewestOf(n) == IF n > 0 THEN log[n] ELSE IF isChild THEN born ELSE 0

\* Something prices once there is usage, or a known model and no usage yet.
Priced(n) == n > 0 \/ named

\* burnSubagents: a newborn whose key has no cost yet starts from zero at its
\* own start, or SeedMinSpan before its newest record if that is earlier.
Seeds == isChild /\ last = NoCost /\ now - born <= SeedWindow

SeedAt(n) == IF NewestOf(n) - SeedMinSpan < born
             THEN NewestOf(n) - SeedMinSpan ELSE born

\* The tracker entry and the recorded cost after the row was enriched with n
\* records read.
Enriched(n) ==
  LET usd  == n * price
      from == IF Seeds THEN Observe(entry, 0, now, SeedAt(n)) ELSE entry
      prev == IF Seeds THEN 0 ELSE last
  IN IF ~Priced(n) THEN [entry |-> entry, last |-> last]
     ELSE IF prev = usd THEN [entry |-> from, last |-> last]
     ELSE [entry |-> Observe(from, usd, now, NewestOf(n)), last |-> usd]

ReadBy(n) == IF read + n < Len(log) THEN read + n ELSE Len(log)

-----------------------------------------------------------------------------
Init ==
  /\ isChild \in BOOLEAN /\ chunk \in Chunks
  /\ now = Epoch
  /\ \E n \in 0 .. MaxRecords : log = [i \in 1 .. n |-> Epoch - n + i]
  /\ born = IF log = <<>> THEN Epoch ELSE log[1] - 1
  /\ named \in BOOLEAN /\ price \in Prices /\ swaps = 0
  /\ read = 0 /\ held = 0 /\ polled = Epoch
  /\ entry = NoEntry /\ last = NoCost /\ shown = 0 /\ at = Epoch
  /\ before = NoCost /\ drops = 0

\* The agent writes a usage record.
Generate ==
  /\ Len(log) < MaxRecords
  /\ IF log = <<>> THEN born < now ELSE log[Len(log)] < now
  /\ log' = Append(log, now)
  /\ UNCHANGED <<kind, now, named, born, source, table, row>>

\* Time passes; a session that has a row is polled at least every MaxGap.
Tick ==
  /\ now < MaxTime
  /\ before # NoCost => now - polled < MaxGap
  /\ now' = now + 1
  /\ UNCHANGED <<kind, transcript, source, table, row>>

\* enrichSession (or burnSubagents) for a row whose session has n records.
Enrich(n) ==
  /\ held' = n
  /\ entry' = Enriched(n).entry
  /\ last' = Enriched(n).last
  /\ shown' = IF Priced(n) THEN RatePerHour(entry', now) ELSE 0
  /\ at' = now

\* One cycle: the source's poll reads on, and the reducer enriches the row.
Cycle ==
  /\ read' = ReadBy(chunk)
  /\ Enrich(ReadBy(chunk))
  /\ polled' = now
  /\ before' = IF before = NoCost THEN Len(log) ELSE before
  /\ UNCHANGED <<kind, now, transcript, table, drops>>

\* A cycle whose poll met a torn session file: the source leaves the session
\* out and forgets what it had accounted, the reducer enriches the session as
\* it was last reported.
Torn ==
  /\ before # NoCost
  /\ read' = 0
  /\ Enrich(held)
  /\ UNCHANGED <<kind, now, transcript, polled, table, before, drops>>

\* The background refresh replaces the pricing table.
Swap ==
  /\ swaps < MaxSwaps
  /\ price' \in Prices \ {price} /\ swaps' = swaps + 1
  /\ UNCHANGED <<kind, now, transcript, source, row>>

\* Mutant: the tracker is not told that the row is gone.
NotForgotten == entry

\* The tracker forgets the burn key of a dropped row; a subagent's only when a
\* cost is recorded for it.
Forgotten == IF isChild /\ last = NoCost THEN entry ELSE NoEntry

\* The reducer drops the row, and the source drops what it had accounted.
Drop ==
  /\ before # NoCost /\ drops < MaxDrops
  /\ entry' = Forgotten
  /\ last' = NoCost /\ read' = 0 /\ held' = 0
  /\ shown' = 0 /\ at' = now /\ before' = NoCost
  /\ drops' = drops + 1
  /\ UNCHANGED <<kind, now, transcript, polled, table>>

Next == Generate \/ Tick \/ Cycle \/ Torn \/ Swap \/ Drop

Spec == Init /\ [][Next]_vars

-----------------------------------------------------------------------------
\* A poll reads all that was written.
InOneRead == chunk >= MaxRecords

\* A session shows a burn rate only once a usage record written after its row
\* appeared has been read, if no refresh reprices what it had cost: cost
\* incurred before that never counts (burn.go:32-38).
OnlyWatchedSpend ==
  ~isChild /\ swaps = 0 /\ shown > 0 => before # NoCost /\ held > before

\* The same of a transcript that takes no more than one read.
OnlyWatchedSpendInOneRead == InOneRead => OnlyWatchedSpend

\* No rate is shown that is faster than spend was ever generated: at one price
\* a delta is never squeezed into less time than it was spent in, neither by a
\* poll that finds many records at once, nor by a backfill, nor by a discarded
\* delta that rides along with the next one (burn.go:74-80).
RateSupported == swaps = 0 => shown <= price * Scale

\* A rate stays on screen for two windows at most after the newest usage: one
\* in which the usage may still be counted, one in which it still shows, as
\* long as the polls read to the end, no two are more than a window apart, and
\* nothing is repriced (burn.go:143-155, state.go:91-97).
QuietReadsZero ==
  swaps = 0 /\ InOneRead /\ shown > 0 => at - NewestOf(held) <= 2 * Window

\* The snapshot a session's row appears in, for the first time or again after
\* it was dropped, shows no rate, whatever the session cost by then, at
\* whatever price, and whatever the tracker had of an earlier row of the same
\* id (burn.go:12-16, reduce.go:107-113).
FirstSightingShowsNothing ==
  [][~isChild /\ before = NoCost /\ before' # NoCost => shown' = 0]_vars
=============================================================================
