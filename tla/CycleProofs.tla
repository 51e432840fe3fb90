--------------------------------- MODULE CycleProofs ------------------------
(***************************************************************************)
(* What holds of a cycle of wattop: of the reducer, for any agents, ids,   *)
(* subagents, costs, TTL, seed window, cycle lengths and reports; of the   *)
(* loop that calls it and the pricing book beside it, for any models,      *)
(* tables, readers, interval and backoff; of what the process scanner says *)
(* each process uses, for any pids, timebase, counters and times; and of   *)
(* the terminal that displays it all, for any snapshots, sizes and themes. *)
(***************************************************************************)
EXTENDS Reducer, SamplingLoop, ProcScanner, UiModel, TokenUsageProofs

LEMMA Constants == /\ SessionTTL \in Nat /\ SeedWindow \in Nat /\ Steps \subseteq Nat
                   /\ UNION {Reports[a] : a \in Agent} \subseteq Session
                   /\ Omitted \notin Session
BY SessionTTLAssumption, SeedWindowAssumption, StepsAssumption,
   ReportsAssumption, OmittedAssumption

\* Letting time pass keeps a session a session.
LEMMA KeptSession ==
  ASSUME NEW s \in Session, NEW d \in Steps, NEW st \in {"live", "stale"}
  PROVE  Kept(s, st, d) \in Session
<1>1. ASSUME NEW r \in KidReport
      PROVE  AgedKid(r, d) \in KidReport
  BY Constants DEF AgedKid, KidReport, StartAge
<1>2. s.kids \in [Kid -> KidReport \cup {NoKid}] /\ s.cost \in Cost \cup {Unpriced}
  BY DEF Session
<1>3. [c \in Kid |-> IF s.kids[c] = NoKid THEN NoKid ELSE AgedKid(s.kids[c], d)]
        \in [Kid -> KidReport \cup {NoKid}]
  BY <1>1, <1>2
<1> QED BY <1>2, <1>3 DEF Kept, Session

\* A session that is reported, or tracked and not dropped, has a row after the
\* call; every other key has none.
LEMMA NextRowType ==
  ASSUME TypeOK, NEW k \in Key, NEW d \in Steps, NEW bad \in SUBSET Agent,
         NEW in \in Inputs
  PROVE  IF k \in Seen(in) \cup (Tracked \ Dropped(d, bad, in))
         THEN NextRow(k, d, bad, in) \in Row
         ELSE NextRow(k, d, bad, in) = NoRow
<1>1. CASE k \in Seen(in)
  <2>1. in[k] \in Session
    BY <1>1, Constants DEF Seen, Inputs
  <2> QED BY <1>1, <2>1, Constants DEF NextRow, SightedRow, Row
<1>2. CASE k \notin Seen(in) /\ k \notin Tracked \ Dropped(d, bad, in)
  BY <1>2 DEF NextRow
<1>3. CASE k \notin Seen(in) /\ k \in Tracked \ Dropped(d, bad, in)
  <2>1. /\ tracked[k].session \in Session
        /\ tracked[k].session.status \in {"live", "stale"}
        /\ tracked[k].ttlAge \in 0 .. SessionTTL
    BY <1>3 DEF TypeOK, Tracked, Row, Session
  <2>2. CASE k.agent \in bad
    BY <1>3, <2>1, <2>2, KeptSession, Constants DEF NextRow, HeldRow, Row
  <2>3. CASE k.agent \notin bad
    <3>1. MissedFor(k, d) \in 0 .. SessionTTL
      BY <1>3, <2>1, <2>3, Constants DEF Dropped, MissedFor
    <3>2. StaleRow(k, d) \in Row
      BY <2>1, <3>1, KeptSession DEF StaleRow, Row
    <3> QED BY <1>3, <2>3, <3>2 DEF NextRow
  <2> QED BY <2>2, <2>3
<1> QED BY <1>1, <1>2, <1>3

\* A part's cost is a cost, or Unpriced.
LEMMA PartCostType ==
  ASSUME NEW s \in Session, NEW p \in Kid \cup {Own}
  PROVE  PartCost(s, p) \in Cost \cup {Unpriced}
BY DEF PartCost, Session, KidReport

LEMMA InitType == Init => TypeOK
BY CostAssumption DEF Init, TypeOK

LEMMA StepType == TypeOK /\ [Next]_vars => TypeOK'
<1> SUFFICES ASSUME TypeOK, [Next]_vars PROVE TypeOK'
  OBVIOUS
<1>1. ASSUME NEW d \in Steps, NEW bad \in SUBSET Agent, NEW in \in Inputs,
             Reduce(d, bad, in)
      PROVE  TypeOK'
  <2> DEFINE row == [k \in Key |-> NextRow(k, d, bad, in)]
  <2>1. tracked' = row /\ row \in [Key -> Row \cup {NoRow}]
    BY <1>1, NextRowType DEF Reduce
  <2>3. ASSUME NEW b \in BurnKey, row[b.key] # NoRow
        PROVE  PartCost(row[b.key].session, b.part) \in Cost \cup {Unpriced}
    <3>1. b.key \in Key /\ b.part \in Kid \cup {Own}
      BY DEF BurnKey
    <3>2. row[b.key] \in Row
      BY <2>1, <2>3, <3>1
    <3>3. row[b.key].session \in Session
      BY <3>2 DEF Row
    <3> QED BY <3>1, <3>3, PartCostType
  <2>2. byID' \in [BurnKey -> Cost \cup {0, Unpriced}]
    BY <1>1, <2>3 DEF Reduce, TypeOK
  <2>4. burnLastCost' \in [BurnKey -> Cost \cup {Unpriced}]
    BY <1>1, <2>3 DEF Reduce, TypeOK
  <2>5. /\ histories' \subseteq Key /\ reported' \subseteq Key
        /\ failed' \subseteq Agent /\ gap' \in Nat
    BY <1>1, Constants DEF Reduce, TypeOK, Seen
  <2> QED BY <2>1, <2>2, <2>4, <2>5 DEF TypeOK
<1>2. CASE UNCHANGED vars
  BY <1>2 DEF vars, TypeOK
<1> QED BY <1>1, <1>2 DEF Next

\* The reducer's tables have their types, and a retained row never stays
\* past its TTL between two calls (state.go:66-72, 90-93).
THEOREM TypeCorrect == Spec => []TypeOK
BY InitType, StepType, PTL DEF Spec

-----------------------------------------------------------------------------
(***************************************************************************)
(* The side tables.  TablesOwned is inductive with TypeOK.                 *)
(***************************************************************************)
LEMMA StepTables == TypeOK /\ TypeOK' /\ TablesOwned /\ [Next]_vars => TablesOwned'
<1> SUFFICES ASSUME TypeOK, TypeOK', TablesOwned, [Next]_vars PROVE TablesOwned'
  OBVIOUS
<1>1. ASSUME NEW d \in Steps, NEW bad \in SUBSET Agent, NEW in \in Inputs,
             Reduce(d, bad, in)
      PROVE  TablesOwned'
  <2> DEFINE row  == [k \in Key |-> NextRow(k, d, bad, in)]
             gone == Dropped(d, bad, in)
  <2>1. tracked' = row
    BY <1>1 DEF Reduce
  \* A tracked session stays tracked unless it is dropped.
  <2>2. Tracked' = {k \in Key : row[k] # NoRow}
    BY <2>1 DEF Tracked
  <2>3. Tracked' = Seen(in) \cup (Tracked \ gone)
    BY <2>2, NextRowType, NoRowAssumption DEF Seen, Tracked
  <2>5. histories' = Tracked'
    <3>1. histories' = (Tracked \ gone) \cup Tracked'
      BY <1>1, <2>1, <2>2 DEF Reduce, TablesOwned
    <3> QED BY <2>3, <3>1
  <2> DEFINE emit   == {b \in BurnKey : row[b.key] # NoRow}
             seeded == {b \in emit : Seeded(row[b.key].session, b.key, b.part)}
             obs    == {b \in emit : Observed(row[b.key].session, b.key, b.part)}
             forgot == Forgotten(gone)
  <2>6. /\ byID' = [b \in BurnKey |->
             IF b \in obs THEN PartCost(row[b.key].session, b.part)
             ELSE IF b \in seeded THEN 0
             ELSE IF b \in forgot THEN Unpriced ELSE byID[b]]
        /\ burnLastCost' = [b \in BurnKey |->
             IF b \in obs THEN PartCost(row[b.key].session, b.part)
             ELSE IF b \in forgot THEN Unpriced ELSE burnLastCost[b]]
    BY <1>1 DEF Reduce
  <2>7. \A b \in emit : b.key \in Tracked'
    BY <2>2 DEF BurnKey
  <2>8. ASSUME NEW b \in BurnKey, burnLastCost'[b] # Unpriced
        PROVE  b.key \in Tracked' /\ byID'[b] = burnLastCost'[b]
    <3>1. CASE b \in obs
      BY <2>6, <2>7, <3>1
    <3>2. CASE b \notin obs
      <4>1. b \notin forgot /\ burnLastCost[b] # Unpriced
        BY <2>6, <2>8, <3>2
      <4>2. b.key \in Tracked /\ byID[b] = burnLastCost[b] /\ b.key \notin gone
        BY <4>1 DEF TablesOwned, Forgotten
      \* Only what has no last cost is seeded.
      <4>3. b \notin seeded
        BY <4>1 DEF Seeded, BurnKey
      <4>4. burnLastCost'[b] = burnLastCost[b] /\ byID'[b] = byID[b]
        BY <2>6, <3>2, <4>1, <4>3
      <4> QED BY <2>3, <4>2, <4>4 DEF BurnKey
    <3> QED BY <3>1, <3>2
  <2>9. ASSUME NEW b \in BurnKey, burnLastCost'[b] = Unpriced, byID'[b] # Unpriced
        PROVE  b.part # Own /\ byID'[b] = 0
    \* What is observed has a cost.
    <3>1. b \notin obs
      BY <2>6, <2>9 DEF Observed
    <3>2. CASE b \in seeded
      BY <2>6, <3>1, <3>2 DEF Seeded
    <3>3. CASE b \notin seeded
      <4>1. b \notin forgot /\ byID'[b] = byID[b] /\ burnLastCost'[b] = burnLastCost[b]
        BY <2>6, <2>9, <3>1, <3>3
      <4> QED BY <2>9, <4>1 DEF TablesOwned
    <3> QED BY <3>2, <3>3
  <2> QED BY <2>5, <2>8, <2>9 DEF TablesOwned
<1>2. CASE UNCHANGED vars
  BY <1>2 DEF vars, TablesOwned, Tracked
<1> QED BY <1>1, <1>2 DEF Next

LEMMA InitTables == Init => TablesOwned
BY DEF Init, TablesOwned, Tracked

\* No entry of a side table outlives its row, but for the zeros the tracker has
\* of subagents that never cost anything, and every recorded cost is the one the
\* tracker has too (reduce.go:106-118, 306-336).
THEOREM TablesAreOwned == Spec => []TablesOwned
BY TypeCorrect, InitTables, StepTables, PTL DEF Spec

-----------------------------------------------------------------------------
(***************************************************************************)
(* Retention.  What links a row to the last call's inputs: a reported row  *)
(* is fresh, a row whose source failed is held, and any other is stale.    *)
(***************************************************************************)
RowInv ==
  /\ \A k \in reported : k \in Tracked /\ tracked[k].ttlAge = 0
                           /\ ~tracked[k].heldByOutage
  /\ \A k \in Tracked : /\ k.agent \in failed => tracked[k].heldByOutage
                        /\ tracked[k].heldByOutage => tracked[k].ttlAge = 0
                        /\ k \notin reported /\ ~tracked[k].heldByOutage =>
                             tracked[k].session.status = "stale"

LEMMA InitRowInv == Init => RowInv
BY DEF Init, RowInv, Tracked

LEMMA StepRowInv == TypeOK /\ TypeOK' /\ RowInv /\ [Next]_vars => RowInv'
<1> SUFFICES ASSUME TypeOK, TypeOK', RowInv, [Next]_vars PROVE RowInv'
  OBVIOUS
<1>1. ASSUME NEW d \in Steps, NEW bad \in SUBSET Agent, NEW in \in Inputs,
             Reduce(d, bad, in)
      PROVE  RowInv'
  <2>1. /\ tracked' = [k \in Key |-> NextRow(k, d, bad, in)]
        /\ reported' = Seen(in) /\ failed' = bad
        /\ \A k \in Seen(in) : k.agent \notin bad
    BY <1>1 DEF Reduce, Input
  <2>2. ASSUME NEW k \in reported'
        PROVE  /\ k \in Tracked' /\ tracked'[k].ttlAge = 0
               /\ ~tracked'[k].heldByOutage
    <3>1. k \in Key /\ tracked'[k] = SightedRow(in[k])
      BY <2>1 DEF Seen, NextRow
    <3>2. tracked'[k] # NoRow
      BY <2>1, <3>1, NextRowType, NoRowAssumption
    <3> QED BY <3>1, <3>2 DEF Tracked, SightedRow
  <2>3. ASSUME NEW k \in Tracked'
        PROVE  /\ k.agent \in failed' => tracked'[k].heldByOutage
               /\ tracked'[k].heldByOutage => tracked'[k].ttlAge = 0
               /\ k \notin reported' /\ ~tracked'[k].heldByOutage =>
                    tracked'[k].session.status = "stale"
    <3>1. k \in Key /\ tracked'[k] # NoRow
      BY DEF Tracked
    <3>2. \/ k \in Seen(in) /\ tracked'[k] = SightedRow(in[k])
          \/ k.agent \in bad /\ tracked'[k] = HeldRow(k, d)
          \/ k.agent \notin bad /\ tracked'[k] = StaleRow(k, d)
      BY <2>1, <3>1 DEF NextRow
    <3> QED BY <2>1, <3>2 DEF SightedRow, HeldRow, StaleRow, Kept
  <2> QED BY <2>2, <2>3 DEF RowInv
<1>2. CASE UNCHANGED vars
  BY <1>2 DEF vars, RowInv, Tracked
<1> QED BY <1>1, <1>2 DEF Next

\* Each retained row tells what the last call made of it: a reported row is
\* fresh, a row of a failed source is held with a fresh clock, and every other
\* row is stale (state.go:48-70, reduce.go:82-125).
THEOREM RowsAreAnchored == Spec => []RowInv
BY TypeCorrect, InitRowInv, StepRowInv, PTL DEF Spec

\* Every step of the reducer respects outages.
LEMMA StepOutage ==
  TypeOK /\ RowInv /\ [Next]_vars =>
    [\A k \in Gone : k.agent \notin failed \cup failed']_vars
<1> SUFFICES ASSUME TypeOK, RowInv, NEW d \in Steps, NEW bad \in SUBSET Agent,
                    NEW in \in Inputs, Reduce(d, bad, in), NEW k \in Gone
             PROVE  k.agent \notin failed \cup failed'
  BY DEF Next
<1>1. k \in Key /\ k \in Tracked /\ tracked'[k] = NoRow
  BY DEF Gone, Tracked
<1>2. tracked'[k] = NextRow(k, d, bad, in) /\ failed' = bad
  BY <1>1 DEF Reduce
<1>3. k \in Dropped(d, bad, in)
  BY <1>1, <1>2, NextRowType, NoRowAssumption
<1>4. k.agent \notin bad /\ MissedFor(k, d) > SessionTTL
  BY <1>3 DEF Dropped
<1>5. ~tracked[k].heldByOutage
  BY <1>4, Constants DEF MissedFor
<1> QED BY <1>1, <1>2, <1>4, <1>5 DEF RowInv

\* No row is dropped while its source fails or in the first healthy cycle
\* after that (reduce.go:82-103).
THEOREM OutagesNeverDropRows == Spec => NoDropAroundOutage
<1>1. TypeOK /\ RowInv /\ [Next]_vars =>
        [\A k \in Gone : k.agent \notin failed \cup failed']_vars
  BY StepOutage
<1> QED BY <1>1, TypeCorrect, RowsAreAnchored, PTL DEF Spec, NoDropAroundOutage

\* A row is shown as stale before it goes away, unless the call that drops it
\* comes more than the TTL after the one before (state.go:33-35).  The
\* condition is what a paused display breaks.
THEOREM StaleComesBeforeDrop == Spec => StaleBeforeDrop
<1>1. TypeOK /\ RowInv /\ [Next]_vars =>
        [gap' <= SessionTTL => \A k \in Gone : Announced(k)]_vars
  <2> SUFFICES ASSUME TypeOK, RowInv, NEW d \in Steps, NEW bad \in SUBSET Agent,
                      NEW in \in Inputs, Reduce(d, bad, in),
                      gap' <= SessionTTL, NEW k \in Gone
               PROVE  k \notin reported /\ tracked[k].session.status = "stale"
    BY DEF Next, Announced
  <2>1. k \in Key /\ k \in Tracked /\ tracked'[k] = NoRow /\ d <= SessionTTL
    BY DEF Gone, Tracked, Reduce
  <2>2. k \in Dropped(d, bad, in)
    BY <2>1, NextRowType, NoRowAssumption DEF Reduce
  <2>3. MissedFor(k, d) > SessionTTL
    BY <2>2 DEF Dropped
  <2>4. ~tracked[k].heldByOutage /\ tracked[k].ttlAge + d > SessionTTL
    BY <2>3, Constants DEF MissedFor
  <2>5. tracked[k].ttlAge # 0
    BY <2>1, <2>4, Constants
  <2> QED BY <2>1, <2>4, <2>5 DEF RowInv
<1> QED BY <1>1, TypeCorrect, RowsAreAnchored, PTL DEF Spec, StaleBeforeDrop

\* What a row says of its session changes only because its source said so, or
\* because a poll that succeeded left the session out: a failed poll is never
\* read as a vanished session (reduce.go:39-43, 82-94, 122-125).
THEOREM StatusChangesHaveACause == Spec => StatusHasACause
<1>1. ASSUME TypeOK, NEW d \in Steps, NEW bad \in SUBSET Agent, NEW in \in Inputs,
             Reduce(d, bad, in), NEW k \in Tracked \ Gone,
             tracked'[k].session.status # tracked[k].session.status
      PROVE  \/ k \in reported'
             \/ k.agent \notin failed' /\ tracked'[k].session.status = "stale"
  <2>1. k \in Key /\ tracked[k] # NoRow /\ tracked'[k] # NoRow
    BY <1>1 DEF Gone, Tracked
  <2>2. /\ tracked'[k] = NextRow(k, d, bad, in)
        /\ reported' = Seen(in) /\ failed' = bad
    BY <1>1, <2>1 DEF Reduce
  <2>3. \/ k \in Seen(in)
        \/ k.agent \in bad /\ tracked'[k] = HeldRow(k, d)
        \/ k.agent \notin bad /\ tracked'[k] = StaleRow(k, d)
    BY <2>1, <2>2 DEF NextRow
  <2> QED BY <1>1, <2>2, <2>3 DEF HeldRow, StaleRow, Kept
<1>2. TypeOK /\ [Next]_vars =>
        [\A k \in Tracked \ Gone :
           tracked'[k].session.status # tracked[k].session.status =>
             \/ k \in reported'
             \/ k.agent \notin failed' /\ tracked'[k].session.status = "stale"]_vars
  BY <1>1 DEF Next
<1> QED BY <1>2, TypeCorrect, PTL DEF Spec, StatusHasACause

-----------------------------------------------------------------------------
(***************************************************************************)
(* Burn deltas.  One call of Reduce records the cost of every priced part  *)
(* it emits, whatever the tables held before: only a part that is not      *)
(* tracked after the call is forgotten.                                    *)
(***************************************************************************)
LEMMA InitDeltas == Init => DeltasStartAtShown
BY DEF Init, DeltasStartAtShown, Tracked

LEMMA StepDeltas == TypeOK /\ DeltasStartAtShown /\ [Next]_vars => DeltasStartAtShown'
<1> SUFFICES ASSUME TypeOK, DeltasStartAtShown, [Next]_vars
             PROVE  DeltasStartAtShown'
  OBVIOUS
<1>1. ASSUME NEW d \in Steps, NEW bad \in SUBSET Agent, NEW in \in Inputs,
             Reduce(d, bad, in), NEW k \in Tracked', NEW p \in Kid \cup {Own}
      PROVE  LET s    == tracked'[k].session
                 last == burnLastCost'[[key |-> k, part |-> p]]
             IN PartCost(s, p) \notin {Unpriced, last} =>
                  /\ p # Own /\ last = Unpriced
                  /\ PartCost(s, p) = 0 /\ s.kids[p].started <= SeedWindow
  <2> DEFINE row == [x \in Key |-> NextRow(x, d, bad, in)]
             b   == [key |-> k, part |-> p]
             s   == row[k].session
             obs == {c \in {e \in BurnKey : row[e.key] # NoRow} :
                       Observed(row[c.key].session, c.key, c.part)}
  <2>1. /\ k \in Key /\ tracked'[k] # NoRow
        /\ b \in BurnKey /\ b.key = k /\ b.part = p
    BY DEF Tracked, BurnKey
  <2>2. tracked' = row /\ row[k] # NoRow /\ k \notin Dropped(d, bad, in)
    <3>1. tracked' = row
      BY <1>1 DEF Reduce
    <3>2. NextRow(k, d, bad, in) # NoRow
      BY <2>1, <3>1
    <3> QED BY <2>1, <3>1, <3>2, NextRowType DEF Dropped, Tracked
  <2>3. b \notin Forgotten(Dropped(d, bad, in))
    BY <2>1, <2>2 DEF Forgotten
  <2>4. burnLastCost'[b] = IF b \in obs THEN PartCost(s, p) ELSE burnLastCost[b]
    BY <1>1, <2>1, <2>3 DEF Reduce
  <2>5. b \in obs <=> Observed(s, k, p)
    BY <2>1, <2>2
  <2>6. CASE b \in obs
    BY <2>2, <2>4, <2>6
  <2>7. CASE b \notin obs
    BY <2>2, <2>4, <2>5, <2>7 DEF Observed, Seeded
  <2> QED BY <2>6, <2>7
<1>2. CASE UNCHANGED vars
  BY <1>2 DEF vars, DeltasStartAtShown, Tracked
<1> QED BY <1>1, <1>2 DEF Next, DeltasStartAtShown

\* Every priced part of a row is next compared with the cost the last snapshot
\* showed for it, so no spend is counted twice and none is skipped, but for a
\* newborn subagent that has cost nothing yet (reduce.go:253, 306-321).
THEOREM DeltasAreMeasuredFromShown == Spec => []DeltasStartAtShown
BY TypeCorrect, InitDeltas, StepDeltas, PTL DEF Spec

-----------------------------------------------------------------------------
(***************************************************************************)
(* The reducer implements RowRetention.                                    *)
(***************************************************************************)
LEMMA InitRefines == Init => Retention!Init
BY DEF Init, Retention!Init, RowPhase, RowGrace

\* What one call does to one row is a step of the abstract row.
LEMMA RowRefines ==
  ASSUME TypeOK, TypeOK', RowInv, RowInv', NEW k \in Key, NEW d \in Steps,
         NEW bad \in SUBSET Agent, NEW in \in Inputs, Reduce(d, bad, in)
  PROVE  \/ RowPhase(k)' = "live" /\ RowGrace(k)' = SessionTTL
         \/ /\ RowPhase(k) # "absent"
            /\ RowPhase(k)' = "outage" /\ RowGrace(k)' = SessionTTL
         \/ /\ RowPhase(k) = "outage"
            /\ RowPhase(k)' = "missing" /\ RowGrace(k)' = SessionTTL
         \/ /\ RowPhase(k) \in {"live", "missing"} /\ d <= RowGrace(k)
            /\ RowPhase(k)' = "missing" /\ RowGrace(k)' = RowGrace(k) - d
         \/ /\ RowPhase(k) \in {"live", "missing"} /\ d > RowGrace(k)
            /\ RowPhase(k)' = "absent" /\ RowGrace(k)' = SessionTTL
         \/ /\ RowPhase(k) = "absent"
            /\ RowPhase(k)' = "absent" /\ RowGrace(k)' = RowGrace(k)
<1>1. /\ tracked'[k] = NextRow(k, d, bad, in)
      /\ reported' = Seen(in) /\ failed' = bad
  BY DEF Reduce
<1>2. k \in Tracked => /\ tracked[k] \in Row
                       /\ tracked[k].ttlAge \in 0 .. SessionTTL
  BY DEF TypeOK, Tracked, Row
<1>3. CASE k \in Seen(in)
  <2>1. tracked'[k] = SightedRow(in[k]) /\ tracked'[k] # NoRow
    BY <1>1, <1>3, NextRowType, NoRowAssumption DEF NextRow
  <2> QED BY <1>1, <1>3, <2>1, Constants DEF RowPhase, RowGrace, SightedRow
<1>4. CASE k \notin Seen(in) /\ k \notin Tracked
  BY <1>1, <1>4 DEF RowPhase, RowGrace, NextRow, Tracked
<1>5. CASE k \in Dropped(d, bad, in)
  <2>1. /\ k \in Tracked /\ k \notin Seen(in) /\ tracked'[k] = NoRow
        /\ MissedFor(k, d) > SessionTTL
    BY <1>1, <1>5 DEF Dropped, NextRow
  <2>2. ~tracked[k].heldByOutage /\ tracked[k].ttlAge + d > SessionTTL
    BY <2>1, Constants DEF MissedFor
  <2> QED BY <1>1, <1>2, <2>1, <2>2, Constants DEF RowPhase, RowGrace, Tracked
<1>6. CASE k \in Tracked \ Seen(in) /\ k \notin Dropped(d, bad, in)
  <2>1. tracked[k] # NoRow /\ tracked'[k] # NoRow
    BY <1>1, <1>6, NextRowType, NoRowAssumption DEF Tracked
  <2>2. CASE k.agent \in bad
    <3>1. tracked'[k] = HeldRow(k, d)
      BY <1>1, <1>6, <2>2 DEF NextRow
    <3> QED BY <1>1, <1>6, <2>1, <3>1, Constants DEF RowPhase, RowGrace, HeldRow
  <2>3. CASE k.agent \notin bad
    <3>1. tracked'[k] = StaleRow(k, d)
      BY <1>1, <1>6, <2>3 DEF NextRow
    <3>2. MissedFor(k, d) <= SessionTTL
      BY <1>2, <1>6, <2>3, Constants DEF Dropped, MissedFor
    <3>3. k \in reported => ~tracked[k].heldByOutage
      BY DEF RowInv
    <3> QED BY <1>1, <1>2, <1>6, <2>1, <3>1, <3>2, <3>3, Constants
            DEF RowPhase, RowGrace, StaleRow, MissedFor
  <2> QED BY <2>2, <2>3
<1> QED BY <1>3, <1>4, <1>5, <1>6

LEMMA StepRefines ==
  TypeOK /\ TypeOK' /\ RowInv /\ RowInv' /\ [Next]_vars =>
    [Retention!Next]_<<[k \in Key |-> RowPhase(k)], [k \in Key |-> RowGrace(k)]>>
<1> SUFFICES ASSUME TypeOK, TypeOK', RowInv, RowInv', [Next]_vars
             PROVE  [Retention!Next]_<<[k \in Key |-> RowPhase(k)],
                                       [k \in Key |-> RowGrace(k)]>>
  OBVIOUS
<1>1. ASSUME NEW d \in Steps, NEW bad \in SUBSET Agent, NEW in \in Inputs,
             Reduce(d, bad, in)
      PROVE  Retention!Cycle(d)
  BY <1>1, RowRefines
     DEF Retention!Cycle, Retention!Report, Retention!Outage, Retention!Restart,
         Retention!Wait, Retention!Expire, Retention!StayAbsent
<1>2. CASE UNCHANGED vars
  BY <1>2 DEF vars, RowPhase, RowGrace
<1> QED BY <1>1, <1>2 DEF Next, Retention!Next

\* The reducer, with its stamps, outage flags and re-anchoring, keeps the
\* promise that RowRetention states without them (state.go:48-70).
THEOREM ImplementsRetention == Spec => KeepsRows
BY TypeCorrect, RowsAreAnchored, InitRefines, StepRefines, PTL
   DEF Spec, KeepsRows, Retention!Spec

-----------------------------------------------------------------------------
(***************************************************************************)
(* The pricing book and the pace of the loop.                              *)
(***************************************************************************)

\* What a reader has looked up has a price in the table it has looked it up in.
LookedUp == \A r \in Reader : reading[r] # Idle => reading[r].model \in Prices[table]

\* The UI prices models of the book.
BookInv == BookTypeOK /\ CardOfTable /\ LookedUp /\ toPrice \subseteq Model

\* Until the sampler has started, buildSources' attempt is the only one that
\* failed and none is put off, or what is left of the backoff and what has passed
\* since the last attempt make up the backoff.
RetryInv ==
  /\ sysNextRetry \in 0 .. Backoff /\ since \in 0 .. Backoff /\ failures \in 0 .. 2
  /\ \/ sysAvailable
     \/ failures = 1 /\ sysNextRetry = 0
     \/ failures = 2 /\ sysNextRetry = Backoff - since

\* A cycle that has yet to be handed over began after the last one was, and an
\* interval or more after the one before; one that has been began no earlier
\* than the one before was handed over.
SentInv ==
  /\ elapsed \in 0 .. Interval /\ sent \in 0 .. Interval /\ sentBefore \in 0 .. Interval
  /\ pc \in {"begin", "sample", "scan", "send"} =>
       elapsed <= sent /\ sentBefore = Interval
  /\ pc \in {"pace", "write"} => elapsed <= sentBefore

-----------------------------------------------------------------------------
\* The reader looks up the current table, under the lock.
LEMMA LookBookInv ==
  ASSUME BookInv, NEW r \in Reader, NEW m \in Model, Look(r, m)
  PROVE  BookTypeOK' /\ CardOfTable' /\ LookedUp'
<1> USE DEF BookInv, BookTypeOK, CardOfTable, LookedUp, Look
<1>1. CASE m \in Prices[table]
  <2>1. [model |-> m, table |-> table] \in Lookup
    BY DEF Lookup
  <2>2. reading' = [reading EXCEPT ![r] = [model |-> m, table |-> table]]
    BY <1>1
  <2>3. reading' \in [Reader -> Lookup \cup {Idle}]
    BY <2>1, <2>2
  <2> QED
    BY <1>1, <2>2, <2>3
<1>2. CASE m \notin Prices[table]
  BY <1>2
<1> QED
  BY <1>1, <1>2

\* The card it stores is of the table it has looked up, which is still there.
LEMMA CardBookInv ==
  ASSUME BookInv, NEW r \in Reader, Card(r)
  PROVE  BookTypeOK' /\ CardOfTable' /\ LookedUp'
<1> USE DEF BookInv, BookTypeOK, CardOfTable, LookedUp, Card
<1>1. /\ reading[r] \in Lookup /\ reading[r].table = table
      /\ reading[r].model \in Model /\ reading[r].model \in Prices[table]
  BY DEF Lookup
<1>2. cards' = [cards EXCEPT ![reading[r].model] = IF @ = NoCard THEN table ELSE @]
  BY <1>1
<1>3. BookTypeOK'
  BY <1>1, <1>2
<1>4. \A m \in Model : cards'[m] # NoCard => cards'[m] = table /\ m \in Prices[table]
  BY <1>1, <1>2
<1> QED
  BY <1>3, <1>4

\* The table is replaced while nobody reads, and its cards with it.
LEMMA RefreshBookInv == BookInv /\ Refresh => BookTypeOK' /\ CardOfTable' /\ LookedUp'
<1> USE DEF BookInv, BookTypeOK, CardOfTable, LookedUp
<1>1. BookInv /\ ReadCache => BookTypeOK' /\ CardOfTable' /\ LookedUp'
  BY DEF ReadCache
<1>2. BookInv /\ Fetch => BookTypeOK' /\ CardOfTable' /\ LookedUp'
  BY DEF Fetch, Fetched
<1>3. BookInv /\ Swap => BookTypeOK' /\ CardOfTable' /\ LookedUp'
  BY DEF Swap
<1> QED
  BY <1>1, <1>2, <1>3 DEF Refresh

\* No card outlives the table it was parsed from, and none is looked up in a
\* table that is replaced before the card is stored (resolve.go:70-73): for any
\* models, tables and readers, whenever the refresh comes.
THEOREM CardsOfTheTable == LoopSpec => []CardOfTable
<1>1. LoopInit => BookInv
  BY EmbeddedAssumption, PricesAssumption
     DEF LoopInit, BuildSources, BookInit, BookInv, BookTypeOK, CardOfTable, LookedUp
<1>2. BookInv /\ [LoopNext]_loopVars => BookInv'
  <2> SUFFICES ASSUME BookInv, [LoopNext]_loopVars PROVE BookInv'
    OBVIOUS
  <2>1. CASE Price
    <3>1. CASE \E m \in toPrice : Look(Ui, m) /\ toPrice' = toPrice \ {m}
      BY <3>1, LookBookInv, LoopAssumption DEF BookInv
    <3>2. CASE Card(Ui) /\ UNCHANGED toPrice
      BY <3>2, CardBookInv, LoopAssumption DEF BookInv
    <3> QED
      BY <2>1, <3>1, <3>2 DEF Price
  <2>2. CASE Refreshing
    BY <2>2, RefreshBookInv DEF Refreshing, BookInv
  <2>3. ASSUME UNCHANGED book, toPrice' \subseteq Model
        PROVE  BookInv'
    BY <2>3 DEF book, BookInv, BookTypeOK, CardOfTable, LookedUp
  <2>4. CASE Loop
    BY <2>3, <2>4
       DEF BookInv, Loop, Available, Reinit, NoRetry, Sample, Collect, Send, Write, Pace, book
  <2>5. CASE Wait \/ Change \/ Stop \/ UNCHANGED loopVars
    BY <2>3, <2>5 DEF BookInv, Wait, Change, Stop, loopVars
  <2> QED
    BY <2>1, <2>2, <2>4, <2>5 DEF LoopNext
<1>3. BookInv => CardOfTable
  BY DEF BookInv
<1> QED
  BY <1>1, <1>2, <1>3, PTL DEF LoopSpec

-----------------------------------------------------------------------------
\* The time to the next attempt and the time since the last run together, once
\* an attempt of the loop has failed (run.go:173-182).
THEOREM RetryClock == LoopSpec => []RetryInv
<1>1. LoopInit => RetryInv
  BY LoopAssumption DEF LoopInit, BuildSources, RetryInv
<1>2. RetryInv /\ [LoopNext]_loopVars => RetryInv'
  <2> SUFFICES ASSUME RetryInv, [LoopNext]_loopVars PROVE RetryInv'
    OBVIOUS
  <2>1. CASE Wait
    BY <2>1, LoopAssumption DEF RetryInv, Wait, Older
  <2>2. CASE Reinit
    BY <2>2, LoopAssumption DEF RetryInv, Reinit, Failed, Older
  <2>3. ASSUME UNCHANGED <<sysNextRetry, since, failures, sysAvailable>>
        PROVE  RetryInv'
    BY <2>3 DEF RetryInv
  <2> QED
    BY <2>1, <2>2, <2>3
       DEF LoopNext, Loop, Change, Available, NoRetry, Sample, Collect, Send, Write, Stop,
           Pace, Price, Refreshing, loopVars, clock
<1> QED
  BY <1>1, <1>2, PTL DEF LoopSpec

\* When cycles are handed over runs together with when they begin
\* (run.go:106-149).
LEMMA HandedOver == LoopSpec => []SentInv
<1>1. LoopInit => SentInv
  BY LoopAssumption DEF LoopInit, SentInv
<1>2. SentInv /\ [LoopNext]_loopVars => SentInv'
  <2> SUFFICES ASSUME SentInv, [LoopNext]_loopVars PROVE SentInv'
    OBVIOUS
  <2>1. CASE Wait
    BY <2>1, LoopAssumption DEF SentInv, Wait, Older
  <2>2. CASE Send
    BY <2>2, LoopAssumption DEF SentInv, Send
  <2>3. CASE Pace
    BY <2>3, LoopAssumption DEF SentInv, Pace
  <2>4. CASE Available \/ Reinit \/ NoRetry \/ Sample \/ Collect
    BY <2>4 DEF SentInv, Available, Reinit, NoRetry, Sample, Collect, clock
  <2>5. CASE Write \/ Stop
    BY <2>5 DEF SentInv, Write, Stop, clock
  <2>6. ASSUME UNCHANGED <<pc, clock>>
        PROVE  SentInv'
    BY <2>6 DEF SentInv, clock
  <2> QED
    BY <2>1, <2>2, <2>3, <2>4, <2>5, <2>6
       DEF LoopNext, Loop, Change, Price, Refreshing, loopVars
<1> QED
  BY <1>1, <1>2, PTL DEF LoopSpec

\* A failing sampler is started again a backoff after the last attempt, no
\* earlier, but for the loop's first, and no later than in the cycle that begins
\* then, and the display gets no three cycles within an interval
\* (run.go:38-42, 124-149, 173-182): for any interval and backoff.
THEOREM PacedLoop == LoopSpec => NeverHammered
<1>1. RetryInv /\ SentInv /\ [LoopNext]_loopVars =>
        [/\ Reinit => since = Backoff \/ failures = 1
         /\ NoRetry => since < Backoff /\ failures > 1
         /\ Send => sentBefore = Interval]_loopVars
  <2> SUFFICES ASSUME RetryInv, SentInv
               PROVE  /\ Reinit => since = Backoff \/ failures = 1
                      /\ NoRetry => since < Backoff /\ failures > 1
                      /\ Send => sentBefore = Interval
    OBVIOUS
  <2>1. Reinit => since = Backoff \/ failures = 1
    BY LoopAssumption DEF RetryInv, Reinit
  <2>2. NoRetry => since < Backoff /\ failures > 1
    BY LoopAssumption DEF RetryInv, NoRetry
  <2>3. Send => sentBefore = Interval
    BY DEF SentInv, Send
  <2> QED
    BY <2>1, <2>2, <2>3
<1> QED
  BY <1>1, RetryClock, HandedOver, PTL DEF LoopSpec, NeverHammered

-----------------------------------------------------------------------------
(***************************************************************************)
(* The process scanner.                                                    *)
(***************************************************************************)

LEMMA ScanConstants == /\ Numer \in Nat \ {0} /\ Denom \in Nat \ {0}
                   /\ MaxUse \in Nat \ {0} /\ MaxNow \in Nat \ {0}
BY TimebaseAssumption

-----------------------------------------------------------------------------
(***************************************************************************)
(* Arithmetic.                                                             *)
(***************************************************************************)
LEMMA Division ==
  ASSUME NEW a \in Nat, NEW b \in Nat \ {0}
  PROVE  /\ a \div b \in Nat /\ a % b \in Nat
         /\ a % b < b /\ a = b * (a \div b) + (a % b)
BY SMT

LEMMA Products ==
  ASSUME NEW a \in Nat, NEW b \in Nat, NEW c \in Nat
  PROVE  /\ a * b \in Nat
         /\ a <= b => a * c <= b * c
         /\ a < b /\ c > 0 => a * c + c <= b * c
BY SMT

\* The conversion by quotient and remainder is the exact one rounded down:
\* ticks * Numer = MachTicksToNs(ticks) * Denom + a remainder less than Denom
\* (delta.go, MachTicksToNs).
LEMMA MachTicksRoundDown ==
  ASSUME NEW t \in Nat
  PROVE  /\ MachTicksToNs(t) \in Nat
         /\ MachTicksToNs(t) * Denom <= t * Numer
         /\ t * Numer < MachTicksToNs(t) * Denom + Denom
<1> DEFINE q == t \div Denom
           r == t % Denom
           c == (r * Numer) \div Denom
           m == (r * Numer) % Denom
<1>1. q \in Nat /\ r \in Nat /\ t = Denom * q + r
  BY ScanConstants, Division
<1>2. r * Numer \in Nat
  BY <1>1, ScanConstants, Products
<1>3. c \in Nat /\ m \in Nat /\ m < Denom /\ r * Numer = Denom * c + m
  BY <1>2, ScanConstants, Division
<1>4. MachTicksToNs(t) = q * Numer + c
  BY DEF MachTicksToNs
<1> HIDE DEF q, r, c, m
<1>5. q * Numer \in Nat
  BY <1>1, ScanConstants, Products
<1>6. t * Numer = (q * Numer) * Denom + r * Numer
  BY <1>1, ScanConstants, SMT
<1>7. (q * Numer + c) * Denom = (q * Numer) * Denom + Denom * c
  BY <1>3, <1>5, ScanConstants, SMT
<1>8. t * Numer = (q * Numer + c) * Denom + m
  BY <1>3, <1>6, <1>7, <1>5, ScanConstants, SMT
<1> QED BY <1>3, <1>4, <1>5, <1>8, ScanConstants, SMT

-----------------------------------------------------------------------------
(***************************************************************************)
(* A counter, and the difference of two of its readings.  Ns is a counter  *)
(* in nanoseconds and Unit what one of its units is, over Denom.           *)
(***************************************************************************)
Ns(k, u) == IF k = "cpu" THEN MachTicksToNs(u) ELSE u
Unit(k) == IF k = "cpu" THEN Numer ELSE Denom

LEMMA NsRoundsDown ==
  ASSUME NEW k \in Kind, NEW u \in Nat
  PROVE  /\ Ns(k, u) \in Nat /\ Unit(k) \in Nat
         /\ Ns(k, u) * Denom <= u * Unit(k)
         /\ u * Unit(k) < Ns(k, u) * Denom + Denom
<1>1. CASE k = "cpu"
  BY <1>1, MachTicksRoundDown, ScanConstants DEF Ns, Unit
<1>2. CASE k # "cpu"
  <2>1. Ns(k, u) = u /\ Unit(k) = Denom
    BY <1>2 DEF Ns, Unit
  <2>2. u * Denom \in Nat
    BY ScanConstants, Products
  <2> QED BY <2>1, <2>2, ScanConstants
<1> QED BY <1>1, <1>2

\* No counter of the model is too big for the unsigned subtraction.
LEMMA NsBounded ==
  ASSUME NEW k \in Kind, NEW u \in 0 .. MaxUse
  PROVE  Ns(k, u) <= Numer * MaxUse
<1>1. u \in Nat /\ u * Numer <= MaxUse * Numer /\ MaxUse * Numer \in Nat
  BY ScanConstants, Products
<1>2. CASE k = "cpu"
  <2>1. Ns(k, u) \in Nat /\ Ns(k, u) * Denom <= u * Numer
    BY <1>1, <1>2, NsRoundsDown DEF Unit
  <2>2. Ns(k, u) <= Ns(k, u) * Denom
    <3>1. 1 * Ns(k, u) <= Denom * Ns(k, u)
      BY <2>1, ScanConstants, Products
    <3> QED BY <2>1, <3>1, ScanConstants
  <2>3. u * Numer \in Nat /\ Ns(k, u) * Denom \in Nat
    BY <1>1, <2>1, ScanConstants, Products
  <2> QED BY <1>1, <2>1, <2>2, <2>3, ScanConstants
<1>3. CASE k # "cpu"
  <2>1. Ns(k, u) = u
    BY <1>3 DEF Ns
  <2>2. 1 * MaxUse <= Numer * MaxUse
    BY ScanConstants, Products
  <2> QED BY <2>1, <2>2, ScanConstants
<1> QED BY <1>2, <1>3

\* The difference of a reading at v to an earlier one at u that is not above it.
LEMMA DeltaOfReadings ==
  ASSUME NEW k \in Kind, NEW u \in 0 .. MaxUse, NEW v \in 0 .. MaxUse,
         Ns(k, u) <= Ns(k, v), NEW s \in Nat
  PROVE  /\ Delta(Ns(k, u), Ns(k, v)) \in Nat
         /\ v <= u + s =>
              Delta(Ns(k, u), Ns(k, v)) * Denom < s * Unit(k) + Denom
         /\ v = u + s =>
              Delta(Ns(k, u), Ns(k, v)) * Denom > s * Unit(k) - Denom
<1> DEFINE a == Ns(k, u)
           b == Ns(k, v)
           w == Unit(k)
<1>1. /\ a \in Nat /\ b \in Nat /\ w \in Nat
      /\ a * Denom <= u * w /\ u * w < a * Denom + Denom
      /\ b * Denom <= v * w /\ v * w < b * Denom + Denom
  BY NsRoundsDown
<1>2. b <= Numer * MaxUse
  BY NsBounded
<1>3. Numer * MaxUse \in Nat
  BY ScanConstants, Products
<1> HIDE DEF a, b, w
<1>4. (b - a) \in 0 .. Numer * MaxUse
  BY <1>1, <1>2, <1>3 DEF a, b
<1>5. \A x, n \in Nat : x <= n => x % (n + 1) = x
  BY SMT
<1>6. Delta(a, b) = b - a
  BY <1>3, <1>4, <1>5 DEF Delta
<1>7. (b - a) * Denom = b * Denom - a * Denom
  BY <1>1, ScanConstants, SMT
<1>8. (u + s) * w = u * w + s * w
  BY <1>1, SMT
<1>9. /\ u * w \in Nat /\ s * w \in Nat /\ v * w \in Nat
      /\ a * Denom \in Nat /\ b * Denom \in Nat
  BY <1>1, ScanConstants, Products
<1>10. v <= u + s => v * w <= (u + s) * w
  BY <1>1, ScanConstants, Products
<1>11. v <= u + s => (b - a) * Denom < s * w + Denom
  BY <1>1, <1>7, <1>8, <1>9, <1>10, ScanConstants
<1>12. v = u + s => (b - a) * Denom > s * w - Denom
  BY <1>1, <1>7, <1>8, <1>9, ScanConstants
<1> QED BY <1>4, <1>6, <1>11, <1>12 DEF a, b, w

-----------------------------------------------------------------------------
(***************************************************************************)
(* The inductive invariant: each baseline is a reading of the counter at   *)
(* some u, taken no later than now.  A process that had started by then    *)
(* has used u and what was spent since; one that started later no more     *)
(* than was spent since.                                                   *)
(***************************************************************************)
Baseline == [ns : Nat, at : Nat]

Types ==
  /\ now \in Nat
  /\ used \in [Kind -> [Pid -> (0 .. MaxUse) \cup {None}]]
  /\ prev \in [Kind -> [Pid -> Baseline \cup {None}]]
  /\ spent \in [Kind -> [Pid -> Nat]]
  /\ \A k \in Kind : same[k] \subseteq Alive
  /\ \A p \in Pid : used["cpu"][p] = None <=> used["gpu"][p] = None

Since(k, p, u) ==
  used[k][p] # None =>
    IF p \in same[k] THEN used[k][p] = u + spent[k][p]
    ELSE used[k][p] <= spent[k][p]

ReadAt(k, p, u) ==
  prev[k][p].ns = Ns(k, u) /\ prev[k][p].at \in 0 .. now /\ Since(k, p, u)

Baselines ==
  \A k \in Kind, p \in Pid :
    prev[k][p] # None => \E u \in 0 .. MaxUse : ReadAt(k, p, u)

Inv == Types /\ Baselines

\* A process that is alive has both counters.
LEMMA AliveUsed ==
  ASSUME Types, NEW p \in Alive, NEW k \in Kind
  PROVE  p \in Pid /\ used[k][p] \in 0 .. MaxUse
BY DEF Types, Alive, Kind

LEMMA InitInv == ScanInit => Inv
<1> SUFFICES ASSUME ScanInit PROVE Inv
  OBVIOUS
<1>1. Types
  BY DEF ScanInit, Types, Nothing, Kind, Alive
<1>2. Baselines
  BY DEF ScanInit, Baselines, Nothing
<1> QED BY <1>1, <1>2 DEF Inv

LEMMA TickInv ==
  ASSUME Inv, Tick
  PROVE  Inv'
<1>1. /\ now' = now + 1 /\ used' = used /\ prev' = prev
      /\ spent' = spent /\ same' = same
  BY DEF Tick
<1>2. Types'
  BY <1>1 DEF Inv, Types, Alive
<1>3. ASSUME NEW k \in Kind, NEW p \in Pid, prev[k][p] # None
      PROVE  \E u \in 0 .. MaxUse : ReadAt(k, p, u)'
  <2>1. PICK u \in 0 .. MaxUse : ReadAt(k, p, u)
    BY <1>3 DEF Inv, Baselines
  <2> QED BY <1>1, <2>1 DEF Inv, Types, ReadAt, Since
<1> QED BY <1>1, <1>2, <1>3 DEF Inv, Baselines

LEMMA StartInv ==
  ASSUME Inv, NEW q \in Pid, Start(q)
  PROVE  Inv'
<1>1. /\ q \notin Alive /\ now' = now /\ prev' = prev
      /\ spent' = spent /\ same' = same
      /\ used' = [k \in Kind |-> [used[k] EXCEPT ![q] = 0]]
  BY DEF Start
<1>2. \A k \in Kind, p \in Pid : used'[k][p] = IF p = q THEN 0 ELSE used[k][p]
  BY <1>1 DEF Inv, Types
<1>3. used' \in [Kind -> [Pid -> (0 .. MaxUse) \cup {None}]]
  BY <1>1, ScanConstants DEF Inv, Types
<1>4. None # 0
  BY NoneAssumption
<1>5. Types'
  BY <1>1, <1>2, <1>3, <1>4 DEF Inv, Types, Alive, Kind
<1>6. ASSUME NEW k \in Kind, NEW p \in Pid, prev[k][p] # None
      PROVE  \E u \in 0 .. MaxUse : ReadAt(k, p, u)'
  <2>1. PICK u \in 0 .. MaxUse : ReadAt(k, p, u)
    BY <1>6 DEF Inv, Baselines
  <2>2. CASE p = q
    <3>1. p \notin same[k] /\ spent[k][p] \in Nat
      BY <1>1, <2>2 DEF Inv, Types
    <3>2. Since(k, p, u)'
      BY <1>1, <1>2, <2>2, <3>1 DEF Since
    <3> QED BY <1>1, <2>1, <3>2 DEF ReadAt
  <2>3. CASE p # q
    BY <1>1, <1>2, <2>1, <2>3 DEF ReadAt, Since
  <2> QED BY <2>2, <2>3
<1> QED BY <1>1, <1>5, <1>6 DEF Inv, Baselines

LEMMA ExitInv ==
  ASSUME Inv, NEW q \in Pid, Exit(q)
  PROVE  Inv'
<1>1. /\ now' = now /\ prev' = prev /\ spent' = spent
      /\ used' = [k \in Kind |-> [used[k] EXCEPT ![q] = None]]
      /\ same' = [k \in Kind |-> same[k] \ {q}]
  BY DEF Exit
<1>2. \A k \in Kind, p \in Pid : used'[k][p] = IF p = q THEN None ELSE used[k][p]
  BY <1>1 DEF Inv, Types
<1>3. used' \in [Kind -> [Pid -> (0 .. MaxUse) \cup {None}]]
  BY <1>1 DEF Inv, Types
<1>4. Types'
  BY <1>1, <1>2, <1>3 DEF Inv, Types, Alive, Kind
<1>5. ASSUME NEW k \in Kind, NEW p \in Pid, prev[k][p] # None
      PROVE  \E u \in 0 .. MaxUse : ReadAt(k, p, u)'
  <2>1. PICK u \in 0 .. MaxUse : ReadAt(k, p, u)
    BY <1>5 DEF Inv, Baselines
  <2> QED BY <1>1, <1>2, <2>1 DEF ReadAt, Since
<1> QED BY <1>1, <1>4, <1>5 DEF Inv, Baselines

LEMMA UseInv ==
  ASSUME Inv, NEW j \in Kind, NEW q \in Pid, Works(j, q)
  PROVE  Inv'
<1>1. /\ now' = now /\ prev' = prev /\ same' = same
      /\ used' = [used EXCEPT ![j][q] = @ + 1]
      /\ spent' = IF prev[j][q] = None THEN spent
                  ELSE [spent EXCEPT ![j][q] = @ + 1]
      /\ q \in Alive /\ used[j][q] < MaxUse
  BY DEF Works
<1>2. used[j][q] \in 0 .. MaxUse
  BY <1>1, AliveUsed DEF Inv
<1>3. /\ used' \in [Kind -> [Pid -> (0 .. MaxUse) \cup {None}]]
      /\ spent' \in [Kind -> [Pid -> Nat]]
  BY <1>1, <1>2, ScanConstants DEF Inv, Types
<1>4. \A k \in Kind, p \in Pid :
        used'[k][p] = IF k = j /\ p = q THEN used[k][p] + 1 ELSE used[k][p]
  BY <1>1 DEF Inv, Types
<1>5. \A k \in Kind, p \in Pid : used'[k][p] = None <=> used[k][p] = None
  <2>1. used[j][q] + 1 \in Nat
    BY <1>2
  <2> QED BY <1>2, <1>4, <2>1, NoneAssumption
<1>6. Types'
  BY <1>1, <1>3, <1>5 DEF Inv, Types, Alive, Kind
<1>7. ASSUME NEW k \in Kind, NEW p \in Pid, prev[k][p] # None
      PROVE  \E u \in 0 .. MaxUse : ReadAt(k, p, u)'
  <2>1. PICK u \in 0 .. MaxUse : ReadAt(k, p, u)
    BY <1>7 DEF Inv, Baselines
  <2>2. CASE k = j /\ p = q
    <3>1. spent'[k][p] = spent[k][p] + 1 /\ spent[k][p] \in Nat
      BY <1>1, <1>7, <2>2 DEF Inv, Types
    <3>2. Since(k, p, u)'
      BY <1>1, <1>2, <1>4, <1>5, <2>1, <2>2, <3>1 DEF ReadAt, Since
    <3> QED BY <1>1, <2>1, <3>2 DEF ReadAt
  <2>3. CASE ~ (k = j /\ p = q)
    <3>1. used'[k][p] = used[k][p] /\ spent'[k][p] = spent[k][p]
      BY <1>1, <1>4, <2>3 DEF Inv, Types
    <3> QED BY <1>1, <2>1, <3>1 DEF ReadAt, Since
  <2> QED BY <2>2, <2>3
<1> QED BY <1>1, <1>6, <1>7 DEF Inv, Baselines

\* A scan that was cancelled and one that was not: each baseline it leaves is a
\* reading made in it or the one before.
LEMMA RebasedInv ==
  ASSUME Inv, NEW base \in [Kind -> [Pid -> Baseline \cup {None}]], NEW read,
         \A k \in Kind : read[k] \subseteq Alive,
         \A k \in Kind, p \in Pid : base[k][p] # None =>
           base[k][p] = IF p \in read[k] THEN [ns |-> Reading(k, p), at |-> now]
                        ELSE prev[k][p],
         Rebased(base, read), UNCHANGED <<now, used>>
  PROVE  Inv'
<1>1. /\ now' = now /\ used' = used /\ prev' = base
      /\ spent' = [k \in Kind |-> [p \in Pid |->
                     IF p \in read[k] \/ base[k][p] = None THEN 0 ELSE spent[k][p]]]
      /\ same' = [k \in Kind |->
                    {p \in Alive : p \in same[k] \cup read[k] /\ base[k][p] # None}]
  BY DEF Rebased
<1>2. Types'
  BY <1>1 DEF Inv, Types, Alive
<1>3. ASSUME NEW k \in Kind, NEW p \in Pid, base[k][p] # None
      PROVE  \E u \in 0 .. MaxUse : ReadAt(k, p, u)'
  <2>1. CASE p \in read[k]
    <3>1. p \in Alive /\ used[k][p] \in 0 .. MaxUse
      BY <2>1, AliveUsed DEF Inv
    <3>2. prev'[k][p] = [ns |-> Ns(k, used[k][p]), at |-> now]
      BY <1>1, <1>3, <2>1 DEF Reading, Ns
    <3>3. spent'[k][p] = 0 /\ p \in same'[k]
      BY <1>1, <1>3, <2>1, <3>1
    <3>4. ReadAt(k, p, used[k][p])'
      BY <1>1, <3>1, <3>2, <3>3 DEF Inv, Types, ReadAt, Since, Ns, MachTicksToNs
    <3> QED BY <3>1, <3>4
  <2>2. CASE p \notin read[k]
    <3>1. base[k][p] = prev[k][p] /\ prev[k][p] # None
      BY <1>3, <2>2
    <3>2. PICK u \in 0 .. MaxUse : ReadAt(k, p, u)
      BY <3>1 DEF Inv, Baselines
    <3>3. spent'[k][p] = spent[k][p] /\ (used[k][p] # None => p \in Alive)
      BY <1>1, <1>3, <2>2 DEF Inv, Types, Alive, Kind
    <3>4. used[k][p] # None => (p \in same'[k] <=> p \in same[k])
      BY <1>1, <1>3, <2>2, <3>3
    <3> QED BY <1>1, <3>1, <3>2, <3>3, <3>4 DEF ReadAt, Since
  <2> QED BY <2>1, <2>2
<1> QED BY <1>1, <1>2, <1>3 DEF Inv, Baselines

LEMMA UpdatedType ==
  ASSUME Inv, NEW k \in Kind, NEW read \in SUBSET Alive
  PROVE  /\ Updated(k, read) \in [Pid -> Baseline \cup {None}]
         /\ \A p \in Pid : Updated(k, read)[p] =
              IF p \in read THEN [ns |-> Reading(k, p), at |-> now] ELSE prev[k][p]
<1>1. ASSUME NEW p \in read
      PROVE  [ns |-> Reading(k, p), at |-> now] \in Baseline
  <2>1. used[k][p] \in Nat
    BY AliveUsed, ScanConstants DEF Inv
  <2>2. Reading(k, p) = Ns(k, used[k][p])
    BY DEF Reading, Ns
  <2> QED BY <2>1, <2>2, NsRoundsDown DEF Baseline, Inv, Types
<1> QED BY <1>1 DEF Updated, Inv, Types

LEMMA ScanInv ==
  ASSUME Inv, NEW read \in SUBSET Alive, NEW drawing \in SUBSET Alive,
         Scan(read, drawing) \/ ScanCut(read, drawing)
  PROVE  Inv'
<1> DEFINE who == [cpu |-> read, gpu |-> drawing]
           new(k) == Updated(k, who[k])
<1>1. PICK base : /\ Rebased(base, who) /\ UNCHANGED <<now, used>>
                  /\ \/ base = [cpu |-> Pruned(new("cpu"), read),
                                gpu |-> Pruned(new("gpu"), read)]
                     \/ base = [cpu |-> new("cpu"), gpu |-> new("gpu")]
  BY DEF Scan, ScanCut
<1>2. \A k \in Kind : who[k] \in SUBSET Alive
  BY DEF Kind
<1>3. \A k \in Kind : /\ new(k) \in [Pid -> Baseline \cup {None}]
                      /\ Pruned(new(k), read) \in [Pid -> Baseline \cup {None}]
  BY <1>2, UpdatedType DEF Pruned
<1>4. \A k \in Kind : base[k] = Pruned(new(k), read) \/ base[k] = new(k)
  BY <1>1 DEF Kind
<1>5. base \in [Kind -> [Pid -> Baseline \cup {None}]]
  BY <1>1, <1>3 DEF Kind
<1>6. ASSUME NEW k \in Kind, NEW p \in Pid, base[k][p] # None
      PROVE  base[k][p] = IF p \in who[k] THEN [ns |-> Reading(k, p), at |-> now]
                          ELSE prev[k][p]
  <2>1. base[k][p] = new(k)[p]
    BY <1>4, <1>6 DEF Pruned
  <2> QED BY <1>2, <2>1, UpdatedType
<1> HIDE DEF who
<1> QED BY <1>1, <1>2, <1>5, <1>6, RebasedInv

LEMMA StepInv == Inv /\ [ScanNext]_scanVars => Inv'
<1> SUFFICES ASSUME Inv, [ScanNext]_scanVars PROVE Inv'
  OBVIOUS
<1>1. CASE UNCHANGED scanVars
  BY <1>1 DEF scanVars, Inv, Types, Baselines, ReadAt, Since, Alive, Ns, MachTicksToNs
<1> QED BY <1>1, TickInv, StartInv, ExitInv, UseInv, ScanInv DEF ScanNext

LEMMA InvHolds == ScanSpec => []Inv
BY InitInv, StepInv, PTL DEF ScanSpec

-----------------------------------------------------------------------------
\* What one scan reports of one process.
LEMMA ReportIsTrue ==
  ASSUME Inv, NEW k \in Kind, NEW p \in Pid, NEW read \in SUBSET Alive,
         Reported(k, read)[p] # None
  PROVE  LET r == Reported(k, read)[p]
         IN /\ r.delta * Denom < spent[k][p] * Unit(k) + Denom
            /\ p \in same[k] /\ r.wall > 0 =>
                 r.delta * Denom > spent[k][p] * Unit(k) - Denom
<1>1. spent[k][p] \in Nat /\ Unit(k) \in Nat /\ spent[k][p] * Unit(k) \in Nat
  BY ScanConstants, Products DEF Inv, Types, Unit
<1>2. CASE /\ p \in read /\ prev[k][p] # None
           /\ Usable(prev[k][p].ns, Reading(k, p), now - prev[k][p].at)
  <2>1. Reported(k, read)[p] = [delta |-> Delta(prev[k][p].ns, Reading(k, p)),
                                wall  |-> now - prev[k][p].at]
    BY <1>2 DEF Reported
  <2>2. used[k][p] \in 0 .. MaxUse /\ used[k][p] # None
    BY <1>2, AliveUsed, NoneAssumption DEF Inv
  <2>3. PICK u \in 0 .. MaxUse : ReadAt(k, p, u)
    BY <1>2 DEF Inv, Baselines
  <2>4. Reading(k, p) = Ns(k, used[k][p]) /\ prev[k][p].ns = Ns(k, u)
    BY <2>3 DEF Reading, Ns, ReadAt
  <2>5. Ns(k, u) <= Ns(k, used[k][p])
    BY <1>2, <2>4 DEF Usable
  <2>6. used[k][p] <= u + spent[k][p]
    BY <1>1, <2>2, <2>3 DEF ReadAt, Since
  <2>7. p \in same[k] => used[k][p] = u + spent[k][p]
    BY <2>2, <2>3 DEF ReadAt, Since
  <2> QED BY <1>1, <2>1, <2>2, <2>4, <2>5, <2>6, <2>7, DeltaOfReadings
<1>3. CASE ~ (/\ p \in read /\ prev[k][p] # None
              /\ Usable(prev[k][p].ns, Reading(k, p), now - prev[k][p].at))
  <2>1. Reported(k, read)[p] = [delta |-> 0, wall |-> 0]
    BY <1>3 DEF Reported
  <2> QED BY <1>1, <2>1, ScanConstants
<1> QED BY <1>2, <1>3

\* No process is said to have used more than was used under its pid since the
\* last reading, whoever had the pid then; of the same process the report is
\* right to a nanosecond.  The counters never wrap in the subtraction
\* (delta.go:18-20, 37-42).
THEOREM SharesAreTrue == ScanSpec => ShareIsTrue
<1>1. ASSUME Inv, NEW k \in Kind, NEW p \in Pid,
             NEW read \in SUBSET Alive, NEW drawing \in SUBSET Alive,
             Scan(read, drawing), shown'[k][p] # None
      PROVE  LET real == IF k = "cpu" THEN spent[k][p] * Numer
                         ELSE spent[k][p] * Denom
                 told == shown'[k][p].delta * Denom
             IN /\ told < real + Denom
                /\ p \in same[k] /\ shown'[k][p].wall > 0 => told > real - Denom
  <2>1. shown' = [cpu |-> Reported("cpu", read),
                  gpu |-> [x \in Pid |-> IF x \in read
                                         THEN Reported("gpu", drawing)[x] ELSE None]]
    BY <1>1 DEF Scan
  <2>2. PICK who \in {read, drawing} : shown'[k][p] = Reported(k, who)[p]
    BY <1>1, <2>1 DEF Kind
  <2> QED BY <1>1, <2>2, ReportIsTrue DEF Unit
<1>2. Inv /\ [ScanNext]_scanVars =>
        [\A k \in Kind, p \in Pid :
           LET real == IF k = "cpu" THEN spent[k][p] * Numer
                       ELSE spent[k][p] * Denom
               told == shown'[k][p].delta * Denom
           IN (\E read, drawing \in SUBSET Alive : Scan(read, drawing))
                /\ shown'[k][p] # None =>
                /\ told < real + Denom
                /\ p \in same[k] /\ shown'[k][p].wall > 0 => told > real - Denom]_scanVars
  BY <1>1
<1> QED BY <1>2, InvHolds, PTL DEF ScanSpec, ShareIsTrue

-----------------------------------------------------------------------------
(***************************************************************************)
(* The display: its state, and how many rows there are to select.          *)
(***************************************************************************)
LEMMA ShotIs ==
  ASSUME NEW shot \in Sessions
  PROVE  /\ shot \in Seq(SessionView) /\ shot # NoSnapshot /\ Len(shot) \in Nat
         /\ DOMAIN shot = 1 .. Len(shot) /\ IsFiniteSet(DOMAIN shot)
         /\ \A i \in DOMAIN shot : shot[i] \in SessionView
<1>1. shot \in Seq(SessionView) /\ shot # NoSnapshot
  BY SessionsAssumption
<1>2. Len(shot) \in Nat /\ DOMAIN shot = 1 .. Len(shot) /\ \A i \in DOMAIN shot : shot[i] \in SessionView
  BY <1>1
<1>3. IsFiniteSet(1 .. Len(shot))
  BY <1>2, FS_Interval
<1> QED BY <1>1, <1>2, <1>3

LEMMA SumNat ==
  ASSUME NEW f, NEW S, IsFiniteSet(S), \A x \in S : f[x] \in Nat
  PROVE  Sum(f, S) \in Nat
<1> DEFINE G == {T \in SUBSET S : Sum(f, T) \in Nat}
<1>1. {} \in G
  BY SumEmpty
<1>2. ASSUME NEW T \in SUBSET S, T # {}, \A x \in T : T \ {x} \in G PROVE T \in G
  <2>1. IsFiniteSet(T)
    BY FS_Subset
  <2> DEFINE c == First(T)
  <2>2. c \in T /\ Sum(f, T) = f[c] + Sum(f, T \ {c})
    BY <1>2, <2>1, SumFirst
  <2> HIDE DEF c
  <2>3. f[c] \in Nat /\ Sum(f, T \ {c}) \in Nat
    BY <1>2, <2>2
  <2> QED BY <2>2, <2>3
<1> HIDE DEF G
<1>3. S \in G
  BY <1>1, <1>2, SubsetBySubset
<1> QED BY <1>3 DEF G

\* Listed, RowsOf and FlatRowCount of any snapshot and flags.
ListedIn(shot, flags) ==
  IF shot = NoSnapshot THEN {} ELSE {i \in DOMAIN shot : "showAll" \in flags \/ ~Dormant(shot[i])}
RowsIn(s, flags) ==
  1 + (IF "filtered" \in flags THEN 0
       ELSE Cardinality({i \in DOMAIN s.subagents : s.subagents[i].workflow = ""})
              + Len(s.workflows))
CountIn(shot, flags) == SumFunction([i \in ListedIn(shot, flags) |-> RowsIn(shot[i], flags)])

LEMMA CountIs == /\ FlatRowCount = CountIn(snap, on)
                 /\ FlatRowCount' = CountIn(snap', on')
BY DEF FlatRowCount, CountIn, Listed, ListedIn, RowsOf, RowsIn, ChildRows

LEMMA RowsType ==
  ASSUME NEW s \in SessionView, NEW flags
  PROVE  RowsIn(s, flags) \in Nat \ {0}
<1> DEFINE plain == {i \in DOMAIN s.subagents : s.subagents[i].workflow = ""}
<1>1. s.subagents \in Seq([workflow : STRING]) /\ s.workflows \in Seq(STRING)
  BY DEF SessionView
<1>2. DOMAIN s.subagents = 1 .. Len(s.subagents) /\ Len(s.subagents) \in Nat /\ Len(s.workflows) \in Nat
  BY <1>1
<1>3. IsFiniteSet(DOMAIN s.subagents)
  BY <1>2, FS_Interval
<1>4. IsFiniteSet(plain)
  <2>1. plain \in SUBSET DOMAIN s.subagents
    OBVIOUS
  <2> HIDE DEF plain
  <2> QED BY <1>3, <2>1, FS_Subset
<1>5. Cardinality(plain) \in Nat
  <2> HIDE DEF plain
  <2> QED BY <1>4, FS_CardinalityType
<1> DEFINE p == Cardinality(plain)
           w == Len(s.workflows)
<1>6. RowsIn(s, flags) = 1 + (IF "filtered" \in flags THEN 0 ELSE p + w)
  BY DEF RowsIn
<1>7. p \in Nat /\ w \in Nat
  BY <1>2, <1>5
<1> HIDE DEF p, w, plain
<1> QED BY <1>6, <1>7

LEMMA CountType ==
  ASSUME NEW shot \in Sessions \cup {NoSnapshot}, NEW flags
  PROVE  /\ IsFiniteSet(ListedIn(shot, flags)) /\ CountIn(shot, flags) \in Nat
         /\ CountIn(shot, flags)
              = Sum([i \in ListedIn(shot, flags) |-> RowsIn(shot[i], flags)], ListedIn(shot, flags))
<1> DEFINE L == ListedIn(shot, flags)
           f == [i \in L |-> RowsIn(shot[i], flags)]
<1>1. IsFiniteSet(L) /\ \A i \in L : shot[i] \in SessionView
  <2>1. CASE shot = NoSnapshot
    BY <2>1, FS_EmptySet DEF ListedIn
  <2>2. CASE shot \in Sessions
    <3>1. IsFiniteSet(DOMAIN shot) /\ \A i \in DOMAIN shot : shot[i] \in SessionView
      BY <2>2, ShotIs
    <3>2. L \in SUBSET DOMAIN shot
      BY <2>2, ShotIs DEF ListedIn
    <3> HIDE DEF L
    <3> QED BY <3>1, <3>2, FS_Subset
  <2> QED BY <2>1, <2>2
<1>2. CountIn(shot, flags) = Sum(f, L)
  <2>1. DOMAIN f = L
    OBVIOUS
  <2>2. CountIn(shot, flags) = SumFunction(f)
    BY DEF CountIn
  <2> HIDE DEF f, L
  <2> QED BY <2>1, <2>2, SumFunctionIs
<1> HIDE DEF L
<1>3. \A i \in L : f[i] \in Nat
  BY <1>1, RowsType
<1> HIDE DEF f
<1>4. Sum(f, L) \in Nat
  BY <1>1, <1>3, SumNat
<1> QED BY <1>1, <1>2, <1>4 DEF f, L

\* Only these two flags decide on the rows.
LEMMA CountSame ==
  ASSUME NEW shot, NEW a, NEW b,
         "showAll" \in a <=> "showAll" \in b, "filtered" \in a <=> "filtered" \in b
  PROVE  CountIn(shot, a) = CountIn(shot, b)
<1>1. ListedIn(shot, a) = ListedIn(shot, b)
  BY DEF ListedIn
<1>2. \A s : RowsIn(s, a) = RowsIn(s, b)
  BY DEF RowsIn
<1>3. [i \in ListedIn(shot, a) |-> RowsIn(shot[i], a)]
        = [i \in ListedIn(shot, b) |-> RowsIn(shot[i], b)]
  BY <1>1, <1>2
<1> QED BY <1>3 DEF CountIn

\* Everything has its type, and the selected row is one of the table's.
UiInv ==
  /\ snap \in Sessions \cup {NoSnapshot} /\ notices \in SUBSET Notice
  /\ sort \in DOMAIN SortKeys /\ theme \in DOMAIN ThemeNames
  /\ on \in SUBSET Flag /\ size \in Nat \X Nat
  /\ selected \in Nat /\ (FlatRowCount > 0 => selected < FlatRowCount)

LEMMA ThemesAre ==
  /\ ThemeNames \in Seq(STRING \X Nat) /\ Len(ThemeNames) \in Nat \ {0}
  /\ DOMAIN ThemeNames = 1 .. Len(ThemeNames)
<1>1. CASE Contains(Palettes, Given)
  <2>1. Len(Palettes) # 0
    BY <1>1, DisplayAssumption DEF Contains
  <2> QED BY <1>1, <2>1, DisplayAssumption DEF ThemeNames
<1>2. CASE ~Contains(Palettes, Given)
  <2>1. <<Given>> \in Seq(STRING \X Nat) /\ Palettes \in Seq(STRING \X Nat)
    BY DisplayAssumption
  <2>2. ThemeNames = <<Given>> \o Palettes
    BY <1>2 DEF ThemeNames
  <2> QED BY <2>1, <2>2
<1> QED BY <1>1, <1>2

LEMMA ClampedIs ==
  ASSUME NEW n \in Nat, NEW count \in Nat
  PROVE  Clamped(n, count) \in Nat /\ (count > 0 => Clamped(n, count) < count)
BY DEF Clamped, AtLeast, AtMost

LEMMA UiStarts == UiInit => UiInv
<1> SUFFICES ASSUME UiInit PROVE UiInv
  OBVIOUS
<1>1. theme \in DOMAIN ThemeNames
  <2>1. CASE Contains(Palettes, Given)
    <3>1. \E i \in DOMAIN Palettes : Palettes[i] = Given
      BY <2>1, DisplayAssumption DEF Contains
    <3> QED BY <2>1, <3>1 DEF UiInit, ThemeNames
  <2>2. CASE ~Contains(Palettes, Given)
    BY <2>2, ThemesAre DEF UiInit
  <2> QED BY <2>1, <2>2
<1>2. selected \in Nat /\ (FlatRowCount > 0 => selected < FlatRowCount)
  <2>1. CountIn(snap, on) \in Nat
    BY CountType DEF UiInit
  <2> QED BY <2>1, CountIs DEF UiInit
<1>3. sort \in DOMAIN SortKeys
  BY DEF UiInit, SortKeys
<1> QED BY <1>1, <1>2, <1>3 DEF UiInit, UiInv

LEMMA UiKeeps == UiInv /\ [UiNext]_uiVars => UiInv'
<1> SUFFICES ASSUME UiInv, [UiNext]_uiVars PROVE UiInv'
  OBVIOUS
<1>1. /\ CountIn(snap, on) \in Nat
      /\ \A shot \in Sessions \cup {NoSnapshot} : \A flags : CountIn(shot, flags) \in Nat
  BY CountType DEF UiInv
<1>2. /\ FlatRowCount = CountIn(snap, on) /\ FlatRowCount' = CountIn(snap', on')
  BY CountIs
<1>3. ASSUME UNCHANGED view, snap' \in Sessions, notices' \in SUBSET Notice,
             selected' = Clamped(selected, FlatRowCount')
      PROVE  UiInv'
  BY <1>1, <1>2, <1>3, ClampedIs DEF UiInv, view, ThemeNames
<1>4. ASSUME NEW flag \in Flag, Toggled(flag), selected' = Clamped(selected, FlatRowCount')
      PROVE  UiInv'
  <2>1. on' \in SUBSET Flag
    BY <1>4 DEF UiInv, Toggled
  <2>2. /\ snap' = snap /\ notices' = notices /\ sort' = sort /\ theme' = theme /\ size' = size
    BY <1>4 DEF Toggled
  <2>3. selected' \in Nat /\ (FlatRowCount' > 0 => selected' < FlatRowCount')
    BY <1>1, <1>2, <1>4, <2>2, ClampedIs DEF UiInv
  <2> QED BY <2>1, <2>2, <2>3 DEF UiInv, ThemeNames
<1>5. ASSUME selected' = selected, snap' = snap, notices' = notices,
             "showAll" \in on <=> "showAll" \in on', "filtered" \in on <=> "filtered" \in on',
             on' \in SUBSET Flag, sort' \in DOMAIN SortKeys, theme' \in DOMAIN ThemeNames,
             size' \in Nat \X Nat
      PROVE  UiInv'
  <2>1. FlatRowCount' = FlatRowCount
    BY <1>2, <1>5, CountSame
  <2>2. selected' \in Nat /\ (FlatRowCount' > 0 => selected' < FlatRowCount')
    BY <1>5, <2>1 DEF UiInv
  <2> QED BY <1>5, <2>2 DEF UiInv, ThemeNames
<1>6. CASE UNCHANGED uiVars
  BY <1>5, <1>6 DEF UiInv, uiVars, view
<1>7. CASE Cycle
  BY <1>3, <1>6, <1>7 DEF Cycle
<1>8. CASE Resize
  BY <1>5, <1>8, DisplayAssumption DEF Resize, UiInv
<1>9. CASE Up
  <2>1. selected' \in Nat /\ selected' <= selected
    BY <1>9 DEF Up, UiInv, AtLeast
  <2>2. snap' = snap /\ notices' = notices /\ UNCHANGED view
    BY <1>9 DEF Up
  <2>3. selected' \in Nat /\ (FlatRowCount' > 0 => selected' < FlatRowCount')
    BY <1>1, <1>2, <2>1, <2>2 DEF UiInv, view
  <2> QED BY <2>2, <2>3 DEF UiInv, view, ThemeNames
<1>10. CASE Down
  <2>1. snap' = snap /\ notices' = notices /\ UNCHANGED view
    BY <1>10 DEF Down
  <2>2. selected' = IF selected < CountIn(snap, on) - 1 THEN selected + 1 ELSE selected
    BY <1>2, <1>10 DEF Down
  <2>3. FlatRowCount' = CountIn(snap, on)
    BY <1>2, <2>1 DEF view
  <2> HIDE DEF FlatRowCount
  <2>4. selected' \in Nat /\ (FlatRowCount' > 0 => selected' < FlatRowCount')
    BY <1>1, <1>2, <2>2, <2>3 DEF UiInv
  <2> QED BY <2>1, <2>4 DEF UiInv, view, ThemeNames
<1>11. CASE CycleSort
  <2>1. sort' \in DOMAIN SortKeys
    BY <1>11 DEF CycleSort, SortKeys, UiInv
  <2> QED BY <1>5, <1>11, <2>1 DEF CycleSort, UiInv
<1>12. CASE CycleTheme
  <2> DEFINE n == Len(ThemeNames)
  <2>1. n \in Nat \ {0} /\ theme \in 1 .. n /\ DOMAIN ThemeNames = 1 .. n
    BY ThemesAre DEF UiInv
  <2>2. PICK dir \in {1, n - 1} : theme' = ((theme - 1 + dir) % n) + 1
    BY <1>12 DEF CycleTheme
  <2> HIDE DEF n
  <2>3. theme' \in 1 .. n
    <3>1. (theme - 1 + dir) \in Int
      BY <2>1, <2>2
    <3>2. (theme - 1 + dir) % n \in 0 .. n - 1
      BY <2>1, <3>1
    <3> QED BY <2>1, <2>2, <3>2
  <2> QED BY <1>5, <1>12, <2>1, <2>3 DEF CycleTheme, UiInv
<1>13. CASE ToggleFilter
  BY <1>4, <1>13 DEF ToggleFilter, Flag
<1>14. CASE ToggleShowAll
  BY <1>4, <1>14 DEF ToggleShowAll, Flag
<1>15. CASE ToggleScreen
  <2>1. PICK flag \in {"paused", "metersOnly", "detail", "help"} :
          Toggled(flag) /\ UNCHANGED selected
    BY <1>15 DEF ToggleScreen
  <2> QED BY <1>5, <2>1 DEF Toggled, UiInv, Flag
<1> QED BY <1>6, <1>7, <1>8, <1>9, <1>10, <1>11, <1>12, <1>13, <1>14, <1>15 DEF UiNext, Pressed

\* Whatever keys, sizes and cycles come in whatever order, the selected row is one
\* of those there are: a cycle and the two keys that take rows away clamp it, and
\* no other handler changes the rows (ui/model.go:129-191, 324-331).
THEOREM SelectionStaysOnTheTable == UiSpec => []UiInv
<1> QED BY UiStarts, UiKeeps, PTL DEF UiSpec

-----------------------------------------------------------------------------
(***************************************************************************)
(* The order of the table: a rank for each listed session, no two alike.   *)
(***************************************************************************)
\* The first key of the sort; MetricOf is the second.
Late(s) == IF Dormant(s) THEN 1 ELSE 0

LEMMA BeforeIs ==
  ASSUME UiInv, NEW s \in SessionView, NEW t \in SessionView
  PROVE  /\ MetricOf(s) \in Nat /\ Late(s) \in 0 .. 1
         /\ Before(s, t) <=> Late(s) < Late(t) \/ (Late(s) = Late(t) /\ MetricOf(s) > MetricOf(t))
<1>1. ASSUME NEW u \in SessionView PROVE MetricOf(u) \in Nat
  <2>1. u.metric \in [{"cost", "burn", "cpu"} -> Nat \cup {NoValue}]
    BY DEF SessionView
  <2>2. SortKeys[sort] # "status" => SortKeys[sort] \in {"cost", "burn", "cpu"}
    BY DEF UiInv, SortKeys
  <2> QED BY <2>1, <2>2 DEF MetricOf, OrZero
<1>2. (Dormant(s) \in BOOLEAN) /\ (Dormant(t) \in BOOLEAN)
  BY DEF SessionView, Dormant
<1> QED BY <1>1, <1>2 DEF Late, Before

\* Whether the session at j goes above the one at i.
Over(j, i) == Before(snap[j], snap[i]) \/ (j < i /\ ~Before(snap[i], snap[j]))
OverOf(i) == {j \in Listed : Over(j, i)}
Rank(i) == Cardinality(OverOf(i))

LEMMA ListedIs ==
  ASSUME UiInv
  PROVE  /\ IsFiniteSet(Listed) /\ Cardinality(Listed) \in Nat
         /\ \A i \in Listed : /\ snap \in Sessions /\ i \in DOMAIN snap /\ i \in Nat
                              /\ snap[i] \in SessionView
<1>1. CASE snap = NoSnapshot
  BY <1>1, FS_EmptySet DEF Listed
<1>2. CASE snap # NoSnapshot
  <2>1. snap \in Sessions
    BY <1>2 DEF UiInv
  <2>2. /\ DOMAIN snap = 1 .. Len(snap) /\ Len(snap) \in Nat /\ IsFiniteSet(DOMAIN snap)
        /\ \A i \in DOMAIN snap : snap[i] \in SessionView
    BY <2>1, ShotIs
  <2>3. Listed \in SUBSET DOMAIN snap
    BY <1>2 DEF Listed
  <2>4. IsFiniteSet(Listed) /\ Cardinality(Listed) \in Nat
    BY <2>2, <2>3, FS_Subset, FS_CardinalityType
  <2> QED BY <2>1, <2>2, <2>3, <2>4
<1> QED BY <1>1, <1>2

LEMMA OverIs ==
  ASSUME UiInv
  PROVE  /\ \A i \in Listed : ~Over(i, i)
         /\ \A i, j \in Listed : i # j => Over(i, j) \/ Over(j, i)
         /\ \A i, j, k \in Listed : Over(k, j) /\ Over(j, i) => Over(k, i)
         /\ \A i, j \in Listed : Over(j, i) => ~Before(snap[i], snap[j])
<1> DEFINE d(i) == Late(snap[i])
           m(i) == MetricOf(snap[i])
<1>1. \A i \in Listed : i \in Nat /\ d(i) \in 0 .. 1 /\ m(i) \in Nat
  BY ListedIs, BeforeIs
<1>2. \A i, j \in Listed : Before(snap[j], snap[i]) <=> d(j) < d(i) \/ (d(j) = d(i) /\ m(j) > m(i))
  BY ListedIs, BeforeIs
<1> HIDE DEF d, m
<1>3. \A i, j \in Listed :
        Over(j, i) <=> \/ d(j) < d(i)
                       \/ d(j) = d(i) /\ m(j) > m(i)
                       \/ d(j) = d(i) /\ m(j) = m(i) /\ j < i
  BY <1>1, <1>2 DEF Over
<1>4. \A i \in Listed : ~Over(i, i)
  BY <1>1, <1>3
<1>5. \A i, j \in Listed : i # j => Over(i, j) \/ Over(j, i)
  BY <1>1, <1>3
<1>6. \A i, j, k \in Listed : Over(k, j) /\ Over(j, i) => Over(k, i)
  BY <1>1, <1>3
<1>7. \A i, j \in Listed : Over(j, i) => ~Before(snap[i], snap[j])
  BY <1>1, <1>2, <1>3
<1> QED BY <1>4, <1>5, <1>6, <1>7

LEMMA RankGrows ==
  ASSUME UiInv, NEW i \in Listed, NEW j \in Listed
  PROVE  /\ Rank(i) \in 0 .. Cardinality(Listed) - 1
         /\ Over(j, i) <=> Rank(j) < Rank(i)
         /\ Rank(i) = Rank(j) => i = j
<1>1. \A k \in Listed : IsFiniteSet(OverOf(k)) /\ Rank(k) \in Nat
  <2>1. \A k \in Listed : OverOf(k) \in SUBSET Listed
    BY DEF OverOf
  <2>2. \A k \in Listed : IsFiniteSet(OverOf(k))
    BY <2>1, ListedIs, FS_Subset
  <2> QED BY <2>2, FS_CardinalityType DEF Rank
<1>2. ASSUME NEW k \in Listed, NEW l \in Listed, Over(l, k) PROVE Rank(l) < Rank(k)
  <2>1. OverOf(l) \in SUBSET OverOf(k) /\ l \in OverOf(k) /\ l \notin OverOf(l)
    BY <1>2, OverIs DEF OverOf
  <2>2. /\ Cardinality(OverOf(l)) <= Cardinality(OverOf(k))
        /\ Cardinality(OverOf(k)) = Cardinality(OverOf(l)) => OverOf(k) = OverOf(l)
    BY <1>1, <2>1, FS_Subset
  <2> QED BY <1>1, <2>1, <2>2 DEF Rank
<1>3. Rank(i) < Cardinality(Listed)
  <2>1. OverOf(i) \in SUBSET Listed /\ i \notin OverOf(i)
    BY OverIs DEF OverOf
  <2>2. /\ Cardinality(OverOf(i)) <= Cardinality(Listed)
        /\ Cardinality(Listed) = Cardinality(OverOf(i)) => Listed = OverOf(i)
    BY <2>1, ListedIs, FS_Subset
  <2> QED BY <1>1, <2>1, <2>2, ListedIs DEF Rank
<1>4. i = j \/ Over(i, j) \/ Over(j, i)
  BY OverIs
<1>5. ~Over(i, i)
  BY OverIs
<1> DEFINE c == Cardinality(Listed)
<1>6. c \in Nat
  BY ListedIs
<1> QED BY <1>1, <1>2, <1>3, <1>4, <1>5, <1>6

\* The sessions of the table in order: each place has one that is listed, each
\* that is listed has a place, and nobody stands below one it goes before.
Places(p) ==
  /\ p \in [1 .. Cardinality(Listed) -> Listed]
  /\ \A n, m \in 1 .. Cardinality(Listed) : p[n] = p[m] => n = m
  /\ \A i \in Listed : \E n \in 1 .. Cardinality(Listed) : p[n] = i
  /\ \A n, m \in 1 .. Cardinality(Listed) : n < m => ~Before(snap[p[m]], snap[p[n]])
  /\ Visible = [n \in 1 .. Cardinality(Listed) |-> snap[p[n]]]

LEMMA VisibleIs == ASSUME UiInv PROVE \E p : Places(p)
<1> DEFINE c == Cardinality(Listed)
           r == [i \in Listed |-> Rank(i)]
           p == [n \in 1 .. c |-> CHOOSE i \in Listed : r[i] = n - 1]
<1>1. c \in Nat /\ IsFiniteSet(Listed)
  BY ListedIs
<1>2. IsFiniteSet(0 .. c - 1) /\ Cardinality(0 .. c - 1) = c
  <2> HIDE DEF c
  <2> QED BY <1>1, FS_Interval
<1>3. r \in Surjection(Listed, 0 .. c - 1)
  <2>1. r \in [Listed -> 0 .. c - 1] /\ \A i, j \in Listed : r[i] = r[j] => i = j
    BY RankGrows
  <2> HIDE DEF r
  <2>2. r \in Injection(Listed, 0 .. c - 1)
    BY <2>1 DEF Injection, IsInjective
  <2>3. Cardinality(Listed) = Cardinality(0 .. c - 1)
    BY <1>2
  <2> HIDE DEF c
  <2> QED BY <1>2, <2>2, <2>3, FS_Injection
<1>4. ASSUME NEW n \in 1 .. c PROVE \E i \in Listed : r[i] = n - 1
  <2>1. n - 1 \in 0 .. c - 1
    BY <1>1, <1>4
  <2>2. \E i \in Listed : r[i] = n - 1
    <3> HIDE DEF r, c
    <3> QED BY <1>3, <2>1 DEF Surjection
  <2> QED BY <2>2
<1>5. ASSUME NEW n \in 1 .. c PROVE p[n] \in Listed /\ Rank(p[n]) = n - 1
  <2>1. p[n] \in Listed /\ r[p[n]] = n - 1
    <3> HIDE DEF r, c
    <3> QED BY <1>4
  <2>2. \A i \in Listed : r[i] = Rank(i)
    OBVIOUS
  <2> HIDE DEF p, r
  <2> QED BY <2>1, <2>2
<1>6. Visible = [n \in 1 .. c |-> snap[p[n]]]
  BY DEF Visible, Rank, OverOf, Over
<1> HIDE DEF p, r
<1>7. p \in [1 .. c -> Listed]
  <2>1. p = [n \in 1 .. c |-> p[n]]
    BY DEF p
  <2> QED BY <1>5, <2>1
<1>8. \A n, m \in 1 .. c : p[n] = p[m] => n = m
  BY <1>1, <1>5
<1>9. ASSUME NEW i \in Listed PROVE \E n \in 1 .. c : p[n] = i
  <2>1. Rank(i) \in 0 .. c - 1
    BY RankGrows
  <2> DEFINE n == Rank(i) + 1
  <2>2. n \in 1 .. c /\ n - 1 = Rank(i)
    BY <1>1, <2>1
  <2> HIDE DEF n
  <2>3. p[n] \in Listed /\ Rank(p[n]) = Rank(i)
    BY <1>5, <2>2
  <2> QED BY <2>2, <2>3, RankGrows
<1>10. ASSUME NEW n \in 1 .. c, NEW m \in 1 .. c, n < m
       PROVE  ~Before(snap[p[m]], snap[p[n]])
  <2>1. p[n] \in Listed /\ p[m] \in Listed /\ Rank(p[n]) < Rank(p[m])
    BY <1>1, <1>5, <1>10
  <2>2. Over(p[n], p[m])
    BY <2>1, RankGrows
  <2> QED BY <2>1, <2>2, OverIs
<1> QED BY <1>6, <1>7, <1>8, <1>9, <1>10 DEF Places

-----------------------------------------------------------------------------
(***************************************************************************)
(* What is hidden, and that the footer says so.                            *)
(***************************************************************************)
LEMMA SumFirstOf ==
  ASSUME NEW f, NEW S, IsFiniteSet(S), \A x \in S : f[x] \in Int, NEW x \in S,
         NEW R, R = S \ {x}, NEW v, v = f[x]
  PROVE  Sum(f, S) = v + Sum(f, R) /\ IsFiniteSet(R) /\ \A y \in R : f[y] \in Int
BY SumAny, Removed

LEMMA HiddenIs ==
  ASSUME UiInv, snap # NoSnapshot
  PROVE  /\ Hidden = Len(snap) - Cardinality(Listed) /\ Hidden \in Nat
         /\ \A i \in DOMAIN snap : ~Dormant(snap[i]) => i \in Listed
<1> DEFINE D == DOMAIN snap
           asleep == {i \in D : Dormant(snap[i])}
           n == Len(snap)
<1>1. n \in Nat /\ D = 1 .. n /\ IsFiniteSet(D)
  BY ShotIs DEF UiInv
<1>2. Cardinality(D) = n
  <2> HIDE DEF n, D
  <2> QED BY <1>1, FS_Interval
<1>3. \A i \in DOMAIN snap : ~Dormant(snap[i]) => i \in Listed
  BY DEF Listed
<1>4. CASE "showAll" \in on
  <2>1. Listed = D /\ Hidden = 0
    BY <1>4 DEF Listed, Hidden
  <2> QED BY <1>1, <1>2, <1>3, <2>1
<1>5. CASE "showAll" \notin on
  <2>1. Listed = D \ asleep /\ Hidden = Cardinality(asleep) /\ D \cap asleep = asleep
    BY <1>5 DEF Listed, Hidden
  <2>2. asleep \in SUBSET D
    OBVIOUS
  <2> HIDE DEF asleep, D, n
  <2>3. Cardinality(D \ asleep) = Cardinality(D) - Cardinality(D \cap asleep)
    BY <1>1, FS_Difference
  <2>4. Cardinality(asleep) \in Nat
    BY <1>1, <2>2, FS_Subset, FS_CardinalityType
  <2>5. Cardinality(Listed) = n - Cardinality(asleep)
    BY <1>2, <2>1, <2>3
  <2>6. Hidden = n - Cardinality(Listed) /\ Hidden \in Nat
    BY <1>1, <2>1, <2>4, <2>5
  <2> QED BY <1>3, <2>6 DEF n
<1> QED BY <1>4, <1>5

LEMMA DigitsType == ASSUME NEW n \in Nat PROVE Digits(n) \in Nat
<1> DEFINE S == {k \in 0 .. n \div 10 : 10 ^ k <= n}
           m == n \div 10
<1>1. m \in Int /\ 0 \in Int
  OBVIOUS
<1>2. S \in SUBSET (0 .. m)
  OBVIOUS
<1> HIDE DEF S, m
<1>3. IsFiniteSet(0 .. m)
  BY <1>1, FS_Interval
<1>4. IsFiniteSet(S) /\ Cardinality(S) \in Nat
  BY <1>2, <1>3, FS_Subset, FS_CardinalityType
<1> QED BY <1>4 DEF Digits, S

\* Of some numbers up to six, the least.
LEMMA LeastOfSix ==
  ASSUME NEW T \in SUBSET (1 .. 6), T # {}
  PROVE  \E n \in T : \A m \in T : n <= m
<1>1. CASE 1 \in T
  BY <1>1
<1>2. CASE 1 \notin T /\ 2 \in T
  BY <1>2
<1>3. CASE 1 \notin T /\ 2 \notin T /\ 3 \in T
  BY <1>3
<1>4. CASE 1 \notin T /\ 2 \notin T /\ 3 \notin T /\ 4 \in T
  BY <1>4
<1>5. CASE 1 \notin T /\ 2 \notin T /\ 3 \notin T /\ 4 \notin T /\ 5 \in T
  BY <1>5
<1>6. CASE 1 \notin T /\ 2 \notin T /\ 3 \notin T /\ 4 \notin T /\ 5 \notin T
  <2>1. \A m \in T : m \in Int /\ 6 <= m /\ m <= 6
    BY <1>6
  <2>2. PICK n \in T : TRUE
    OBVIOUS
  <2>3. \A m \in T : n <= m
    BY <2>1
  <2> QED BY <2>3
<1> QED BY <1>1, <1>2, <1>3, <1>4, <1>5, <1>6

\* What is left of the status line has the pause and the hidden count in it.
LEMMA StatusSays ==
  ASSUME UiInv, Hidden \in Nat
  PROVE  /\ Paused /\ Width >= 28 + (IF Hidden > 0 THEN 14 + Digits(Hidden) ELSE 0) =>
              "paused" \in StatusLine
         /\ Hidden > 0 /\ Width >= 31 + Digits(Hidden) => "hidden" \in StatusLine
<1> DEFINE s == 5 + KeyWidth[sort]
           t == 6 + ThemeNames[theme][2]
           d == Digits(Hidden)
           all == <<<<"sort", 5 + KeyWidth[sort]>>, <<"theme", 6 + ThemeNames[theme][2]>>,
                    <<"paused", 8>>, <<"hidden", 11 + Digits(Hidden)>>, <<"graphs", 8>>, <<"help", 6>>>>
           there == {k \in 1 .. 6 : (k = 3 => Paused) /\ (k = 4 => Hidden > 0)}
           from(n) == {k \in there : k >= n}
           f(n) == [k \in from(n) |-> all[k][2] + 3]
           wide(n) == SumFunction([k \in from(n) |-> all[k][2] + 3]) - 3
           fits(n) == /\ \A m \in there : m < n => wide(m) > Width
                      /\ wide(n) <= Width \/ n = 6
           first == CHOOSE n \in there : fits(n)
<1>1. s \in Int /\ t \in Int /\ d \in Nat /\ Width \in Nat
  <2>1. KeyWidth[sort] \in Nat
    BY DEF UiInv, SortKeys, KeyWidth
  <2>2. t \in Int /\ Width \in Nat
    BY ThemesAre DEF UiInv, Width
  <2> QED BY <2>1, <2>2, DigitsType
<1>2. /\ all[1][2] = s /\ all[2][2] = t /\ all[3][2] = 8 /\ all[4][2] = 11 + d
      /\ all[5][2] = 8 /\ all[6][2] = 6 /\ all[3][1] = "paused" /\ all[4][1] = "hidden"
  OBVIOUS
<1>3. StatusLine = {all[k][1] : k \in from(first)}
  BY DEF StatusLine, SegmentsIn
<1> HIDE DEF all, s, t
<1>4. \A k \in 1 .. 6 : all[k][2] + 3 \in Int
  <2> HIDE DEF d
  <2> QED BY <1>1, <1>2
<1>5. there \in SUBSET (1 .. 6) /\ {1, 2, 5, 6} \subseteq there
  OBVIOUS
<1>6. ASSUME NEW n
      PROVE  /\ IsFiniteSet(from(n)) /\ wide(n) = Sum(f(n), from(n)) - 3 /\ wide(n) \in Int
             /\ \A k \in from(n) : f(n)[k] = all[k][2] + 3 /\ f(n)[k] \in Int
  <2>1. from(n) \in SUBSET (1 .. 6) /\ IsFiniteSet(1 .. 6)
    <3>1. from(n) \in SUBSET (1 .. 6)
      OBVIOUS
    <3>2. 1 \in Int /\ 6 \in Int
      OBVIOUS
    <3>3. IsFiniteSet(1 .. 6)
      BY <3>2, FS_Interval
    <3> QED BY <3>1, <3>3
  <2>2. IsFiniteSet(from(n))
    <3> HIDE DEF from
    <3> QED BY <2>1, FS_Subset
  <2>3. \A k \in from(n) : f(n)[k] = all[k][2] + 3 /\ f(n)[k] \in Int
    <3> HIDE DEF from
    <3> QED BY <1>4, <2>1
  <2>4. wide(n) = Sum(f(n), from(n)) - 3
    <3>1. DOMAIN f(n) = from(n) /\ wide(n) = SumFunction(f(n)) - 3
      OBVIOUS
    <3> HIDE DEF f, from, wide
    <3>2. SumFunction(f(n)) = Sum(f(n), from(n))
      BY <3>1, SumFunctionIs
    <3> QED BY <3>1, <3>2
  <2> HIDE DEF f, from, wide
  <2>5. Sum(f(n), from(n)) \in Int
    BY <2>2, <2>3, SumType
  <2> QED BY <2>2, <2>3, <2>4, <2>5
\* From the third segment on the line is as wide as what is there.
<1>7. ASSUME NEW n \in {3, 4, 5}
      PROVE  wide(n) = 17 + (IF n <= 4 /\ Hidden > 0 THEN 14 + d ELSE 0)
                          + (IF n = 3 /\ Paused THEN 11 ELSE 0)
  <2> DEFINE g == f(n)
             S3 == from(n)
             S4 == S3 \ {3}
             S5 == S4 \ {4}
             S6 == S5 \ {5}
             S7 == S6 \ {6}
             w == 14 + d
  <2>1. /\ S7 = {} /\ 5 \in S3 /\ 6 \in S3
        /\ 3 \in S3 <=> n = 3 /\ Paused
        /\ 4 \in S3 <=> n <= 4 /\ Hidden > 0
    BY <1>7
  <2>2. IsFiniteSet(S3) /\ wide(n) = Sum(g, S3) - 3 /\ \A k \in S3 : g[k] = all[k][2] + 3 /\ g[k] \in Int
    BY <1>6
  <2> HIDE DEF g, S3, wide, f, d
  <2>3. IsFiniteSet(S4) /\ IsFiniteSet(S5) /\ IsFiniteSet(S6) /\ IsFiniteSet(S7)
    BY <2>2, Removed
  <2>4. /\ 3 \in S3 => g[3] = 11
        /\ 4 \in S3 => g[4] = w
        /\ 5 \in S3 => g[5] = 11
        /\ 6 \in S3 => g[6] = 9
    BY <1>1, <1>2, <2>2
  <2>w. w \in Int /\ w = 14 + d
    BY <1>1
  <2> HIDE DEF w
  <2> DEFINE s3 == Sum(g, S3)
             s4 == Sum(g, S4)
             s5 == Sum(g, S5)
             s6 == Sum(g, S6)
             s7 == Sum(g, S7)
  <2>5. s7 = 0
    BY <2>1, SumEmpty
  <2>6. s3 = IF 3 \in S3 THEN 11 + s4 ELSE s4
    <3>1. CASE 3 \in S3
      BY <2>2, <2>4, <3>1, SumAny
    <3>2. CASE 3 \notin S3
      <4>1. S4 = S3
        BY <3>2
      <4> QED BY <3>2, <4>1
    <3> QED BY <3>1, <3>2
  <2>7. s4 = IF 4 \in S3 THEN w + s5 ELSE s5
    <3>1. CASE 4 \in S3
      <4>1. 4 \in S4 /\ \A k \in S4 : g[k] \in Int
        BY <2>2, <3>1
      <4> HIDE DEF S4
      <4> QED BY <2>3, <2>4, <3>1, <4>1, SumAny
    <3>2. CASE 4 \notin S3
      <4>1. S5 = S4
        BY <3>2
      <4> QED BY <3>2, <4>1
    <3> QED BY <3>1, <3>2
  <2>8. s5 = IF 5 \in S3 THEN 11 + s6 ELSE s6
    <3>1. CASE 5 \in S3
      <4>1. 5 \in S5 /\ \A k \in S5 : g[k] \in Int
        BY <2>2, <3>1
      <4> HIDE DEF S5
      <4> QED BY <2>3, <2>4, <3>1, <4>1, SumAny
    <3>2. CASE 5 \notin S3
      <4>1. S6 = S5
        BY <3>2
      <4> QED BY <3>2, <4>1
    <3> QED BY <3>1, <3>2
  <2>9. s6 = IF 6 \in S3 THEN 9 + s7 ELSE s7
    <3>1. CASE 6 \in S3
      <4>1. 6 \in S6 /\ \A k \in S6 : g[k] \in Int
        BY <2>2, <3>1
      <4> HIDE DEF S6
      <4> QED BY <2>3, <2>4, <3>1, <4>1, SumAny
    <3>2. CASE 6 \notin S3
      <4>1. S7 = S6
        BY <3>2
      <4> QED BY <3>2, <4>1
    <3> QED BY <3>1, <3>2
  <2>10. wide(n) = s3 - 3
    BY <2>2
  <2> HIDE DEF s3, s4, s5, s6, s7
  <2> QED BY <2>1, <2>5, <2>6, <2>7, <2>8, <2>9, <2>10, <2>w
<1>8. \A n : wide(n) \in Int
  BY <1>6
<1> HIDE DEF wide, f, d
<1>9. /\ Width >= 28 + (IF Hidden > 0 THEN 14 + d ELSE 0) /\ Paused => wide(3) <= Width
      /\ Width >= 31 + d /\ Hidden > 0 => wide(4) <= Width
  BY <1>1, <1>7
<1>10. \E n \in there : fits(n)
  <2> DEFINE T == {n \in there : wide(n) <= Width \/ n = 6}
  <2>1. T \in SUBSET (1 .. 6) /\ T # {}
    BY <1>5
  <2>2. PICK n \in T : \A m \in T : n <= m
    BY <2>1, LeastOfSix
  <2>3. \A m \in there : m \in 1 .. 6 /\ n \in 1 .. 6 /\ (m < n => m \notin T)
    BY <1>5, <2>2
  <2>4. n \in there /\ fits(n)
    BY <1>1, <1>5, <1>8, <2>2, <2>3
  <2> QED BY <2>4
<1>11. first \in there /\ fits(first)
  <2> HIDE DEF fits, there
  <2> QED BY <1>10
<1> HIDE DEF first
<1>12. \A n \in {3, 4} : n \in there /\ wide(n) <= Width => first <= n
  BY <1>1, <1>8, <1>11
<1>13. /\ Paused => 3 \in there
       /\ Hidden > 0 => 4 \in there
  OBVIOUS
<1>14. /\ Paused /\ Width >= 28 + (IF Hidden > 0 THEN 14 + d ELSE 0) => 3 \in from(first)
       /\ Hidden > 0 /\ Width >= 31 + d => 4 \in from(first)
  BY <1>9, <1>11, <1>12, <1>13
<1> HIDE DEF from
<1> QED BY <1>2, <1>3, <1>14 DEF d

LEMMA StatusLineShows ==
  ASSUME Height \in Nat, Height >= 2
  PROVE  "status" \in Footer
<1> DEFINE all == <<"machine", "status", "unpriced", "degraded", "caveat">>
           there == {k \in 1 .. 5 : all[k] \in Notice => all[k] \in notices}
           above(n) == {m \in there : m < n}
<1>1. /\ all[1] = "machine" /\ all[2] = "status" /\ "machine" \notin Notice /\ "status" \notin Notice
  BY DEF Notice
<1>2. Footer = {all[k] : k \in {n \in there : Cardinality(above(n)) < Heights.footer}}
  BY DEF Footer
<1> HIDE DEF all
<1>3. 2 \in there /\ above(2) = {1}
  BY <1>1
<1>4. Cardinality(above(2)) = 1
  <2> HIDE DEF above
  <2> QED BY <1>3, FS_Singleton
<1>5. Heights.footer \in Nat /\ Heights.footer >= 2
  BY DEF Heights, AtMost
<1> HIDE DEF there, above
<1>6. 2 \in {n \in there : Cardinality(above(n)) < Heights.footer}
  BY <1>3, <1>4, <1>5
<1> QED BY <1>1, <1>2, <1>6

LEMMA NothingHidden == ASSUME UiInv PROVE NothingHiddenUnsaid
<1> SUFFICES ASSUME snap # NoSnapshot PROVE NothingHiddenUnsaid
  BY DEF NothingHiddenUnsaid
<1> DEFINE running(s) == ~s.stale \/ (s.live /\ ~s.unknown)
           ids == [i \in DOMAIN Visible |-> Visible[i].id]
           c == Cardinality(Listed)
<1>1. PICK p : Places(p)
  BY VisibleIs
<1>2. /\ c \in Nat /\ IsFiniteSet(Listed)
      /\ \A i \in Listed : i \in DOMAIN snap /\ snap[i] \in SessionView
  BY ListedIs
<1>3. /\ snap \in Seq(SessionView) /\ Len(snap) \in Nat
      /\ \A i \in DOMAIN snap : snap[i] \in SessionView
  BY ShotIs DEF UiInv
<1>4. /\ DOMAIN Visible = 1 .. c /\ Len(Visible) = c
      /\ \A n \in 1 .. c : /\ Visible[n] = snap[p[n]] /\ p[n] \in Listed
                          /\ Visible[n] \in SessionView
  <2>1. Visible = [n \in 1 .. c |-> snap[p[n]]] /\ p \in [1 .. c -> Listed]
    BY <1>1 DEF Places
  <2> HIDE DEF c
  <2>2. \A n \in 1 .. c : Visible[n] = snap[p[n]] /\ p[n] \in Listed /\ Visible[n] \in SessionView
    BY <1>2, <2>1
  <2>3. Visible \in Seq(SessionView)
    BY <1>2, <2>1, <2>2
  <2> QED BY <1>2, <2>1, <2>2, <2>3
<1>5. \A s \in SessionView : running(s) <=> ~Dormant(s)
  BY DEF SessionView, Dormant
<1> HIDE DEF running
<1>6. ASSUME NEW i \in DOMAIN snap, running(snap[i]) PROVE Contains(ids, snap[i].id)
  <2>1. i \in Listed
    BY <1>3, <1>5, <1>6, HiddenIs
  <2>2. PICK n \in 1 .. c : p[n] = i
    BY <1>1, <2>1 DEF Places
  <2>3. ids[n] = snap[i].id
    BY <1>4, <2>2
  <2>4. Len(ids) = c
    <3>1. ids = [k \in 1 .. c |-> Visible[k].id]
      BY <1>4
    <3>2. \A k \in 1 .. c : Visible[k].id \in Nat
      BY <1>4 DEF SessionView
    <3> HIDE DEF ids, c
    <3>3. ids \in Seq(Nat)
      BY <1>2, <3>1, <3>2
    <3> QED BY <1>2, <3>1, <3>3
  <2> HIDE DEF ids, c
  <2> QED BY <2>2, <2>3, <2>4 DEF Contains
<1>7. ASSUME NEW i \in 1 .. c, NEW j \in 1 .. c, i < j, running(Visible[j])
      PROVE  running(Visible[i])
  <2>1. ~Before(Visible[j], Visible[i])
    BY <1>1, <1>4, <1>7 DEF Places
  <2>2. ~Dormant(Visible[j])
    BY <1>4, <1>5, <1>7
  <2>3. ~Dormant(Visible[i])
    BY <2>1, <2>2 DEF Before
  <2> QED BY <1>4, <1>5, <2>3
<1>8. Hidden = Len(snap) - Len(Visible) /\ Hidden \in Nat
  BY <1>4, HiddenIs
<1>9. ASSUME Height >= 2
      PROVE  /\ "status" \in Footer
             /\ Paused /\ Width >= 28 + (IF Hidden > 0 THEN 14 + Digits(Hidden) ELSE 0) =>
                  "paused" \in StatusLine
             /\ Hidden > 0 /\ Width >= 31 + Digits(Hidden) => "hidden" \in StatusLine
  <2>1. Height \in Nat
    BY DEF UiInv, Height
  <2> QED BY <1>8, <1>9, <2>1, StatusLineShows, StatusSays
<1> HIDE DEF c
<1> QED BY <1>4, <1>6, <1>7, <1>8, <1>9 DEF NothingHiddenUnsaid, running

\* Nothing that may be running is hidden or below what is not, and the footer says
\* what is hidden, for any snapshots, sizes, palettes and keys (ui/model.go:210-290,
\* panel/footer.go:87-120).
THEOREM HiddenIsSaid == UiSpec => []NothingHiddenUnsaid
<1> QED BY SelectionStaysOnTheTable, NothingHidden, PTL

-----------------------------------------------------------------------------
(***************************************************************************)
(* The rows of the table, and which session has the selected one.          *)
(***************************************************************************)
\* Row numbers: h[k] rows in each of c blocks, a[k] of them above block k.
Blocks(h, a, c) ==
  /\ c \in Nat /\ h \in [1 .. c -> Nat \ {0}] /\ a \in [1 .. c + 1 -> Nat]
  /\ a[1] = 0 /\ \A k \in 1 .. c : a[k + 1] = a[k] + h[k]

LEMMA BlocksGrow ==
  ASSUME NEW h, NEW a, NEW c, Blocks(h, a, c), NEW j \in 1 .. c, NEW k \in 1 .. c + 1, j < k
  PROVE  a[j] + h[j] <= a[k]
<1> DEFINE G == {i \in j + 1 .. k : a[j] + h[j] <= a[i]}
<1>1. c \in Nat /\ j + 1 \in Nat /\ k \in Nat /\ j + 1 <= k
  BY DEF Blocks
<1>2. a[j] \in Nat /\ h[j] \in Nat /\ a[j + 1] = a[j] + h[j]
  BY <1>1 DEF Blocks
<1>3. j + 1 \in G
  BY <1>1, <1>2
<1>4. ASSUME NEW i \in j + 1 .. k, i < k, i \in G PROVE i + 1 \in G
  <2>1. i \in 1 .. c /\ i + 1 \in j + 1 .. k
    BY <1>1, <1>4
  <2>2. a[i + 1] = a[i] + h[i] /\ a[i] \in Nat /\ h[i] \in Nat
    BY <1>1, <2>1 DEF Blocks
  <2> QED BY <1>2, <1>4, <2>1, <2>2
<1> HIDE DEF G
<1>5. k \in G
  BY <1>1, <1>3, <1>4, CountFrom
<1> QED BY <1>5 DEF G

\* Each row is in one block.
LEMMA BlockOf ==
  ASSUME NEW h, NEW a, NEW c, Blocks(h, a, c), NEW x \in Nat, x < a[c + 1]
  PROVE  \E j \in 1 .. c : /\ a[j] <= x /\ x < a[j] + h[j]
                           /\ \A k \in 1 .. c : a[k] <= x /\ x < a[k] + h[k] => k = j
<1> DEFINE T == {k \in 1 .. c + 1 : x < a[k]}
<1>1. c \in Nat /\ T \in SUBSET Nat /\ c + 1 \in T
  BY DEF Blocks
<1>2. PICK m \in T : \A k \in T : m <= k
  BY <1>1, LeastNumber
<1>3. m \in 1 .. c + 1 /\ x < a[m] /\ a[m] \in Nat
  BY <1>1, <1>2 DEF Blocks
<1>4. m # 1
  BY <1>3 DEF Blocks
<1> DEFINE j == m - 1
<1>5. j \in 1 .. c /\ j + 1 = m /\ j \in 1 .. c + 1
  BY <1>1, <1>3, <1>4
<1>6. j \notin T
  BY <1>2, <1>5
<1>7. a[j + 1] = a[j] + h[j] /\ a[j] \in Nat /\ h[j] \in Nat
  BY <1>5 DEF Blocks
<1>8. a[j] <= x /\ x < a[j] + h[j]
  <2> HIDE DEF j
  <2> QED BY <1>3, <1>5, <1>6, <1>7
<1>9. ASSUME NEW k \in 1 .. c, a[k] <= x, x < a[k] + h[k] PROVE k = j
  <2>1. k \in 1 .. c + 1 /\ a[k] \in Nat /\ h[k] \in Nat
    BY <1>1 DEF Blocks
  <2> HIDE DEF j
  <2>2. ~(j < k)
    <3>1. j < k => a[j] + h[j] <= a[k]
      BY <1>5, <2>1, BlocksGrow
    <3> QED BY <1>7, <1>8, <1>9, <2>1, <3>1
  <2>3. ~(k < j)
    <3>1. k < j => a[k] + h[k] <= a[j]
      BY <1>5, <2>1, BlocksGrow
    <3> QED BY <1>7, <1>8, <1>9, <2>1, <3>1
  <2> QED BY <1>1, <1>5, <2>2, <2>3
<1> QED BY <1>5, <1>8, <1>9

\* The first n of some sequences, one behind the other.
JoinStep(seqs, i, it) == IF i = 1 THEN seqs[i] ELSE it[i - 1] \o seqs[i]
Joined(it, seqs, n) == it = [i \in 1 .. n |-> JoinStep(seqs, i, it)]

LEMMA JoinedExists ==
  ASSUME NEW seqs, NEW n \in Nat
  PROVE  \E it : Joined(it, seqs, n)
<1> DEFINE G == {k \in 0 .. n : \E it : Joined(it, seqs, k)}
<1>1. 0 \in G
  <2>1. 1 .. 0 = {}
    OBVIOUS
  <2>2. Joined([i \in {} |-> 0], seqs, 0)
    BY <2>1 DEF Joined
  <2> QED BY <2>2
<1>2. ASSUME NEW k \in 0 .. n, k < n, k \in G PROVE k + 1 \in G
  <2> PICK it : Joined(it, seqs, k)
    BY <1>2
  <2> DEFINE more == [i \in 1 .. k + 1 |-> JoinStep(seqs, i, it)]
  <2>1. \A i \in 1 .. k : it[i] = JoinStep(seqs, i, it)
    BY DEF Joined
  <2>2. ASSUME NEW i \in 1 .. k + 1 PROVE more[i] = JoinStep(seqs, i, more)
    <3>1. CASE i = 1
      BY <3>1 DEF JoinStep
    <3>2. CASE i # 1
      <4>1. i - 1 \in 1 .. k /\ i - 1 \in 1 .. k + 1
        BY <3>2
      <4>2. more[i - 1] = it[i - 1] /\ more[i] = JoinStep(seqs, i, it)
        BY <2>1, <4>1
      <4> HIDE DEF more
      <4> QED BY <3>2, <4>2 DEF JoinStep
    <3> QED BY <3>1, <3>2
  <2>3. more = [i \in 1 .. k + 1 |-> more[i]]
    OBVIOUS
  <2> HIDE DEF more
  <2>4. Joined(more, seqs, k + 1)
    BY <2>2, <2>3 DEF Joined
  <2> QED BY <1>2, <2>4
<1> HIDE DEF G
<1>3. n \in G
  BY <1>1, <1>2, CountUp
<1> QED BY <1>3 DEF G

LEMMA ConcatIs ==
  ASSUME NEW S, NEW t \in Seq(S), NEW b \in Seq(S), NEW m, NEW k, Len(t) = m, Len(b) = k
  PROVE  /\ t \o b \in Seq(S) /\ Len(t \o b) = m + k
         /\ \A n \in 1 .. m + k : (t \o b)[n] = IF n <= m THEN t[n] ELSE b[n - m]
OBVIOUS

\* Each block has the id of its session in all of its rows.
Rows(seqs, h, c, ids) == seqs = [i \in 1 .. c |-> [n \in 1 .. h[i] |-> ids[i]]]

\* Row x of the table is of the session whose block it is in.
LEMMA RowsInBlocks ==
  ASSUME NEW h, NEW a, NEW c, Blocks(h, a, c), NEW ids,
         NEW seqs, Rows(seqs, h, c, ids)
  PROVE  \A j \in 1 .. c, x \in Nat :
           a[j] <= x /\ x < a[j] + h[j] => FlattenSeq(seqs)[x + 1] = ids[j]
<1> SUFFICES ASSUME NEW j \in 1 .. c, NEW x \in Nat, a[j] <= x, x < a[j] + h[j]
             PROVE  FlattenSeq(seqs)[x + 1] = ids[j]
  OBVIOUS
<1> DEFINE S == {ids[k] : k \in 1 .. c}
           flatten[i \in 1 .. Len(seqs)] == IF i = 1 THEN seqs[i] ELSE flatten[i - 1] \o seqs[i]
<1>1. c \in Nat /\ c # 0 /\ 1 \in 1 .. c
  BY DEF Blocks
<1>2. \A i \in 1 .. c : /\ h[i] \in Nat /\ a[i] \in Nat /\ a[i + 1] = a[i] + h[i]
                        /\ a[i + 1] \in Nat /\ seqs[i] \in Seq(S) /\ Len(seqs[i]) = h[i]
                        /\ \A n \in 1 .. h[i] : seqs[i][n] = ids[i]
  <2>1. TAKE i \in 1 .. c
  <2>2. h[i] \in Nat /\ a[i] \in Nat /\ a[i + 1] = a[i] + h[i] /\ ids[i] \in S
    BY <1>1 DEF Blocks
  <2> HIDE DEF S
  <2>3. seqs[i] = [n \in 1 .. h[i] |-> ids[i]]
    BY DEF Rows
  <2> QED BY <2>2, <2>3
<1> HIDE DEF S
<1>3. seqs \in Seq(Seq(S)) /\ Len(seqs) = c
  <2> DEFINE Q == Seq(S)
  <2>1. \A i \in 1 .. c : seqs[i] \in Q
    BY <1>2
  <2>2. seqs = [i \in 1 .. c |-> seqs[i]]
    BY DEF Rows
  <2> HIDE DEF Q
  <2>3. seqs \in Seq(Q) /\ Len(seqs) = c
    BY <1>1, <2>1, <2>2
  <2> QED BY <2>3 DEF Q
<1>4. FlattenSeq(seqs) = flatten[c]
  BY <1>1, <1>3 DEF FlattenSeq
<1>5. flatten = CHOOSE it : Joined(it, seqs, c)
  BY <1>3 DEF Joined, JoinStep
<1> HIDE DEF flatten
<1>6. Joined(flatten, seqs, c)
  BY <1>1, <1>5, JoinedExists
<1>7. \A i \in 1 .. c : flatten[i] = IF i = 1 THEN seqs[i] ELSE flatten[i - 1] \o seqs[i]
  BY <1>6 DEF Joined, JoinStep
<1> DEFINE Good(m) == /\ flatten[m] \in Seq(S) /\ Len(flatten[m]) = a[m + 1]
                      /\ \A i \in 1 .. m, y \in Nat :
                           a[i] <= y /\ y < a[i] + h[i] => flatten[m][y + 1] = ids[i]
           G == {m \in 1 .. c : Good(m)}
<1>8. Good(1)
  <2>1. flatten[1] = seqs[1] /\ a[1] = 0 /\ a[1 + 1] = h[1]
    BY <1>1, <1>2, <1>7 DEF Blocks
  <2>2. ASSUME NEW y \in Nat, y < h[1] PROVE flatten[1][y + 1] = ids[1]
    <3>1. h[1] \in Nat /\ \A n \in 1 .. h[1] : seqs[1][n] = ids[1]
      BY <1>1, <1>2
    <3> DEFINE r == h[1]
    <3> HIDE DEF r, Good, G
    <3>2. y < r /\ r \in Nat /\ \A n \in 1 .. r : seqs[1][n] = ids[1]
      BY <2>2, <3>1 DEF r
    <3>3. seqs[1][y + 1] = ids[1]
      BY <3>2
    <3> QED BY <2>1, <3>3
  <2>3. a[1] + h[1] = h[1] /\ 1 .. 1 = {1}
    BY <1>1, <1>2, <2>1
  <2> QED BY <1>1, <1>2, <2>1, <2>2, <2>3
<1>9. ASSUME NEW m \in 1 .. c, m < c, m \in G PROVE m + 1 \in G
  <2> DEFINE t == flatten[m]
             b == seqs[m + 1]
  <2>1. m + 1 \in 1 .. c /\ m + 1 # 1 /\ (m + 1) - 1 = m /\ m \in Nat
    BY <1>1, <1>9
  <2>2. flatten[m + 1] = t \o b
    BY <1>7, <2>1
  <2>3. /\ b \in Seq(S) /\ Len(b) = h[m + 1] /\ h[m + 1] \in Nat
        /\ a[m + 1 + 1] = a[m + 1] + h[m + 1] /\ a[m + 1] \in Nat
        /\ \A n \in 1 .. h[m + 1] : b[n] = ids[m + 1]
    BY <1>2, <2>1
  <2>4. Good(m)
    BY <1>9
  <2>5. /\ t \in Seq(S) /\ Len(t) = a[m + 1]
        /\ \A i \in 1 .. m, y \in Nat : a[i] <= y /\ y < a[i] + h[i] => t[y + 1] = ids[i]
    BY <2>4
  <2> HIDE DEF t, b
  <2>6. /\ t \o b \in Seq(S) /\ Len(t \o b) = a[m + 1 + 1]
        /\ \A n \in 1 .. a[m + 1 + 1] :
             (t \o b)[n] = IF n <= a[m + 1] THEN t[n] ELSE b[n - a[m + 1]]
    BY <2>3, <2>5, ConcatIs
  <2>7. ASSUME NEW i \in 1 .. m + 1, NEW y \in Nat, a[i] <= y, y < a[i] + h[i]
        PROVE  (t \o b)[y + 1] = ids[i]
    <3>1. CASE i = m + 1
      <4>1. y + 1 \in 1 .. a[m + 1 + 1] /\ ~(y + 1 <= a[m + 1])
            /\ (y + 1) - a[m + 1] \in 1 .. h[m + 1]
        BY <2>3, <2>7, <3>1
      <4> QED BY <2>3, <2>6, <3>1, <4>1
    <3>2. CASE i # m + 1
      <4>1. i \in 1 .. m /\ i \in 1 .. c /\ m + 1 \in 1 .. c + 1 /\ i < m + 1
        BY <1>1, <2>1, <3>2
      <4>2. a[i] + h[i] <= a[m + 1] /\ a[i] \in Nat /\ h[i] \in Nat
        BY <1>2, <4>1, BlocksGrow
      <4>3. y + 1 \in 1 .. a[m + 1 + 1] /\ y + 1 <= a[m + 1]
        BY <2>3, <2>7, <4>2
      <4> QED BY <2>5, <2>6, <2>7, <4>1, <4>3
    <3> QED BY <3>1, <3>2
  <2>8. Good(m + 1)
    BY <2>2, <2>6, <2>7
  <2> QED BY <2>1, <2>8
<1> HIDE DEF G
<1>10. 1 \in G
  BY <1>1, <1>8 DEF G
<1>11. c \in G
  BY <1>1, <1>9, <1>10, CountFrom
<1>12. Good(c)
  BY <1>11 DEF G
<1> QED BY <1>4, <1>12

\* The sessions of the table have its rows, one block each.
LEMMA TableIs ==
  ASSUME UiInv
  PROVE  LET c == Cardinality(Listed)
             h == [k \in 1 .. c |-> RowsOf(Visible[k])]
             a == [k \in 1 .. c + 1 |-> Above(Visible, k)]
         IN  /\ Blocks(h, a, c) /\ a[c + 1] = FlatRowCount /\ DOMAIN Visible = 1 .. c
             /\ \A k \in 1 .. c : Visible[k].id \in Nat
<1> DEFINE c == Cardinality(Listed)
           h == [k \in 1 .. c |-> RowsOf(Visible[k])]
           a == [k \in 1 .. c + 1 |-> Above(Visible, k)]
           g == [i \in Listed |-> RowsOf(snap[i])]
<1>1. PICK p : Places(p)
  BY VisibleIs
<1>2. c \in Nat /\ IsFiniteSet(Listed) /\ \A i \in Listed : snap[i] \in SessionView
  BY ListedIs
<1>3. /\ Visible = [n \in 1 .. c |-> snap[p[n]]] /\ p \in [1 .. c -> Listed]
      /\ \A n, m \in 1 .. c : p[n] = p[m] => n = m
      /\ \A i \in Listed : \E n \in 1 .. c : p[n] = i
  BY <1>1 DEF Places
<1> HIDE DEF c
<1>4. DOMAIN Visible = 1 .. c /\ \A n \in 1 .. c : Visible[n] = snap[p[n]] /\ p[n] \in Listed
  BY <1>3
<1>5. \A s \in SessionView : RowsOf(s) \in Nat \ {0}
  <2>1. \A s : RowsOf(s) = RowsIn(s, on)
    BY DEF RowsOf, ChildRows, RowsIn
  <2> QED BY <2>1, RowsType
<1>6. \A n \in 1 .. c : /\ h[n] \in Nat \ {0} /\ h[n] = g[p[n]] /\ h[n] = RowsOf(Visible[n])
                        /\ Visible[n].id \in Nat
  <2>1. \A n \in 1 .. c : Visible[n] \in SessionView
    BY <1>2, <1>4
  <2> QED BY <1>4, <1>5, <2>1 DEF SessionView
<1>7. ASSUME NEW k \in 1 .. c + 1 PROVE Above(Visible, k) = Sum(h, 1 .. k - 1) /\ Above(Visible, k) \in Nat
  <2> DEFINE f == [n \in 1 .. k - 1 |-> RowsOf(Visible[n])]
             S == 1 .. k - 1
  <2>1. IsFiniteSet(S) /\ S \in SUBSET (1 .. c)
    <3>1. k - 1 \in Int /\ S \in SUBSET (1 .. c)
      BY <1>2
    <3> QED BY <3>1, FS_Interval
  <2>2. Above(Visible, k) = SumFunction(f) /\ DOMAIN f = S
    BY DEF Above
  <2>3. \A n \in S : f[n] = h[n] /\ h[n] \in Nat
    BY <1>6, <2>1
  <2> HIDE DEF f, S, h
  <2>4. SumFunction(f) = Sum(f, S)
    BY <2>2, SumFunctionIs
  <2>5. Sum(f, S) = Sum(h, S) /\ Sum(h, S) \in Nat
    BY <2>1, <2>3, SumSame, SumNat
  <2> QED BY <2>2, <2>4, <2>5 DEF S
<1>8. a[1] = 0
  <2>1. 1 \in 1 .. c + 1 /\ 1 .. 1 - 1 = {}
    BY <1>2
  <2>2. a[1] = Above(Visible, 1)
    BY <2>1
  <2> HIDE DEF h, a
  <2> QED BY <1>7, <2>1, <2>2, SumEmpty
<1>9. ASSUME NEW k \in 1 .. c PROVE a[k + 1] = a[k] + h[k]
  <2> DEFINE S == 1 .. k
  <2>1. /\ k \in 1 .. c + 1 /\ k + 1 \in 1 .. c + 1 /\ (k + 1) - 1 = k /\ S \ {k} = 1 .. k - 1
        /\ k \in S /\ S \in SUBSET (1 .. c) /\ 1 \in Int /\ k \in Int
    BY <1>2
  <2>2. a[k + 1] = Above(Visible, k + 1) /\ a[k] = Above(Visible, k)
    BY <2>1
  <2> HIDE DEF h, a
  <2>3. a[k + 1] = Sum(h, S) /\ a[k] = Sum(h, S \ {k}) /\ a[k] \in Nat
    BY <1>7, <2>1, <2>2
  <2>4. IsFiniteSet(S) /\ \A n \in S : h[n] \in Int
    <3>1. IsFiniteSet(S)
      BY <2>1, FS_Interval
    <3>2. \A n \in 1 .. c : h[n] \in Int
      <4>1. TAKE n \in 1 .. c
      <4>2. h[n] \in Nat \ {0}
        BY <1>6
      <4> QED BY <4>2
    <3>3. \A n \in S : n \in 1 .. c
      BY <2>1
    <3> HIDE DEF S
    <3> QED BY <3>1, <3>2, <3>3
  <2> HIDE DEF S
  <2>5. Sum(h, S) = h[k] + Sum(h, S \ {k})
    BY <2>1, <2>4, SumAny
  <2> QED BY <2>1, <2>3, <2>4, <2>5
<1>10. Blocks(h, a, c)
  <2>1. a \in [1 .. c + 1 -> Nat]
    BY <1>7
  <2>2. h \in [1 .. c -> Nat \ {0}]
    BY <1>6
  <2> HIDE DEF h, a
  <2> QED BY <1>2, <1>8, <1>9, <2>1, <2>2 DEF Blocks
<1>11. a[c + 1] = FlatRowCount
  <2> DEFINE S == 1 .. c
             I == {p[n] : n \in S}
  <2>1. I = Listed
    BY <1>3
  <2>2. c + 1 \in 1 .. c + 1 /\ (c + 1) - 1 = c /\ c \in Int /\ 1 \in Int
    BY <1>2
  <2>3. a[c + 1] = Above(Visible, c + 1)
    BY <2>2
  <2>4. Above(Visible, c + 1) = Sum(h, S)
    BY <1>7, <2>2
  <2>5. IsFiniteSet(S)
    BY <2>2, FS_Interval
  <2>6. FlatRowCount = SumFunction(g) /\ DOMAIN g = Listed
    BY DEF FlatRowCount
  <2>7. FlatRowCount = Sum(g, Listed)
    <3> HIDE DEF g
    <3> QED BY <2>6, SumFunctionIs
  <2>8. \A n \in S : h[n] \in Int /\ g[p[n]] = h[n]
    BY <1>6
  <2>9. \A n, m \in S : p[n] = p[m] => n = m
    BY <1>3
  <2> HIDE DEF h, g, S, a
  <2>10. Sum(g, I) = Sum(h, S)
    BY <2>5, <2>8, <2>9, SumOfImage
  <2> QED BY <2>1, <2>3, <2>4, <2>7, <2>10
<1> HIDE DEF h, a
<1>12. \A k \in 1 .. c : Visible[k].id \in Nat
  BY <1>6
<1> QED BY <1>4, <1>10, <1>11, <1>12 DEF h, a, c

LEMMA SelectedIs ==
  ASSUME UiInv, FlatRowCount > 0
  PROVE  SelectedSession = {TableRows[selected + 1]}
<1> DEFINE c == Cardinality(Listed)
           h == [k \in 1 .. c |-> RowsOf(Visible[k])]
           a == [k \in 1 .. c + 1 |-> Above(Visible, k)]
           ids == [k \in 1 .. c |-> Visible[k].id]
           seqs == [i \in DOMAIN Visible |-> [n \in 1 .. RowsOf(Visible[i]) |-> Visible[i].id]]
<1>1. /\ Blocks(h, a, c) /\ a[c + 1] = FlatRowCount /\ DOMAIN Visible = 1 .. c
      /\ \A k \in 1 .. c : Visible[k].id \in Nat
  BY TableIs
<1>2. selected \in Nat /\ selected < a[c + 1]
  <2> HIDE DEF a, c
  <2> QED BY <1>1 DEF UiInv
<1>3. PICK j \in 1 .. c : /\ a[j] <= selected /\ selected < a[j] + h[j]
                          /\ \A k \in 1 .. c : a[k] <= selected /\ selected < a[k] + h[k] => k = j
  <2> HIDE DEF h, a, c
  <2> QED BY <1>1, <1>2, BlockOf
<1>4. \A k \in 1 .. c : a[k] = Above(Visible, k) /\ h[k] = RowsOf(Visible[k])
  <2>1. \A k \in 1 .. c : k \in 1 .. c + 1
    <3>1. c \in Nat
      BY ListedIs
    <3> HIDE DEF c
    <3> QED BY <3>1
  <2> HIDE DEF c
  <2> QED BY <2>1
<1>5. SelectedSession = {Visible[j].id}
  <2>1. {k \in DOMAIN Visible : Above(Visible, k) <= selected /\ selected < Above(Visible, k) + RowsOf(Visible[k])} = {j}
    <3> HIDE DEF a, h, c
    <3> QED BY <1>1, <1>3, <1>4
  <2> QED BY <2>1 DEF SelectedSession
<1>6. TableRows = FlattenSeq(seqs)
  BY DEF TableRows
<1>7. Rows(seqs, h, c, ids)
  <2> HIDE DEF c
  <2> QED BY <1>1 DEF Rows
<1>8. ids \in [1 .. c -> Nat] /\ ids[j] = Visible[j].id
  <2> HIDE DEF c
  <2> QED BY <1>1
<1> HIDE DEF seqs, h, a, ids, c
<1>9. FlattenSeq(seqs)[selected + 1] = ids[j]
  <2>1. Blocks(h, a, c) /\ j \in 1 .. c /\ selected \in Nat
    BY <1>1, <1>2
  <2>2. a[j] <= selected /\ selected < a[j] + h[j]
    BY <1>3
  <2>3. \A x \in Nat : a[j] <= x /\ x < a[j] + h[j] => FlattenSeq(seqs)[x + 1] = ids[j]
    BY <1>7, <2>1, RowsInBlocks
  <2> QED BY <2>1, <2>2, <2>3
<1> QED BY <1>5, <1>6, <1>8, <1>9

LEMMA SumOfOnes ==
  ASSUME NEW f, NEW S, IsFiniteSet(S), \A x \in S : f[x] = 1
  PROVE  Sum(f, S) = Cardinality(S)
<1> DEFINE G == {T \in SUBSET S : Sum(f, T) = Cardinality(T)}
<1>1. {} \in G
  BY SumEmpty, FS_EmptySet
<1>2. ASSUME NEW T \in SUBSET S, T # {}, \A x \in T : T \ {x} \in G PROVE T \in G
  <2>1. IsFiniteSet(T)
    BY FS_Subset
  <2> DEFINE x == First(T)
  <2>2. x \in T /\ Sum(f, T) = f[x] + Sum(f, T \ {x})
    BY <1>2, <2>1, SumFirst
  <2> HIDE DEF x
  <2>3. Cardinality(T \ {x}) = Cardinality(T) - 1 /\ Cardinality(T) \in Nat
    BY <2>1, <2>2, FS_RemoveElement, FS_CardinalityType
  <2>4. f[x] = 1 /\ Sum(f, T \ {x}) = Cardinality(T \ {x})
    BY <1>2, <2>2
  <2> QED BY <2>2, <2>3, <2>4
<1> HIDE DEF G
<1>3. S \in G
  BY <1>1, <1>2, SubsetBySubset
<1> QED BY <1>3 DEF G

\* Ones, but for two of them.
LEMMA SumOfTwo ==
  ASSUME NEW S, IsFiniteSet(S), NEW f, NEW x \in S, NEW y \in S, x # y, NEW d \in Int, NEW e \in Int,
         \A k \in S : f[k] = IF k = x THEN 1 + d ELSE IF k = y THEN 1 + e ELSE 1
  PROVE  Sum(f, S) = Cardinality(S) + d + e
<1> DEFINE ones == [k \in S |-> 1]
           one == [k \in S |-> IF k = y THEN 1 + e ELSE 1]
<1>1. Sum(ones, S) = Cardinality(S) /\ Cardinality(S) \in Nat
  BY SumOfOnes, FS_CardinalityType
<1>2. Sum(one, S) = Sum(ones, S) + e
  <2>1. one[y] = ones[y] + e /\ \A k \in S : ones[k] \in Int
    OBVIOUS
  <2>2. \A k \in S : k # y => one[k] = ones[k]
    OBVIOUS
  <2> HIDE DEF one, ones
  <2> QED BY <2>1, <2>2, SumGrows
<1>3. Sum(f, S) = Sum(one, S) + d
  <2>1. f[x] = one[x] + d /\ \A k \in S : one[k] \in Int
    OBVIOUS
  <2>2. \A k \in S : k # x => f[k] = one[k]
    OBVIOUS
  <2> HIDE DEF one
  <2> QED BY <2>1, <2>2, SumGrows
<1> QED BY <1>1, <1>2, <1>3

\* The selected row has a line, and the lines account for all the rows.
LEMMA WindowIs ==
  ASSUME selected \in Nat, NEW n \in Nat, selected < n, NEW v \in Int, v > 0
  PROVE  LET window == Window(n, v)
             counts == [i \in DOMAIN window |->
                          IF "more" \in DOMAIN window[i] THEN window[i].more ELSE 1]
         IN  /\ \E i \in DOMAIN window : window[i] = Line(selected)
             /\ v > 2 => SumFunction(counts) = n
<1> DEFINE window == Window(n, v)
           counts == [i \in DOMAIN window |->
                        IF "more" \in DOMAIN window[i] THEN window[i].more ELSE 1]
<1>1. \A k : /\ "more" \notin DOMAIN Line(k) /\ "more" \in DOMAIN More(k) /\ More(k).more = k
  BY DEF Line, More
<1>2. CASE n <= v
  <2>1. window = [i \in 1 .. n |-> Line(i - 1)]
    BY <1>2 DEF Window
  <2>2. selected + 1 \in 1 .. n /\ (selected + 1) - 1 = selected
    OBVIOUS
  <2>3. window[selected + 1] = Line(selected) /\ selected + 1 \in DOMAIN window
    BY <2>1, <2>2
  <2>4. DOMAIN counts = 1 .. n /\ \A i \in 1 .. n : counts[i] = 1
    BY <1>1, <2>1
  <2> HIDE DEF counts, window
  <2>5. IsFiniteSet(1 .. n) /\ Cardinality(1 .. n) = n
    BY FS_Interval
  <2>6. SumFunction(counts) = n
    BY <2>4, <2>5, SumFunctionIs, SumOfOnes
  <2> QED BY <2>3, <2>6 DEF counts, window
<1>3. CASE n > v
  <2> DEFINE first == AtMost(AtLeast(0, selected - v \div 2), n - v)
             last == first + v - 1
             line(i) == IF i = v /\ last < n - 1 /\ last # selected THEN More(n - last)
                        ELSE IF i = 1 /\ first > 0 /\ first # selected THEN More(first + 1)
                        ELSE Line(first + i - 1)
             half == v \div 2
  <2>1. window = [i \in 1 .. v |-> line(i)]
    BY <1>3 DEF Window
  <2>2. half \in Nat /\ half < v /\ (v > 1 => half > 0) /\ 2 * half <= v
    OBVIOUS
  <2>3. /\ first \in Nat /\ first <= selected /\ selected <= last /\ last \in Nat /\ last < n
        /\ v > 2 /\ first > 0 => first # selected
        /\ v > 2 /\ last < n - 1 => last # selected
    <3> HIDE DEF half
    <3>1. first = AtMost(AtLeast(0, selected - half), n - v)
      BY DEF half
    <3> HIDE DEF first
    <3> QED BY <1>3, <2>2, <3>1 DEF AtMost, AtLeast
  <2> HIDE DEF first
  <2> DEFINE mid == selected - first + 1
  <2>4. mid \in 1 .. v /\ first + mid - 1 = selected
    BY <2>3
  <2>5. line(mid) = Line(selected)
    BY <2>3, <2>4
  <2>6. DOMAIN window = 1 .. v /\ window[mid] = Line(selected)
    BY <2>1, <2>4, <2>5
  <2>7. ASSUME v > 2 PROVE SumFunction(counts) = n
    <3> DEFINE S == 1 .. v
               rest == n - 1 - last
    <3>1. IsFiniteSet(S) /\ Cardinality(S) = v
      BY <2>7, FS_Interval
    <3>2. 1 \in S /\ v \in S /\ v # 1
      BY <2>7
    <3>3. rest \in Nat /\ first \in Nat /\ first + v + rest = n /\ 1 + rest = n - last
      BY <2>3, <2>7
    <3>4. DOMAIN counts = S /\ \A k \in S :
            counts[k] = IF k = v THEN 1 + rest ELSE IF k = 1 THEN 1 + first ELSE 1
      <4>1. ASSUME NEW k \in S
            PROVE  counts[k] = IF k = v THEN 1 + rest ELSE IF k = 1 THEN 1 + first ELSE 1
        <5>1. counts[k] = IF "more" \in DOMAIN line(k) THEN line(k).more ELSE 1
          BY <2>1
        <5>2. CASE k = v
          <6>1. CASE last < n - 1
            <7>1. line(k) = More(n - last)
              BY <2>3, <2>7, <5>2, <6>1
            <7> HIDE DEF line
            <7>2. counts[k] = n - last
              BY <1>1, <5>1, <7>1
            <7> QED BY <3>3, <5>2, <7>2
          <6>2. CASE ~(last < n - 1)
            <7>1. line(k) = Line(first + k - 1) /\ rest = 0
              BY <2>3, <3>2, <5>2, <6>2
            <7> HIDE DEF line
            <7>2. counts[k] = 1
              BY <1>1, <5>1, <7>1
            <7> QED BY <5>2, <7>1, <7>2
          <6> QED BY <6>1, <6>2
        <5>3. CASE k # v /\ k = 1
          <6>1. CASE first > 0
            <7>1. line(k) = More(first + 1)
              BY <2>3, <2>7, <5>3, <6>1
            <7> HIDE DEF line
            <7>2. counts[k] = first + 1
              BY <1>1, <5>1, <7>1
            <7> QED BY <2>3, <5>3, <7>2
          <6>2. CASE first = 0
            <7>1. line(k) = Line(first + k - 1)
              BY <5>3, <6>2
            <7> HIDE DEF line
            <7>2. counts[k] = 1
              BY <1>1, <5>1, <7>1
            <7> QED BY <5>3, <6>2, <7>2
          <6> QED BY <2>3, <6>1, <6>2
        <5>4. CASE k # v /\ k # 1
          <6>1. line(k) = Line(first + k - 1)
            BY <5>4
          <6> HIDE DEF line
          <6>2. counts[k] = 1
            BY <1>1, <5>1, <6>1
          <6> QED BY <5>4, <6>2
        <5> QED BY <5>2, <5>3, <5>4
      <4>2. DOMAIN counts = S
        BY <2>6
      <4> HIDE DEF counts, rest
      <4> QED BY <3>2, <4>1, <4>2
    <3> HIDE DEF S, counts, rest
    <3>5. Sum(counts, S) = Cardinality(S) + rest + first
      <4> DEFINE w == v
      <4>2. w \in S /\ 1 \in S /\ w # 1 /\ rest \in Int /\ first \in Int
        BY <3>2, <3>3
      <4>1. \A k \in S : counts[k] = IF k = w THEN 1 + rest ELSE IF k = 1 THEN 1 + first ELSE 1
        BY <3>4
      <4> HIDE DEF w
      <4> QED BY <3>1, <4>1, <4>2, SumOfTwo
    <3>6. SumFunction(counts) = Sum(counts, S)
      BY <3>4, SumFunctionIs
    <3> QED BY <3>1, <3>3, <3>5, <3>6
  <2> HIDE DEF counts, window, mid
  <2> QED BY <2>4, <2>6, <2>7 DEF counts, window
<1> QED BY <1>2, <1>3

LEMMA SizesAre ==
  ASSUME UiInv
  PROVE  /\ Width \in Nat /\ Height \in Nat
         /\ Heights.footer \in Nat /\ Heights.hardware \in Int /\ Heights.graphs \in Nat
         /\ Heights.table \in Nat /\ DataHeight \in Int
<1>1. Width \in Nat /\ Height \in Nat /\ Clusters \in Nat
  BY DisplayAssumption DEF UiInv, Width, Height
<1>2. /\ Heights.footer \in Nat /\ Heights.hardware \in Int /\ Heights.graphs \in Nat
      /\ Heights.table \in Nat
  BY <1>1 DEF Heights, AtMost, AtLeast
<1>3. DataHeight \in Int
  BY <1>2 DEF DataHeight, AtLeast
<1> QED BY <1>1, <1>2, <1>3

LEMMA SelectionIsShown == ASSUME UiInv PROVE SelectionShown
<1> SUFFICES ASSUME FlatRowCount > 0 PROVE SelectionShown
  BY DEF SelectionShown
<1> DEFINE window == Window(FlatRowCount, DataHeight)
           counts == [i \in DOMAIN window |->
                        IF "more" \in DOMAIN window[i] THEN window[i].more ELSE 1]
<1>1. selected \in Nat /\ selected < FlatRowCount
  BY DEF UiInv
<1>2. FlatRowCount \in Nat
  BY CountIs, CountType DEF UiInv
<1>3. SelectedSession = {TableRows[selected + 1]}
  BY SelectedIs
<1>4. DataHeight \in Int
  BY SizesAre
<1>5. DataHeight > 0 => /\ \E i \in DOMAIN window : window[i] = Line(selected)
                        /\ DataHeight > 2 => SumFunction(counts) = FlatRowCount
  BY <1>1, <1>2, <1>4, WindowIs
<1> QED BY <1>1, <1>3, <1>4, <1>5 DEF SelectionShown

\* Whatever keys, resizes and cycles come, the selected row has a line of the
\* window and is of the session a detail is of (panel/sessions.go:213-246,
\* ui/model.go:333-351).
THEOREM SelectedRowIsShown == UiSpec => []SelectionShown
<1> QED BY SelectionStaysOnTheTable, SelectionIsShown, PTL

-----------------------------------------------------------------------------
(***************************************************************************)
(* The widths of the columns.                                              *)
(***************************************************************************)
ColumnNames == {"rate", "ctx", "model", "cwd", "pid", "status"}

LEMMA ColumnsFinite == IsFiniteSet(ColumnNames)
<1> DEFINE S1 == {"status"}
           S2 == S1 \cup {"pid"}
           S3 == S2 \cup {"cwd"}
           S4 == S3 \cup {"model"}
           S5 == S4 \cup {"ctx"}
           S6 == S5 \cup {"rate"}
<1>1. IsFiniteSet(S1)
  BY FS_Singleton
<1> HIDE DEF S1
<1>2. IsFiniteSet(S2)
  BY <1>1, FS_AddElement
<1> HIDE DEF S2
<1>3. IsFiniteSet(S3)
  BY <1>2, FS_AddElement
<1> HIDE DEF S3
<1>4. IsFiniteSet(S4)
  BY <1>3, FS_AddElement
<1> HIDE DEF S4
<1>5. IsFiniteSet(S5)
  BY <1>4, FS_AddElement
<1> HIDE DEF S5
<1>6. IsFiniteSet(S6)
  BY <1>5, FS_AddElement
<1>7. S6 = ColumnNames
  BY DEF S1, S2, S3, S4, S5, ColumnNames
<1> QED BY <1>6, <1>7

LEMMA SumOfColumns ==
  ASSUME NEW f, \A x \in ColumnNames : f[x] \in Int
  PROVE  Sum(f, ColumnNames)
           = f["rate"] + f["ctx"] + f["model"] + f["cwd"] + f["pid"] + f["status"]
<1> DEFINE S1 == {"status"}
           S2 == S1 \cup {"pid"}
           S3 == S2 \cup {"cwd"}
           S4 == S3 \cup {"model"}
           S5 == S4 \cup {"ctx"}
<1>1. /\ "rate" \in ColumnNames /\ ColumnNames \ {"rate"} = S5 /\ "ctx" \in S5 /\ S5 \ {"ctx"} = S4
      /\ "model" \in S4 /\ S4 \ {"model"} = S3 /\ "cwd" \in S3 /\ S3 \ {"cwd"} = S2
      /\ "pid" \in S2 /\ S2 \ {"pid"} = S1 /\ "status" \in S1 /\ S1 \ {"status"} = {}
  BY DEF ColumnNames
<1>2. /\ f["status"] \in Int /\ f["pid"] \in Int /\ f["cwd"] \in Int
      /\ f["model"] \in Int /\ f["ctx"] \in Int /\ f["rate"] \in Int
  BY DEF ColumnNames
<1>3. /\ S1 \in SUBSET ColumnNames /\ S2 \in SUBSET ColumnNames /\ S3 \in SUBSET ColumnNames
       /\ S4 \in SUBSET ColumnNames /\ S5 \in SUBSET ColumnNames
  BY DEF ColumnNames
<1> HIDE DEF S1, S2, S3, S4, S5
<1>4. /\ IsFiniteSet(S1) /\ IsFiniteSet(S2) /\ IsFiniteSet(S3) /\ IsFiniteSet(S4) /\ IsFiniteSet(S5)
  BY <1>3, ColumnsFinite, FS_Subset
<1>5. Sum(f, ColumnNames) = f["rate"] + Sum(f, S5)
  BY <1>1, <1>3, <1>4, ColumnsFinite, SumAny
<1>6. Sum(f, S5) = f["ctx"] + Sum(f, S4)
  BY <1>1, <1>3, <1>4, ColumnsFinite, SumAny
<1>7. Sum(f, S4) = f["model"] + Sum(f, S3)
  BY <1>1, <1>3, <1>4, ColumnsFinite, SumAny
<1>8. Sum(f, S3) = f["cwd"] + Sum(f, S2)
  BY <1>1, <1>3, <1>4, ColumnsFinite, SumAny
<1>9. Sum(f, S2) = f["pid"] + Sum(f, S1)
  BY <1>1, <1>3, <1>4, ColumnsFinite, SumAny
<1>10. Sum(f, S1) = f["status"] + Sum(f, {})
  BY <1>1, <1>3, <1>4, ColumnsFinite, SumAny
<1>11. Sum(f, {}) = 0
  BY SumEmpty
<1> QED BY <1>2, <1>5, <1>6, <1>7, <1>8, <1>9, <1>10, <1>11

LEMMA OneTo == ASSUME NEW n \in Nat PROVE IsFiniteSet(1 .. n)
BY FS_Interval

LEMMA FixedIs == SumFunction(Fixed) = 33
<1> DEFINE f == Fixed
           a == 1
           b == 2
           c == 3
           d == 4
           e == 5
           S1 == 1 .. 5
           S2 == 2 .. 5
           S3 == 3 .. 5
           S4 == 4 .. 5
           S5 == {5}
<1>1. f[a] = 6 /\ f[b] = 8 /\ f[c] = 8 /\ f[d] = 5 /\ f[e] = 6 /\ DOMAIN f = S1
  BY DEF Fixed
<1>2. /\ a \in S1 /\ S1 \ {a} = S2 /\ b \in S2 /\ S2 \ {b} = S3 /\ c \in S3 /\ S3 \ {c} = S4
      /\ d \in S4 /\ S4 \ {d} = S5 /\ e \in S5 /\ S5 \ {e} = {}
  OBVIOUS
<1>3. \A k \in S1 : k = a \/ k = b \/ k = c \/ k = d \/ k = e
  OBVIOUS
<1>4. IsFiniteSet(S1)
  BY OneTo
<1>5. S2 \in SUBSET S1 /\ S3 \in SUBSET S1 /\ S4 \in SUBSET S1 /\ S5 \in SUBSET S1
  OBVIOUS
<1> HIDE DEF f, S1, S2, S3, S4, S5, a, b, c, d, e
<1>6. IsFiniteSet(S2) /\ IsFiniteSet(S3) /\ IsFiniteSet(S4) /\ IsFiniteSet(S5)
  BY <1>4, <1>5, FS_Subset
<1>7. \A k \in S1 : f[k] \in Int
  BY <1>1, <1>3
<1>8. SumFunction(f) = Sum(f, S1)
  BY <1>1, SumFunctionIs
<1>9. Sum(f, S1) = f[a] + Sum(f, S2)
  BY <1>2, <1>4, <1>7, <1>5, <1>6, SumAny
<1>10. Sum(f, S2) = f[b] + Sum(f, S3)
  BY <1>2, <1>4, <1>7, <1>5, <1>6, SumAny
<1>11. Sum(f, S3) = f[c] + Sum(f, S4)
  BY <1>2, <1>4, <1>7, <1>5, <1>6, SumAny
<1>12. Sum(f, S4) = f[d] + Sum(f, S5)
  BY <1>2, <1>4, <1>7, <1>5, <1>6, SumAny
<1>13. Sum(f, S5) = f[e] + Sum(f, {})
  BY <1>2, <1>4, <1>7, <1>5, <1>6, SumAny
<1>14. Sum(f, {}) = 0
  BY SumEmpty
<1> QED BY <1>1, <1>8, <1>9, <1>10, <1>11, <1>12, <1>13, <1>14 DEF f

\* What the columns that may be dropped take.
Droppables(drop) == SumFunction([k \in drop + 1 .. 3 |-> Droppable[k]])

LEMMA DroppableIs ==
  Droppables(0) = 16 /\ Droppables(1) = 13 /\ Droppables(2) = 6 /\ Droppables(3) = 0
<1>1. Droppable[1] = 3 /\ Droppable[2] = 7 /\ Droppable[3] = 6
  BY DEF Droppable
<1>2. ASSUME NEW d \in 0 .. 3 PROVE Droppables(d) = Sum(Droppable, d + 1 .. 3)
  <2> DEFINE S == d + 1 .. 3
             f == [k \in S |-> Droppable[k]]
  <2>1. Droppables(d) = SumFunction(f) /\ DOMAIN f = S
    BY DEF Droppables
  <2>2. IsFiniteSet(S)
    BY FS_Interval
  <2>3. \A k \in S : f[k] = Droppable[k]
    OBVIOUS
  <2> HIDE DEF f, S
  <2>4. Sum(f, S) = Sum(Droppable, S)
    BY <2>2, <2>3, SumSame
  <2> QED BY <2>1, <2>4, SumFunctionIs DEF S
<1> DEFINE f == Droppable
<1>3. /\ Droppables(0) = Sum(f, 1 .. 3) /\ Droppables(1) = Sum(f, 2 .. 3)
      /\ Droppables(2) = Sum(f, 3 .. 3) /\ Droppables(3) = Sum(f, 4 .. 3)
  <2>1. 0 + 1 = 1 /\ 1 + 1 = 2 /\ 2 + 1 = 3 /\ 3 + 1 = 4
    OBVIOUS
  <2> QED BY <1>2, <2>1
<1> DEFINE a == 1
           b == 2
           e == 3
           S1 == 1 .. 3
           S2 == 2 .. 3
           S3 == 3 .. 3
           S4 == 4 .. 3
<1>4. f[a] = 3 /\ f[b] = 7 /\ f[e] = 6
  BY <1>1
<1>5. \A k \in S1 : k = a \/ k = b \/ k = e
  OBVIOUS
<1>6. IsFiniteSet(S1)
  BY OneTo
<1>7. /\ a \in S1 /\ S1 \ {a} = S2 /\ b \in S2 /\ S2 \ {b} = S3 /\ e \in S3 /\ S3 \ {e} = S4
      /\ S4 = {}
  OBVIOUS
<1>8. /\ Droppables(0) = Sum(f, S1) /\ Droppables(1) = Sum(f, S2)
      /\ Droppables(2) = Sum(f, S3) /\ Droppables(3) = Sum(f, S4)
  BY <1>3
<1>9. S2 \in SUBSET S1 /\ S3 \in SUBSET S1
  OBVIOUS
<1> HIDE DEF f, S1, S2, S3, S4, a, b, e
<1>10. IsFiniteSet(S2) /\ IsFiniteSet(S3)
  BY <1>6, <1>9, FS_Subset
<1>11. \A k \in S1 : f[k] \in Int
  BY <1>4, <1>5
<1>12. Sum(f, S1) = f[a] + Sum(f, S2)
  BY <1>6, <1>7, <1>11, <1>9, <1>10, SumAny
<1>13. Sum(f, S2) = f[b] + Sum(f, S3)
  BY <1>6, <1>7, <1>11, <1>9, <1>10, SumAny
<1>14. Sum(f, S3) = f[e] + Sum(f, S4)
  BY <1>6, <1>7, <1>11, <1>9, <1>10, SumAny
<1>15. Sum(f, S4) = 0
  BY <1>7, SumEmpty
<1> QED BY <1>4, <1>8, <1>12, <1>13, <1>14, <1>15

LEMMA TotalWidthIs ==
  ASSUME NEW cols, DOMAIN cols = ColumnNames, NEW d
  PROVE  TotalWidth(cols, d) = Sum(cols, ColumnNames) + 33 + Droppables(d) + 5 + 6 + (3 - d) - 1
<1>1. SumFunction(cols) = Sum(cols, ColumnNames)
  BY SumFunctionIs
<1> QED BY <1>1, FixedIs DEF TotalWidth, Droppables

Widths == [ColumnNames -> Nat]

LEMMA ColumnsAre ==
  /\ Flexible \in [1 .. 6 -> ColumnNames] /\ \A x \in ColumnNames : \E n \in 1 .. 6 : Flexible[n] = x
  /\ BaseWidth \in Widths /\ Sum(BaseWidth, ColumnNames) = 84
  /\ \A x \in ColumnNames : BaseWidth[x] >= colFloor
<1>1. /\ Flexible[1] = "rate" /\ Flexible[2] = "ctx" /\ Flexible[3] = "model" /\ Flexible[4] = "cwd"
      /\ Flexible[5] = "pid" /\ Flexible[6] = "status" /\ DOMAIN Flexible = 1 .. 6
      /\ Flexible = [n \in 1 .. 6 |-> Flexible[n]]
  BY DEF Flexible
<1>2. /\ BaseWidth["rate"] = 7 /\ BaseWidth["ctx"] = 18 /\ BaseWidth["model"] = 14
      /\ BaseWidth["cwd"] = 16 /\ BaseWidth["pid"] = 13 /\ BaseWidth["status"] = 16
  BY DEF BaseWidth
<1>3. BaseWidth = [x \in ColumnNames |-> BaseWidth[x]]
  BY DEF BaseWidth, ColumnNames
<1>4. Flexible \in [1 .. 6 -> ColumnNames]
  <2>1. \A n \in 1 .. 6 : Flexible[n] \in ColumnNames
    BY <1>1 DEF ColumnNames
  <2> QED BY <1>1, <2>1
<1>5. \A x \in ColumnNames : \E n \in 1 .. 6 : Flexible[n] = x
  BY <1>1 DEF ColumnNames
<1>6. \A x \in ColumnNames : BaseWidth[x] \in Nat /\ BaseWidth[x] \in Int /\ BaseWidth[x] >= 5
  BY <1>2 DEF ColumnNames
<1>7. BaseWidth \in Widths
  BY <1>3, <1>6 DEF Widths
<1>8. Sum(BaseWidth, ColumnNames) = 84
  BY <1>2, <1>6, SumOfColumns
<1> QED BY <1>4, <1>5, <1>6, <1>7, <1>8 DEF colFloor

\* total, of widths that are numbers.
LEMMA TotalIsOf ==
  ASSUME NEW cols \in Widths, NEW d \in 0 .. 3
  PROVE  /\ Sum(cols, ColumnNames) \in Int /\ Droppables(d) \in Nat
         /\ TotalWidth(cols, d) = Sum(cols, ColumnNames) + 33 + Droppables(d) + 5 + 6 + (3 - d) - 1
         /\ TotalWidth(cols, d) \in Int
<1>1. DOMAIN cols = ColumnNames /\ \A x \in ColumnNames : cols[x] \in Int
  BY DEF Widths
<1>2. Sum(cols, ColumnNames) \in Int
  BY <1>1, ColumnsFinite, SumType
<1>3. Droppables(d) \in Nat
  <2>1. d = 0 \/ d = 1 \/ d = 2 \/ d = 3
    OBVIOUS
  <2> QED BY <2>1, DroppableIs
<1>4. TotalWidth(cols, d) = Sum(cols, ColumnNames) + 33 + Droppables(d) + 5 + 6 + (3 - d) - 1
  BY <1>1, TotalWidthIs
<1> QED BY <1>2, <1>3, <1>4

\* A column that gives up g of its width.
LEMMA WidthGrows ==
  ASSUME NEW cols \in Widths, NEW d \in 0 .. 3, NEW x \in ColumnNames, NEW g, g \in Int,
         cols[x] + g \in Nat, NEW new, new = [cols EXCEPT ![x] = cols[x] + g]
  PROVE  new \in Widths /\ TotalWidth(new, d) = TotalWidth(cols, d) + g
<1>1. \A y \in ColumnNames : cols[y] \in Int
  BY DEF Widths
<1>2. new \in Widths
  BY DEF Widths
<1>3. new[x] = cols[x] + g
  BY DEF Widths
<1>4. \A y \in ColumnNames : y # x => new[y] = cols[y]
  BY DEF Widths
<1>5. Sum(new, ColumnNames) = Sum(cols, ColumnNames) + g
  <2> DEFINE to == new
             by == g
  <2>1. to[x] = cols[x] + by /\ by \in Int
    BY <1>3
  <2>2. \A y \in ColumnNames : y # x => to[y] = cols[y]
    BY <1>4
  <2> HIDE DEF to, by
  <2>3. Sum(to, ColumnNames) = Sum(cols, ColumnNames) + by
    BY <1>1, <2>1, <2>2, ColumnsFinite, SumGrows
  <2> QED BY <2>3 DEF to, by
<1>6. /\ Sum(cols, ColumnNames) \in Int /\ Droppables(d) \in Nat
      /\ TotalWidth(cols, d) = Sum(cols, ColumnNames) + 33 + Droppables(d) + 5 + 6 + (3 - d) - 1
  BY TotalIsOf
<1>7. TotalWidth(new, d) = Sum(new, ColumnNames) + 33 + Droppables(d) + 5 + 6 + (3 - d) - 1
  BY <1>2, TotalIsOf
<1> QED BY <1>2, <1>5, <1>6, <1>7

\* One column's turn: what it gives up, and what is too much after it.
LEMMA ShrunkIs ==
  ASSUME NEW cols \in Widths, \A y \in ColumnNames : cols[y] >= colFloor, NEW d \in 0 .. 3,
         NEW x \in ColumnNames, NEW b \in Int,
         NEW new, new = Shrunk(cols, x, TotalWidth(cols, d) - b)
  PROVE  /\ new \in Widths /\ \A y \in ColumnNames : new[y] >= colFloor
         /\ \A y \in ColumnNames : y # x => new[y] = cols[y]
         /\ TotalWidth(new, d) <= b \/ new[x] = colFloor
         /\ TotalWidth(cols, d) <= b => new = cols
<1> DEFINE over == TotalWidth(cols, d) - b
<1>1. cols[x] \in Nat /\ cols[x] >= 5 /\ TotalWidth(cols, d) \in Int /\ over \in Int
  BY TotalIsOf DEF Widths, colFloor
<1>2. CASE over <= 0 \/ cols[x] <= colFloor
  <2>1. new = cols
    BY <1>2 DEF Shrunk
  <2>2. TotalWidth(cols, d) <= b \/ cols[x] = 5
    BY <1>1, <1>2 DEF colFloor
  <2> QED BY <2>1, <2>2 DEF colFloor
<1>3. CASE ~(over <= 0 \/ cols[x] <= colFloor)
  <2> DEFINE less == AtMost(over, cols[x] - 5)
             g == 0 - less
  <2>1. over > 0 /\ cols[x] > 5
    BY <1>1, <1>3 DEF colFloor
  <2>2. /\ less \in Nat /\ g \in Int /\ cols[x] + g \in Nat /\ cols[x] + g >= 5
        /\ cols[x] - less = cols[x] + g /\ (less = over \/ cols[x] + g = 5)
    BY <1>1, <2>1 DEF AtMost
  <2>3. new = [cols EXCEPT ![x] = cols[x] + g]
    <3>1. new = [cols EXCEPT ![x] = cols[x] - less]
      BY <1>3 DEF Shrunk, colFloor
    <3> HIDE DEF less, g
    <3> QED BY <2>2, <3>1
  <2> HIDE DEF less, g
  <2>4. new \in Widths /\ TotalWidth(new, d) = TotalWidth(cols, d) + g
    BY <2>2, <2>3, WidthGrows
  <2>5. new[x] = cols[x] + g /\ \A y \in ColumnNames : y # x => new[y] = cols[y]
    BY <2>3 DEF Widths
  <2>6. TotalWidth(new, d) <= b \/ new[x] = 5
    BY <1>1, <2>2, <2>4, <2>5 DEF less, g
  <2>7. \A y \in ColumnNames : new[y] >= 5
    BY <2>2, <2>5 DEF colFloor
  <2>8. ~(TotalWidth(cols, d) <= b)
    BY <1>1, <2>1
  <2> QED BY <2>4, <2>5, <2>6, <2>7, <2>8 DEF colFloor
<1> QED BY <1>2, <1>3

\* The columns after each has had its turn, up to the nth.
ShrinkStep(it, n, d, b) ==
  IF n = 0 THEN BaseWidth
  ELSE Shrunk(it[n - 1], Flexible[n], TotalWidth(it[n - 1], d) - b)
Shrinks(it, k, d, b) == it = [n \in 0 .. k |-> ShrinkStep(it, n, d, b)]

LEMMA ShrinksExist == ASSUME NEW d, NEW b PROVE \E it : Shrinks(it, 6, d, b)
<1> DEFINE G == {k \in 0 .. 6 : \E it : Shrinks(it, k, d, b)}
<1>1. 0 \in G
  <2> DEFINE it == [n \in 0 .. 0 |-> BaseWidth]
  <2>1. \A n \in 0 .. 0 : n = 0
    OBVIOUS
  <2>2. \A n \in 0 .. 0 : ShrinkStep(it, n, d, b) = BaseWidth
    BY <2>1 DEF ShrinkStep
  <2>3. Shrinks(it, 0, d, b)
    BY <2>2 DEF Shrinks
  <2> QED BY <2>3
<1>2. ASSUME NEW k \in 0 .. 6, k < 6, k \in G PROVE k + 1 \in G
  <2> PICK it : Shrinks(it, k, d, b)
    BY <1>2
  <2> DEFINE more == [n \in 0 .. k + 1 |-> ShrinkStep(it, n, d, b)]
  <2>1. \A n \in 0 .. k : it[n] = ShrinkStep(it, n, d, b)
    BY DEF Shrinks
  <2>2. ASSUME NEW n \in 0 .. k + 1 PROVE more[n] = ShrinkStep(more, n, d, b)
    <3>1. CASE n = 0
      BY <3>1 DEF ShrinkStep
    <3>2. CASE n # 0
      <4>1. n - 1 \in 0 .. k /\ n - 1 \in 0 .. k + 1
        BY <3>2
      <4>2. more[n - 1] = it[n - 1] /\ more[n] = ShrinkStep(it, n, d, b)
        BY <2>1, <4>1
      <4> HIDE DEF more
      <4> QED BY <3>2, <4>2 DEF ShrinkStep
    <3> QED BY <3>1, <3>2
  <2>3. more = [n \in 0 .. k + 1 |-> more[n]]
    OBVIOUS
  <2> HIDE DEF more
  <2>4. Shrinks(more, k + 1, d, b)
    BY <2>2, <2>3 DEF Shrinks
  <2> QED BY <1>2, <2>4
<1> HIDE DEF G
<1>3. 6 \in G
  BY <1>1, <1>2, CountUp
<1> QED BY <1>3 DEF G

\* Once all have had their turns, what is left fits.
LEMMA ShrunkFits ==
  ASSUME NEW d \in 0 .. 3, NEW b \in Int, b >= 78, d = 3 \/ TotalWidth(BaseWidth, d) <= b,
         NEW it, Shrinks(it, 6, d, b)
  PROVE  /\ it[6] \in Widths /\ \A y \in ColumnNames : it[6][y] >= colFloor
         /\ TotalWidth(it[6], d) <= b
<1> DEFINE Good(n) == /\ it[n] \in Widths /\ \A y \in ColumnNames : it[n][y] >= colFloor
                      /\ \/ TotalWidth(it[n], d) <= b
                         \/ \A m \in 1 .. n : it[n][Flexible[m]] = colFloor
           G == {n \in 0 .. 6 : Good(n)}
<1>1. it[0] = BaseWidth /\ \A n \in 1 .. 6 :
        it[n] = Shrunk(it[n - 1], Flexible[n], TotalWidth(it[n - 1], d) - b)
  <2>1. \A n \in 0 .. 6 : it[n] = ShrinkStep(it, n, d, b)
    BY DEF Shrinks
  <2> QED BY <2>1 DEF ShrinkStep
<1>2. Good(0)
  <2>1. \A m \in 1 .. 0 : FALSE
    OBVIOUS
  <2> QED BY <1>1, <2>1, ColumnsAre
<1>3. ASSUME NEW n \in 0 .. 6, n < 6, n \in G PROVE n + 1 \in G
  <2> DEFINE x == Flexible[n + 1]
             cols == it[n]
             new == it[n + 1]
  <2>1. n + 1 \in 1 .. 6 /\ (n + 1) - 1 = n /\ n + 1 \in 0 .. 6
    BY <1>3
  <2>2. new = Shrunk(cols, x, TotalWidth(cols, d) - b)
    BY <1>1, <2>1
  <2>3. x \in ColumnNames
    BY <2>1, ColumnsAre
  <2>4. /\ cols \in Widths /\ \A y \in ColumnNames : cols[y] >= colFloor
        /\ \/ TotalWidth(cols, d) <= b
           \/ \A m \in 1 .. n : cols[Flexible[m]] = colFloor
    BY <1>3
  <2> HIDE DEF cols, new, x
  <2>5. /\ new \in Widths /\ \A y \in ColumnNames : new[y] >= colFloor
        /\ \A y \in ColumnNames : y # x => new[y] = cols[y]
        /\ TotalWidth(new, d) <= b \/ new[x] = colFloor
        /\ TotalWidth(cols, d) <= b => new = cols
    BY <2>2, <2>3, <2>4, ShrunkIs
  <2>6. ASSUME ~(TotalWidth(new, d) <= b), NEW m \in 1 .. n + 1 PROVE new[Flexible[m]] = colFloor
    <3>1. Flexible[m] \in ColumnNames /\ (m \in 1 .. n \/ m = n + 1)
      BY <2>1, <2>6, ColumnsAre
    <3>2. ~(TotalWidth(cols, d) <= b)
      BY <2>5, <2>6
    <3>3. new[x] = colFloor
      BY <2>5, <2>6
    <3>4. CASE Flexible[m] = x
      BY <3>3, <3>4
    <3>5. CASE Flexible[m] # x
      <4>1. m \in 1 .. n
        BY <3>1, <3>5 DEF x
      <4> QED BY <2>4, <2>5, <3>1, <3>2, <3>5, <4>1
    <3> QED BY <3>4, <3>5
  <2>7. Good(n + 1)
    BY <2>5, <2>6 DEF new
  <2> QED BY <2>1, <2>7
<1> HIDE DEF G
<1>4. 0 \in G
  BY <1>2 DEF G
<1>5. 6 \in G
  BY <1>3, <1>4, CountUp
<1>6. Good(6)
  BY <1>5 DEF G
<1>7. ASSUME \A m \in 1 .. 6 : it[6][Flexible[m]] = colFloor PROVE TotalWidth(it[6], d) <= b
  <2> DEFINE w == it[6]
  <2>1. \A y \in ColumnNames : w[y] = 5 /\ w[y] \in Int
    BY <1>7, ColumnsAre DEF colFloor
  <2>2. w \in Widths
    BY <1>6
  <2> HIDE DEF w
  <2>3. Sum(w, ColumnNames) = 30
    <3>1. /\ w["rate"] = 5 /\ w["ctx"] = 5 /\ w["model"] = 5 /\ w["cwd"] = 5 /\ w["pid"] = 5
          /\ w["status"] = 5
      BY <2>1 DEF ColumnNames
    <3> QED BY <2>1, <3>1, SumOfColumns
  <2>4. TotalWidth(w, d) = 30 + 33 + Droppables(d) + 5 + 6 + (3 - d) - 1
    BY <2>2, <2>3, TotalIsOf
  <2>5. CASE d = 3
    <3>1. Droppables(3) = 0
      BY DroppableIs
    <3> QED BY <2>4, <2>5, <3>1 DEF w
  <2>6. CASE TotalWidth(BaseWidth, d) <= b
    <3>1. TotalWidth(BaseWidth, d) = 84 + 33 + Droppables(d) + 5 + 6 + (3 - d) - 1 /\ Droppables(d) \in Nat
      BY ColumnsAre, TotalIsOf
    <3> QED BY <2>4, <2>6, <3>1 DEF w
  <2> QED BY <2>5, <2>6
<1> QED BY <1>6, <1>7

\* From 80 columns on, the table's columns fill the width to the last one.
LEMMA ColumnsFill ==
  ASSUME NEW width \in Int, width >= 80
  PROVE  LET c == Columns(width)
         IN  /\ TotalWidth(c.cols, c.drop) = width - 2
             /\ \A n \in DOMAIN Flexible : c.cols[Flexible[n]] >= colFloor
<1> DEFINE b == width - 2
           fits(d) == TotalWidth(BaseWidth, d) <= b
           drop == IF fits(0) THEN 0 ELSE IF fits(1) THEN 1 ELSE IF fits(2) THEN 2 ELSE 3
           shrink[n \in 0 .. 6] ==
             IF n = 0 THEN BaseWidth
             ELSE Shrunk(shrink[n - 1], Flexible[n], TotalWidth(shrink[n - 1], drop) - b)
           shrunk == shrink[6]
           slack == AtLeast(0, b - TotalWidth(shrunk, drop))
           cwd == AtMost(slack, 40)
           c == Columns(width)
<1>1. /\ c.cols = [shrunk EXCEPT !.cwd = @ + cwd, !.model = @ + slack - cwd]
      /\ c.drop = drop
  BY DEF Columns
<1> HIDE DEF c
<1>2. drop \in 0 .. 3 /\ (drop = 3 \/ TotalWidth(BaseWidth, drop) <= b) /\ b \in Int /\ b >= 78
  OBVIOUS
<1>3. shrink = CHOOSE it : Shrinks(it, 6, drop, b)
  BY DEF Shrinks, ShrinkStep
<1> HIDE DEF shrink, b, drop
<1>4. Shrinks(shrink, 6, drop, b)
  BY <1>3, ShrinksExist
<1>5. /\ shrunk \in Widths /\ \A y \in ColumnNames : shrunk[y] >= colFloor
      /\ TotalWidth(shrunk, drop) <= b
  BY <1>2, <1>4, ShrunkFits
<1> HIDE DEF shrunk
<1>6. TotalWidth(shrunk, drop) \in Int
  BY <1>2, <1>5, TotalIsOf
<1>7. /\ slack \in Nat /\ slack = b - TotalWidth(shrunk, drop) /\ cwd \in Nat /\ cwd <= slack
  BY <1>2, <1>5, <1>6 DEF AtLeast, AtMost
<1> HIDE DEF slack, cwd
<1> DEFINE mid == [shrunk EXCEPT !["cwd"] = shrunk["cwd"] + cwd]
           g == slack - cwd
           fin == [mid EXCEPT !["model"] = mid["model"] + g]
<1>8. "cwd" \in ColumnNames /\ "model" \in ColumnNames
  BY DEF ColumnNames
<1>9. shrunk["cwd"] + cwd \in Nat /\ cwd \in Int
  BY <1>5, <1>7, <1>8 DEF Widths
<1>10. mid \in Widths /\ TotalWidth(mid, drop) = TotalWidth(shrunk, drop) + cwd
  <2> HIDE DEF mid
  <2> QED BY <1>2, <1>5, <1>8, <1>9, WidthGrows DEF mid
<1>11. mid["model"] + g \in Nat /\ g \in Int
  <2>1. mid["model"] \in Nat
    <3> HIDE DEF mid
    <3> QED BY <1>8, <1>10 DEF Widths
  <2> HIDE DEF mid
  <2> QED BY <1>7, <2>1
<1>12. fin \in Widths /\ TotalWidth(fin, drop) = TotalWidth(mid, drop) + g
  <2> HIDE DEF mid, fin, g
  <2> QED BY <1>2, <1>8, <1>10, <1>11, WidthGrows DEF fin
<1>13. TotalWidth(fin, drop) = b
  <2>1. TotalWidth(mid, drop) \in Int
    <3> HIDE DEF mid
    <3> QED BY <1>2, <1>10, TotalIsOf
  <2> HIDE DEF mid, fin
  <2> QED BY <1>2, <1>6, <1>7, <1>10, <1>12, <2>1
<1>14. c.cols = fin
  <2>1. [shrunk EXCEPT !.cwd = @ + cwd, !.model = @ + slack - cwd] = fin
    BY <1>5, <1>7, <1>8 DEF Widths
  <2> QED BY <1>1, <2>1
<1>15. \A y \in ColumnNames : fin[y] >= colFloor
  <2>1. \A y \in ColumnNames : shrunk[y] \in Nat /\ mid[y] \in Nat
    BY <1>5, <1>7 DEF Widths
  <2> QED BY <1>5, <1>7, <2>1 DEF Widths, colFloor
<1>16. \A n \in DOMAIN Flexible : Flexible[n] \in ColumnNames
  BY ColumnsAre
<1> HIDE DEF fin, mid
<1> QED BY <1>1, <1>13, <1>14, <1>15, <1>16 DEF c, b

LEMMA HeightsFill ==
  ASSUME UiInv, Clusters <= 11
  PROVE  Heights.footer + Heights.hardware + Heights.graphs + Heights.table = Height
<1>1. Width \in Nat /\ Height \in Nat /\ Clusters \in Nat
  BY SizesAre, DisplayAssumption
<1> QED BY <1>1 DEF Heights, AtMost, AtLeast

\* With no more than eleven clusters the sections fill the screen to the line and,
\* from 80 columns on, the table's columns fill it to the column, at any size
\* (ui/model.go:371-382, panel/sessions.go:66-141).  At 38 lines a twelfth cluster
\* would make strip, graphs and footer one line too many.
THEOREM FrameIsFull == ASSUME Clusters <= 11 PROVE UiSpec => []FrameFits
<1>1. UiInv => FrameFits
  <2> SUFFICES ASSUME UiInv PROVE FrameFits
    OBVIOUS
  <2>1. Width \in Int
    BY SizesAre
  <2>2. Width >= 80 =>
          LET c == Columns(Width)
          IN  /\ TotalWidth(c.cols, c.drop) = Width - 2
              /\ \A n \in DOMAIN Flexible : c.cols[Flexible[n]] >= colFloor
    BY <2>1, ColumnsFill
  <2> QED BY <2>2, HeightsFill DEF FrameFits
<1> QED BY <1>1, SelectionStaysOnTheTable, PTL
=============================================================================
