------------------------------- MODULE Reducer -------------------------------
(***************************************************************************)
(* The single reducer (internal/state): the session map it keeps between   *)
(* cycles, the rows it emits, and the keyed side tables that must live and *)
(* die with a row: the burn tracker's entries, the last cost fed to it per *)
(* burn key, and the history rings.                                        *)
(*                                                                         *)
(* One Reduce step is one call of State.Reduce.  Its inputs are what       *)
(* the sampling loop can put in state.Inputs: the time since the previous  *)
(* call, the agents whose poll failed, and the sessions the others         *)
(* reported.  Time is kept as the age of each stamp at the last call, so   *)
(* that no clock grows without bound.  Money is a small number; what the   *)
(* tracker computes from it is the subject of module LiveSpend, and here   *)
(* an entry of byID is only the cost that the next delta is taken from.    *)
(***************************************************************************)
EXTENDS Integers

CONSTANTS Agent,       \* the names of the agent sources ("claude", "codex")
          Id,          \* session ids; the two agents may use the same one
          Kid,         \* the subagents a session can have
          Cost,        \* the amounts a session or subagent can have cost
          SessionTTL,  \* how long a vanished row is kept (30 s)
          SeedWindow,  \* age up to which a new subagent is seeded (2 min)
          Steps,       \* the times that can pass between two calls
          Reports,     \* the sessions each source can report (see Session)
          NoRow, Omitted, Unpriced, NoKid, Own   \* model values

ASSUME SessionTTLAssumption == SessionTTL \in Nat
ASSUME SeedWindowAssumption == SeedWindow \in Nat
ASSUME StepsAssumption == Steps \subseteq Nat
ASSUME CostAssumption == Cost \subseteq Nat /\ Unpriced \notin Cost \cup {0}
ASSUME OwnAssumption == Own \notin Kid

\* sessionKey: the agent is part of it, the two id spaces are not disjoint.
Key == [agent : Agent, id : Id]

\* A burn key is a session's own ("<agent>:<id>") or a subagent's
\* ("<agent>:<id>:sub:<kid>").
BurnKey == [key : Key, part : Kid \cup {Own}]

\* The age of a subagent's StartedAt; one past the window stands for any
\* older start and for a start that is not known.
StartAge == 0 .. SeedWindow + 1

\* cost is Unpriced when CostUSD is nil, and for a subagent also when it has
\* no activity time: both take the same early return.
KidReport == [cost : Cost \cup {Unpriced}, started : StartAge]

\* What a source says of one session, as far as the reducer looks at it.
Session == [status : {"live", "stale"}, cost : Cost \cup {Unpriced},
            kids : [Kid -> KidReport \cup {NoKid}]]

ASSUME ReportsAssumption == Reports \in [Agent -> SUBSET Session]
ASSUME OmittedAssumption == Omitted \notin Session
ASSUME NoKidAssumption == NoKid \notin KidReport

\* trackedSession, with ttlClock as its age at the last call.
Row == [session : Session, ttlAge : 0 .. SessionTTL, heldByOutage : BOOLEAN]

ASSUME NoRowAssumption == NoRow \notin Row

VARIABLES tracked,       \* st.tracked
          byID,          \* lastUSD of the entries of BurnTracker.byID,
                         \* Unpriced where it has no entry
          burnLastCost,  \* st.burnLastCost, Unpriced where it has no entry
          histories,     \* the sessions whose three history rings exist
          reported,      \* the sessions the last call's inputs held
          failed,        \* the agents that were unhealthy in the last call
          gap            \* the time between the last call and the one before

vars == <<tracked, byID, burnLastCost, histories, reported, failed, gap>>

-----------------------------------------------------------------------------
\* Retention

Tracked == {k \in Key : tracked[k] # NoRow}

Seen(in) == {k \in Key : in[k] # Omitted}

\* Mutant: no re-anchor, the outage counts against the TTL.
MissedForUnanchored(k, d) == tracked[k].ttlAge + d

\* The age of ttlClock at this call, after the re-anchor of the first healthy
\* cycle that follows an outage.
MissedFor(k, d) ==
  IF tracked[k].heldByOutage THEN 0 ELSE tracked[k].ttlAge + d

\* Mutant: a cycle too early.
DroppedEarly(d, bad, in) ==
  {k \in Tracked \ Seen(in) : k.agent \notin bad /\ MissedFor(k, d) >= SessionTTL}

Dropped(d, bad, in) ==
  {k \in Tracked \ Seen(in) : k.agent \notin bad /\ MissedFor(k, d) > SessionTTL}

\* A subagent's report, d later.
AgedKid(r, d) ==
  [cost    |-> r.cost,
   started |-> IF r.started + d > SeedWindow THEN SeedWindow + 1
               ELSE r.started + d]

\* A retained session, d later, shown with the given status.
Kept(s, status, d) ==
  [status |-> status, cost |-> s.cost,
   kids |-> [c \in Kid |->
               IF s.kids[c] = NoKid THEN NoKid ELSE AgedKid(s.kids[c], d)]]

SightedRow(s) == [session |-> s, ttlAge |-> 0, heldByOutage |-> FALSE]

\* Mutant: a failed poll is read as a vanished session.
HeldRowAsStale(k, d) ==
  [session |-> Kept(tracked[k].session, "stale", d),
   ttlAge |-> 0, heldByOutage |-> TRUE]

HeldRow(k, d) ==
  [session |-> Kept(tracked[k].session, tracked[k].session.status, d),
   ttlAge |-> 0, heldByOutage |-> TRUE]

\* Mutants: the row keeps its status, and every miss restarts the countdown.
StaleRowUnmarked(k, d) ==
  [session |-> Kept(tracked[k].session, tracked[k].session.status, d),
   ttlAge |-> MissedFor(k, d), heldByOutage |-> FALSE]

StaleRowRestarted(k, d) ==
  [session |-> Kept(tracked[k].session, "stale", d),
   ttlAge |-> 0, heldByOutage |-> FALSE]

StaleRow(k, d) ==
  [session |-> Kept(tracked[k].session, "stale", d),
   ttlAge |-> MissedFor(k, d), heldByOutage |-> FALSE]

NextRow(k, d, bad, in) ==
  IF k \in Seen(in) THEN SightedRow(in[k])
  ELSE IF k \notin Tracked \ Dropped(d, bad, in) THEN NoRow
  ELSE IF k.agent \in bad THEN HeldRow(k, d)
  ELSE StaleRow(k, d)

-----------------------------------------------------------------------------
\* What enrichSession and burnSubagents do to the burn tables for the row s
\* of session k that is about to be emitted.

\* The cost of part p, when it has one that is priced (and timed).
PartCost(s, p) ==
  IF p = Own THEN s.cost
  ELSE IF s.kids[p] = NoKid THEN Unpriced ELSE s.kids[p].cost

\* burnSubagents seeds a newborn it has no cost for: one Observe of zero.
Seeded(s, k, p) ==
  /\ p # Own /\ PartCost(s, p) # Unpriced
  /\ burnLastCost[[key |-> k, part |-> p]] = Unpriced
  /\ s.kids[p].started <= SeedWindow

\* Mutant: a cost that went down is not observed.
ObservedRise(s, k, p) ==
  LET last == burnLastCost[[key |-> k, part |-> p]]
  IN PartCost(s, p) # Unpriced /\ (last = Unpriced \/ PartCost(s, p) > last)

\* The cost a seeded part is compared with is zero, otherwise the recorded
\* one; a cost that differs, or the first one, is observed and recorded.
Observed(s, k, p) ==
  LET last == IF Seeded(s, k, p) THEN 0
              ELSE burnLastCost[[key |-> k, part |-> p]]
  IN PartCost(s, p) \notin {Unpriced, last}

\* Mutant: the subagents of a dropped session are not forgotten.
ForgottenOwn(gone) == {b \in BurnKey : b.key \in gone /\ b.part = Own}

\* The burn keys of dropped sessions that the tracker and the last-cost table
\* forget: forgetSubagentBurn finds a session's subagents in burnLastCost.
Forgotten(gone) ==
  {b \in BurnKey : b.key \in gone /\ (b.part = Own \/ burnLastCost[b] # Unpriced)}

-----------------------------------------------------------------------------
Init ==
  /\ tracked = [k \in Key |-> NoRow]
  /\ byID = [b \in BurnKey |-> Unpriced]
  /\ burnLastCost = [b \in BurnKey |-> Unpriced]
  /\ histories = {}
  /\ reported = {}
  /\ failed = {}
  /\ gap = 0

\* The subagent reports of one session carry a fixed start time.
SameStart(k, d, s) ==
  k \in Tracked =>
    \A c \in Kid : LET was == tracked[k].session.kids[c]
                 IN NoKid \notin {was, s.kids[c]} =>
                      s.kids[c].started = AgedKid(was, d).started

\* One cycle's inputs: the loop leaves out the sessions of an agent whose
\* poll failed.
Input(d, bad, in) ==
  \A k \in Seen(in) :
    k.agent \notin bad /\ in[k] \in Reports[k.agent] /\ SameStart(k, d, in[k])

Reduce(d, bad, in) ==
  LET row    == [k \in Key |-> NextRow(k, d, bad, in)]
      gone   == Dropped(d, bad, in)
      emit   == {b \in BurnKey : row[b.key] # NoRow}
      seeded == {b \in emit : Seeded(row[b.key].session, b.key, b.part)}
      obs    == {b \in emit : Observed(row[b.key].session, b.key, b.part)}
      forgot == Forgotten(gone)
  IN /\ Input(d, bad, in)
     /\ tracked' = row
     /\ burnLastCost' = [b \in BurnKey |->
          IF b \in obs THEN PartCost(row[b.key].session, b.part)
          ELSE IF b \in forgot THEN Unpriced ELSE burnLastCost[b]]
     /\ byID' = [b \in BurnKey |->
          IF b \in obs THEN PartCost(row[b.key].session, b.part)
          ELSE IF b \in seeded THEN 0
          ELSE IF b \in forgot THEN Unpriced ELSE byID[b]]
     /\ histories' = (histories \ gone) \cup {k \in Key : row[k] # NoRow}
     /\ reported' = Seen(in)
     /\ failed' = bad
     /\ gap' = d

Inputs == [Key -> (UNION {Reports[a] : a \in Agent}) \cup {Omitted}]

Next ==
  \E d \in Steps, bad \in SUBSET Agent, in \in Inputs : Reduce(d, bad, in)

Spec == Init /\ [][Next]_vars

\* Loop.Run keeps cycling: every cycle's inputs reach the reducer.
FairSpec == Spec /\ WF_vars(Next)

-----------------------------------------------------------------------------
\* The state of the reducer: its type, which is checked with the bound that a
\* retained row never outlives its TTL between two calls.
TypeOK ==
  /\ tracked \in [Key -> Row \cup {NoRow}]
  /\ byID \in [BurnKey -> Cost \cup {0, Unpriced}]
  /\ burnLastCost \in [BurnKey -> Cost \cup {Unpriced}]
  /\ histories \subseteq Key
  /\ reported \subseteq Key
  /\ failed \subseteq Agent
  /\ gap \in Nat

\* History rings and last costs are those of tracked sessions, and a last cost
\* is the very cost the tracker takes the next delta from.  An entry of the
\* tracker without one is the zero that a newborn subagent was seeded with, and
\* so is all that a dropped session leaves behind: nothing of its own, nothing
\* that it or a subagent ever cost.  The zeros do stay, since
\* forgetSubagentBurn looks for subagents among the last costs
\* (reduce.go:328-336), where reduce.go:106-112 wants no entry left at all
\* (reduce.go:106-118, 306-321, state.go:91-97).
TablesOwned ==
  /\ histories = Tracked
  /\ \A b \in BurnKey : burnLastCost[b] # Unpriced =>
       b.key \in Tracked /\ byID[b] = burnLastCost[b]
  /\ \A b \in BurnKey : burnLastCost[b] = Unpriced /\ byID[b] # Unpriced =>
       b.part # Own /\ byID[b] = 0

\* The rows that disappear in a step.
Gone == {k \in Key : tracked[k] # NoRow /\ tracked'[k] = NoRow}

\* A row never goes away while its source is failing, nor in the first
\* healthy cycle after a failure, however long either lasted: the outage does
\* not count against the TTL (reduce.go:82-103, state.go:58-65).
NoDropAroundOutage ==
  [][\A k \in Gone : k.agent \notin failed \cup failed']_vars

Announced(k) == k \notin reported /\ tracked[k].session.status = "stale"

\* A row that goes away was shown as stale in the snapshot before, and its
\* source had not reported it there (state.go:33-35), as long as the call that
\* drops it comes no later than the TTL after the one before.
StaleBeforeDrop ==
  [][gap' <= SessionTTL => \A k \in Gone : Announced(k)]_vars

\* What a row says of its session changes only because the source said so, or
\* because a healthy poll left the session out: a failed poll is never read as
\* a vanished session, and a stale row stays stale through it
\* (reduce.go:39-43, 82-94, 122-125).
StatusHasACause ==
  [][\A k \in Tracked \ Gone : tracked'[k].session.status # tracked[k].session.status
       => \/ k \in reported'
          \/ k.agent \notin failed' /\ tracked'[k].session.status = "stale"]_vars

\* The next delta of every part is measured from the cost the last snapshot
\* showed for it, through outages and staleness alike; only a newborn subagent
\* that has cost nothing yet is still unrecorded (reduce.go:253, 306-321).
DeltasStartAtShown ==
  \A k \in Tracked, p \in Kid \cup {Own} :
    LET s    == tracked[k].session
        last == burnLastCost[[key |-> k, part |-> p]]
    IN PartCost(s, p) \notin {Unpriced, last} =>
         /\ p # Own /\ last = Unpriced
         /\ PartCost(s, p) = 0 /\ s.kids[p].started <= SeedWindow

\* A row whose session is never reported again goes away, provided its own
\* source keeps answering: no pattern of the other agents' outages keeps it.
Vanished(k) == k \notin reported /\ k.agent \notin failed
VanishedRowsGo ==
  \A k \in Key : <>[]Vanished(k) => <>[](tracked[k] = NoRow)

\* The reducer keeps the promise of RowRetention.
RowPhase(k) ==
  IF tracked[k] = NoRow THEN "absent"
  ELSE IF k \in reported THEN "live"
  ELSE IF tracked[k].heldByOutage THEN "outage" ELSE "missing"

RowGrace(k) ==
  IF tracked[k] = NoRow THEN SessionTTL ELSE SessionTTL - tracked[k].ttlAge

Retention == INSTANCE RowRetention
  WITH phase <- [k \in Key |-> RowPhase(k)], grace <- [k \in Key |-> RowGrace(k)]

KeepsRows == Retention!Spec
=============================================================================
