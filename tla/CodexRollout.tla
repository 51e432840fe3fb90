---------------------------- MODULE CodexRollout ----------------------------
(***************************************************************************)
(* One Codex rollout (internal/agent/codex/parse.go and the tailer of      *)
(* rollouts.go): the agent appends records, with a cumulative token count  *)
(* that may start over; the file is rotated, which puts a copy with        *)
(* another inode in its place, or cut short; and the source tails it and   *)
(* folds each complete record into what it knows of the session, without   *)
(* being told when the tail starts over.  A record of the model is a       *)
(* complete line; a failed read changes nothing and is left out.           *)
(*                                                                         *)
(* Bounds: MaxRows records written, MaxRotate rotations and cuts, and a    *)
(* cumulative count of MaxPrompt.                                          *)
(***************************************************************************)
EXTENDS TokenUsage, Sequences, SequencesExt

CONSTANTS Metas,     \* the session_meta a rollout may begin with
          Requests,  \* what a token_count may say: TokenCountInfo
          StartWindow, \* the context window a task starts with
          Tools,     \* the ids of tool calls
          Absent,    \* what a record leaves out
          MaxRows, MaxRotate

VARIABLES rows, inode,     \* the file
          total, clock,    \* the agent's cumulative count; the records written
          cuts, rotations, \* how often the file was cut short, or either
          tail, r          \* tailState and Rollout

file == <<rows, inode, total, clock, cuts, rotations>>
vars == <<file, tail, r>>

-----------------------------------------------------------------------------
\* What a line may say; records of any other type change nothing.

\* subagentSource: a session of its own, a spawned thread or a guardian.
IsSource(s) ==
  \/ s = [is |-> "own"] \/ s = [is |-> "guardian"]
  \/ s.is = "spawn" /\ DOMAIN s = {"is", "parent", "role", "depth"} /\ s.depth \in Nat

\* sessionMetaPayload
IsMeta(m) ==
  m.is = "meta" /\ DOMAIN m = {"is", "session", "thread", "parent", "source"}
                /\ IsSource(m.source)

\* tokenCountInfo and rateLimitsPayload: the request, the context window, 0
\* where it is not said, and the limits that are told, if any are.
Scopes == {"primary", "secondary"}
IsInfo(q) ==
  /\ DOMAIN q = {"use", "window", "limits"} /\ q.use \in [in : Nat, out : Nat]
  /\ q.window \in Nat /\ (q.limits = Absent \/ q.limits \subseteq Scopes)

TurnContext == [is : {"turn"}, model : Models]
TaskEvent == [is : {"started", "complete"}, window : {StartWindow}]
ResponseItem == [is : {"call", "output"}, id : Tools]

ASSUME RecordsAssumption ==
  (\A m \in Metas : IsMeta(m)) /\ (\A q \in Requests : IsInfo(q))

New == [usage |-> Zero, has |-> FALSE, ledger |-> NoLedger, window |-> NoWindow,
        lastUsageAt |-> 0, used |-> 0, model |-> NoModel,
        max |-> 0, exact |-> FALSE, limits |-> <<>>,
        status |-> "unknown", completed |-> FALSE,
        calls |-> 0, pending |-> <<>>,
        session |-> Absent, thread |-> Absent, parent |-> Absent,
        type |-> "", depth |-> 0]

Given(old, new) == IF new = Absent THEN old ELSE new

\* Apply, session_meta: who the thread is.  A source that is no subagent's says
\* nothing; a spawn's parent stands in for one the meta does not name.
Described(k, row) ==
  LET own  == Given(k.parent, row.parent)
      said == [k EXCEPT !.session = Given(@, row.session), !.thread = Given(@, row.thread),
                        !.parent = own]
  IN IF row.source.is = "guardian" THEN [said EXCEPT !.type = "guardian", !.depth = 1]
     ELSE IF row.source.is = "spawn"
     THEN [said EXCEPT !.parent = Given(row.source.parent, own),
                       !.type = IF row.source.role = "" THEN "spawn" ELSE row.source.role,
                       !.depth = row.source.depth]
     ELSE said

\* The prompt a count is filed under: the last request's input, or else the
\* largest figure that can stand for it.
Prompt(row) ==
  IF row.last.in > 0 THEN row.last.in
  ELSE IF row.last.in + row.last.out > 0 THEN row.last.in + row.last.out
  ELSE row.total.in + row.total.out

Backwards(d) == d.in < 0 \/ d.out < 0

\* Mutant: a count that starts over is added to the old ledger.
RefiledOnTop(k, row) ==
  Filed(k.ledger, k.model, Prompt(row),
        IF k.has /\ ~Backwards(Minus(row.total, k.usage))
        THEN Minus(row.total, k.usage) ELSE row.total)

\* fileLedger
Refiled(k, row) ==
  LET d == Minus(row.total, k.usage)
  IN IF ~k.has \/ Backwards(d) THEN Filed(NoLedger, k.model, Prompt(row), row.total)
     ELSE Filed(k.ledger, k.model, Prompt(row), d)

\* What a count adds to the rate: the rise of the total, or just the last
\* request where there is no total to compare with.
Burst(k, row) ==
  LET d == Minus(row.total, k.usage)
  IN IF ~k.has \/ Backwards(d) THEN row.last ELSE d

\* Mutant: no guard against what was counted before.
ReplayedNever(k, row) == FALSE

\* A replayed prefix, older than what was counted last.
Replayed(k, row) == row.ts # 0 /\ row.ts < k.lastUsageAt

\* rateLimitsToDomain: what is told replaces what was; the model keeps when.
Limits(row) == [row.limits -> {row.ts}]

\* Apply, token_count
Counted(k, row) ==
  IF Replayed(k, row) THEN k
  ELSE [k EXCEPT
          !.window = IF k.has /\ Burst(k, row) = Zero THEN @
                     ELSE Recorded(@, row.ts, Burst(k, row)),
          !.ledger = Refiled(k, row),
          !.has = TRUE, !.usage = row.total,
          !.lastUsageAt = IF row.ts = 0 THEN @ ELSE row.ts,
          !.used = IF row.last = Zero THEN row.total.in + row.total.out
                   ELSE row.last.in + row.last.out,
          !.max = IF row.window > 0 THEN row.window ELSE @,
          !.exact = @ \/ row.window > 0,
          !.limits = IF row.limits = Absent THEN @ ELSE Limits(row)]

\* The open calls without the first of this id.
Returned(pending, id) ==
  LET at == {i \in DOMAIN pending : pending[i] = id}
  IN IF at = {} THEN pending
     ELSE RemoveAt(pending, CHOOSE i \in at : \A j \in at : i <= j)

\* Mutant: a new turn leaves the thread finished.
StartedFinished(k, row) == [k EXCEPT !.status = "busy"]

\* Apply, task_started: the thread is open again; its window only fills in.
Started(k, row) ==
  [k EXCEPT !.status = "busy", !.completed = FALSE,
            !.max = IF @ = 0 THEN row.window ELSE @]

\* Apply
Applied(k, row) ==
  IF row.is = "meta" THEN Described(k, row)
  ELSE IF row.is = "count" THEN Counted(k, row)
  ELSE IF row.is = "turn" THEN [k EXCEPT !.model = row.model]
  ELSE IF row.is = "started" THEN Started(k, row)
  ELSE IF row.is = "complete" THEN [k EXCEPT !.status = "waiting", !.completed = TRUE]
  ELSE IF row.is = "call"
  THEN [k EXCEPT !.calls = @ + 1, !.pending = Append(@, row.id)]
  ELSE [k EXCEPT !.pending = Returned(@, row.id)]

CurrentTool(k) == IF k.pending = <<>> THEN "" ELSE k.pending[Len(k.pending)]

-----------------------------------------------------------------------------
\* What a poll makes of a rollout.  idle says whether its file is older than
\* the idle threshold.

\* inferStatus
Inferred(k, idle) == IF idle THEN "stale" ELSE k.status

\* Mutant: silence of a thread counts as its end.
ChildStatusBySilence(k, idle) ==
  IF k.completed \/ idle THEN "done" ELSE "running"

\* childSubagentStatus
ChildStatus(k, idle) ==
  IF Inferred(k, idle) # "busy" /\ k.completed THEN "done"
  ELSE IF Inferred(k, idle) = "stale" THEN "idle"
  ELSE "running"

\* buildSubagent
SubagentRow(k, idle) ==
  [id |-> k.thread, agentType |-> k.type, model |-> k.model, usage |-> k.usage,
   ledger |-> k.ledger, contextUsed |-> k.used, spawnDepth |-> k.depth,
   lastActivityAt |-> k.lastUsageAt, status |-> ChildStatus(k, idle),
   live |-> ChildStatus(k, idle) = "running"]

\* sessionFromRollout, less what its process tells.  A rollout without an id
\* of its own is known by that of its session, or else by its path.
SessionRow(k, path, idle) ==
  [id |-> IF k.thread # Absent THEN k.thread
          ELSE IF k.session # Absent THEN k.session ELSE path,
   status |-> Inferred(k, idle), model |-> k.model, usage |-> k.usage,
   ledger |-> k.ledger, contextUsed |-> k.used, contextMax |-> k.max,
   contextExact |-> k.exact, rateLimits |-> k.limits, lastUsageAt |-> k.lastUsageAt]

\* LoadRollout: the whole file at once.
Loaded(content) == FoldLeft(Applied, New, content)

-----------------------------------------------------------------------------
Init ==
  /\ rows \in {<<m>> : m \in Metas} /\ inode = 1 /\ total = Zero /\ clock = 0
  /\ cuts = 0 /\ rotations = 0
  /\ tail = [inode |-> 0, read |-> 0] /\ r = New

Write(row) ==
  /\ clock < MaxRows /\ clock' = clock + 1
  /\ rows' = Append(rows, row)
  /\ UNCHANGED <<inode, cuts, rotations, tail, r>>

\* A request is counted; its time is later than that of the count before.
Count ==
  \E q \in Requests, over \in BOOLEAN :
    /\ total' = IF over THEN q.use ELSE Plus(total, q.use)
    /\ total'.in + total'.out <= MaxPrompt
    /\ Write([is |-> "count", total |-> total', last |-> q.use, ts |-> clock + 1,
              window |-> q.window, limits |-> q.limits])

\* A count may be written again, with a time of its own.
CountAgain ==
  /\ Write([is |-> "count", total |-> total, last |-> Zero, ts |-> clock + 1,
            window |-> 0, limits |-> {"primary"}])
  /\ UNCHANGED total

Turn ==
  /\ \E row \in TurnContext : Write(row)
  /\ UNCHANGED total

Task ==
  /\ \E row \in TaskEvent : Write(row)
  /\ UNCHANGED total

Tool ==
  /\ \E row \in ResponseItem : Write(row)
  /\ UNCHANGED total

Rotate ==
  /\ rotations < MaxRotate
  /\ inode' = inode + 1 /\ rotations' = rotations + 1
  /\ UNCHANGED <<rows, total, clock, cuts, tail, r>>

\* The file is cut short, so that its size gives it away.
Cut ==
  /\ rotations < MaxRotate /\ rows # <<>>
  /\ \E n \in 0 .. Len(rows) - 1 : n < tail.read /\ rows' = SubSeq(rows, 1, n)
  /\ cuts' = cuts + 1 /\ rotations' = rotations + 1
  /\ UNCHANGED <<inode, total, clock, tail, r>>

\* readNewLines: where it starts to read.
From ==
  IF (tail.inode # 0 /\ tail.inode # inode) \/ Len(rows) < tail.read THEN 0 ELSE tail.read

\* The part of Poll about this rollout; only what is complete by then is read.
Read ==
  /\ \E n \in From .. Len(rows) :
       /\ n > From \/ n = Len(rows)
       /\ r' = FoldLeft(Applied, r, SubSeq(rows, From + 1, n))
       /\ tail' = [inode |-> inode, read |-> n]
  /\ UNCHANGED file

Next == Count \/ CountAgain \/ Turn \/ Task \/ Tool \/ Rotate \/ Cut \/ Read

Spec == Init /\ [][Next]_vars

-----------------------------------------------------------------------------
\* The ledger always sums to the usage that is shown, also after the count
\* started over or the file was cut short or read again (parse.go:303-312).
LedgerSumsToUsage == r.usage = Total(r.ledger, Bucket)

CaughtUp == tail = [inode |-> inode, read |-> Len(rows)]

\* A rotated file is read again from its start without the parser knowing; if
\* nothing was lost with the rotation, the rollout still is shown as one
\* reading of the file would show it, as a session and as a child: its usage,
\* its filing by model and prompt, its rate, the context and its window, the
\* latest limits and who the thread is.  Only its count of tool calls is not
\* (parse.go:211-216, 258-265, rollouts.go:104-122).
CountedOnce ==
  CaughtUp /\ cuts = 0 =>
    LET once == Loaded(rows) IN
    /\ \A idle \in BOOLEAN :
         /\ SubagentRow(r, idle) = SubagentRow(once, idle)
         /\ SessionRow(r, Absent, idle) = SessionRow(once, Absent, idle)
    /\ r.parent = once.parent
    /\ \A now \in 1 .. clock : Rate(r.window, now) = Rate(once.window, now)

\* The session is busy exactly while its latest turn is open, whether the file
\* was read in pieces, again, or once; a child is done exactly when its latest
\* turn was finished, however long it has been silent, and runs at most until
\* it is silent; and as long as the file was never read again, the tool shown
\* is the newest call still open
\* (parse.go:195-217, 268-285, fold.go:69-99, types.go:218-221).
ShowsLatestTurn ==
  CaughtUp /\ cuts = 0 =>
    LET tasks == {i \in DOMAIN rows : rows[i].is \in {"started", "complete"}}
        open  == {i \in DOMAIN rows :
                    /\ rows[i].is = "call"
                    /\ \A j \in DOMAIN rows :
                         ~(j > i /\ rows[j].is = "output" /\ rows[j].id = rows[i].id)}
    IN /\ tasks # {} => LET last == rows[CHOOSE i \in tasks : \A j \in tasks : j <= i].is
                        IN /\ r.status = "busy" <=> last = "started"
                           /\ \A idle \in BOOLEAN :
                                /\ ChildStatus(r, idle) = "done" <=> last = "complete"
                                /\ ChildStatus(r, idle) = "running" => ~idle
       /\ rotations = 0 /\ (\A i, j \in DOMAIN rows :
                              i # j /\ rows[i].is = "call" /\ rows[j].is = "call"
                                => rows[i].id # rows[j].id)
            => CurrentTool(r) = IF open = {} THEN ""
                                ELSE rows[CHOOSE i \in open : \A j \in open : j <= i].id
=============================================================================
