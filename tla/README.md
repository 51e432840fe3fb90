# wattop, specified

TLA+ models of wattop, the terminal dashboard that shows a Mac's power and load
next to the Claude Code and Codex sessions that cause them. Paths below are
relative to the repository (`src/`).

The program is one sampling loop. Every cycle it samples the SoC, scans the
process table, polls the two agent sources (which read what the agents have
written to disk since the last cycle), and hands one `Inputs` to one reducer,
which keeps the rows of the table and computes cost and burn rate. A price
table is refreshed in the background. Nothing is persisted; what is hard is
that everything read is somebody else's files, changing while they are read,
that any of the sources may fail in any cycle, and that the reducer must not
take a failed poll for a vanished session, nor history for spend.

## 1. Inventory

| Component | State | Operations | What makes it correct |
|---|---|---|---|
| Session reducer (`internal/state`) | the tracked rows (last session, TTL clock, outage flag), last cost per burn key, history rings | `Reduce` | a row survives outages, turns stale before it goes, goes in the end; side tables live and die with the row |
| Burn tracker (`internal/pricing/burn.go`) | per burn key: last cost, last observation, last event, smoothed rate | `Observe`, `RatePerHour`, `Forget` | only spend that was watched counts, no rate beyond what was spent, quiet means zero |
| Pricing book (`internal/pricing`) | the table, a cache of rate cards | `Refresh`, `Resolve`, `CostLedger` | cards never outlive their table; per-request tiers |
| Claude tailer (`internal/agent/claude/tail.go`) | inode and offset per transcript | `Tail` | every line once, or the caller is told to start over |
| Claude source (`claude/source.go`, `sessions.go`, `parse.go`) | an aggregate per session file | `Poll`, `pollOne` | totals belong to the transcript that is there |
| Claude usage (`claude/usage.go`, `tokenrate`) | usage per message id, ledger, one-minute window | `add`, `Rate` | repeated rows replace, the ledger sums to the total |
| Claude subagents (`claude/subagents.go`) | a state per child, journal, pending results | `collect` | a child is done once, whatever order the evidence comes in |
| Codex source (`codex/source.go`, `bind.go`) | pins, tails and rollouts per path | `Poll` | a process is one session's, a running session stays however idle |
| Codex rollouts (`codex/parse.go`, `rollouts.go`) | parse state per rollout, a discovery cache | `Apply`, `readNewLines`, `shortlist` | nothing counted twice after a rotation, resumed rollouts found in bounded time |
| Codex folding (`codex/fold.go`) | none | `walkToRoot`, `sortSubagentsTree` | terminates on any parent chain, loses no child |
| Sampling loop (`cmd/wattop/run.go`, `main.go`, `json.go`) | last sample, last success per source, re-init deadline | `Run`, `Cycle`, `pace`, `runOnce`, `runJSON` | one failing source never stops the others, never spins, a source that recovers is used again |
| Process scanner (`internal/proc`) | last CPU and GPU counters per pid | `Scan`, `Update`, `Prune` | deltas only between readings of one process |
| UI model (`internal/ui/model.go`, `keys.go`) and the panels it draws (`internal/ui/panel`) | snapshot, selection, sort, theme, filter, pause | `Update`, `View` | the selected row is on the screen, nothing alive is hidden, the frame fits |

The parts interact through values, not shared state: `Cycle` calls the sources
in a fixed order and passes what they returned to `Reduce` (on the UI goroutine,
unless the UI is paused, in which case the cycle is thrown away). The two
exceptions are the pricing book, which a goroutine replaces under its mutex,
and the file system, which the agents write to at any time.

## 2. What is modelled

### Reducer, MCReducer, RowRetention (`internal/state/reduce.go`, `state.go`)

One step is one call of `State.Reduce`: the time since the last call, the set
of agents whose poll failed, and any set of sessions from the others. `tracked`
is the session map; a row's `ttlClock` is kept as its age at the last call
(`ttlAge`), which makes the state finite with no bound on time. Ages at the
time of a call decide everything `Reduce` does, so nothing is lost. `histories`
is a key set; `byID` and `burnLastCost` have the last cost of each key, the one in
the tracker's entry and the reducer's own, where there is one. A subagent's start is an age, with everything older than the seed
window in one class. If a source reports a key twice in one poll the code lets
the later one win; the model's reports are functions of the key.

`RowRetention` is the abstract promise: a row has a grace, who refills it, and
when it goes. The refinement maps a row to `absent`, `live`, `outage` or
`missing` and its age to the grace left.

| Run | Shows |
|---|---|
| `reducer` | two agents with the same session id, one of them with a subagent, costs of 0 to 2, seeded or not, steps of 1, 2 and 3 against a TTL of 2 (below, at and beyond it): rows never go around an outage, are stale in a snapshot before they go unless the dropping call is late, change status for a cause, go for good in the end, and implement `RowRetention`; the burn tables stay owned by the rows and in step with what was shown, and the one thing a dropped session leaves in them is the zero of a subagent that never cost anything |

Two agents are what it takes to have a row of a failed and one of a healthy
source at once, and the shared id tells the agents' rows apart; rows do not
otherwise interact. `gap`, the time since the last call, is there for
`StaleBeforeDrop` to speak of. `VanishedRowsGo` assumes weak fairness of
`Next`: `Loop.Run` calls `Cycle` for as long as the program runs.

### BurnTracker, LiveSpend (`internal/pricing/burn.go`, `reduce.go` 228-325)

`BurnTracker` is a constant-level module: `Observe`, `Span`, `RatePerHour` as
functions of one key's entry. `LiveSpend` runs it: an agent writes records of
one unit each, a poll reads up to `chunk` of them (the read limit), the reducer
prices what was read and calls `Observe` when the total has changed, or seeds a
newborn subagent from zero. A torn session file makes the source forget what it
read while the reducer re-enriches the retained row; a refresh replaces the
price; the row is dropped and returns.

Money is fixed point (`Scale`), the smoothing factor a fraction, and the
integer division of the smoothing rounds down, which the properties tolerate.
A record's time is its tick. Tool-call times, which the code also takes as
evidence of activity, are folded into `NewestOf`: the record's own, a child's
start, or none. The tracker's clock is Go's, whose differences are monotonic.

| Run | Shows |
|---|---|
| `spend` | a session or a subagent, up to three records, read all at once or two per poll, polled at least every window, torn session files, one drop and return, one price change: only watched spend counts, rates are supported, quiet reads zero, and a first sighting shows nothing |

The premises of the properties are part of what was learnt. A new price shows
as spend in a row that is already there, so the three that speak of spend ask
for one price (`swaps = 0`); `OnlyWatchedSpendInOneRead` and `QuietReadsZero`
ask that a poll reads to the end, `QuietReadsZero` also that polls came no more
than a window apart, and `RateSupported`, which asks for neither, is what
remains true of a backfill. Time runs for 5 ticks past the epoch with a window of 2: long enough to spend, go quiet for two
windows, and come back. Three records allow a first sighting, a delta, and one
that has to be discarded.

### ClaudeTail (`claude/tail.go`, and the caller in `source.go` 195-224)

One call is `Stat`, `Open`, `Check`, `Read`, or `Fail` after any of them; the
agent appends, rewrites in place, removes or recreates the transcript between
any two. Content is a sequence of `text` and `nl` bytes. What the caller has
summed is `got`, a list of (content, from, to) pieces, so that lost, repeated
and mixed content are all visible. `Read` (an `io.ReadAll` of at most `Cap`
bytes) is one step. Inodes are not reused.

| Run | Shows |
|---|---|
| `tail` | appends, removals and re-creations at every point of a call, and a rewrite in place up to the check: as long as nothing is rewritten the caller has between two calls exactly the file up to an offset at the end of a line, or the next call starts over; nothing is delivered from the middle of a record; once a transcript stays, all of it is read. A rewrite between check and read is the gap that is left, and is excluded by `RewriteStages` |

A cap of 3 bytes, files of 4 and two inodes make a rotation in mid-call, partial
lines, cut lines and several reads per file happen. Liveness assumes strong
fairness of the four system calls: the loop polls for ever, and a read that is
tried again and again succeeds again and again. No fairness is asked of the agent. Deadlock is not
checked here: the last transcript may be removed for good, and then nothing is
left to do.

### TokenUsage, ClaudeUsage, ClaudeSession, UsagePricing, PricedSession (`claude/source.go`, `usage.go`, `parse.go`, `tokenrate`, `pricing/cost.go`, `state/reduce.go` 338-506)

`TokenUsage` is usage as data: sums, the ledger by model and prompt size, the
window of one-second buckets. `ClaudeUsage` is `usageAccounting.add`.
`ClaudeSession` runs one session: the agent writes records, compacts the
transcript in place, removes it, makes it anew; its session file comes, goes
and is torn. A poll finds no session file (and drops the aggregate), fails on
the transcript before anything has moved, fails later (on the children, or
because of another session) with the rows already applied, or returns the
session. The tailer is one step here, `ClaudeTail` being about it.
`UsagePricing` is the price of a ledger and `priceSession` with children and
workflows, all functions of the table; `PricedSession` puts the two together. A
row that has used nothing is asked for as one request of nothing of its model, as
`priceUsage` does; a child that has no model either is not asked for.

Every kind of input token is one kind: each is priced by a base of its own at
the same tier, so the sum stands for any of them. That a missing one-hour cache
rate falls back to another base, and that Codex' cached input is subtracted from
its input, is abstracted with it. A transcript line that does not parse is
skipped by the code and not written by the model. Histories (`heard`, `base`,
`lastLimit`, `answers`) remember what the aggregate should know.

| Run | Shows |
|---|---|
| `claude` | a message that grows over a price tier and changes model, is revised and repeated, messages without id or model, a tool call and its answer, limits with and without end; families of children priced fully, in part and not at all, or still without usage or model: costs are the sum over requests at their own model and exact prompt and partial exactly when something is left out; each message counts once; the rate is the last minute's; limits and answers survive a compaction; every row is applied once around failed polls; a late transcript is found in time |

Three rows of three, one compaction or removal and a clock to 3 make a revision
in another tier, a limit that is told, compacted away and ends, and a poll that
fails between two rows all happen. A minute is one tick (`Span`), a row is 0 or
2 ticks old, so inside and outside of it. The tier boundary is at 1 step of the
ledger's rounding (`K` = 2 tokens for 1000), with prompts of 1, 2 and 3 tokens
below, at and above.

### SubagentTree, Subagents (`claude/subagents.go`)

`Subagents` is `collect`: the metadata, stat and tail of each child, the
journal, the notifications and results, and a poll in which any one read may
fail. `SubagentTree` is what is made of it: `propagateRunning`, `treeOrder`,
the status of a workflow, for any parent relation, loops included. How the text
of a task-notification is parsed is left out: `Notify` is a notification that was
understood. Sorted lists are chosen by what orders them and the recursive `visit`
is a bounded number of visits of one worklist, each child being put on it once by
its parent, so that both can be reasoned about.

| Run | Shows |
|---|---|
| `subagents` | a background child, a plain child it spawned and a workflow agent behind that: silence and launch acknowledgements are no end; ends on record are told by the next good poll, with exact usage after any failed read or rewrite, children listed once behind their parents; an end stays; everyone behind a running child is running |

The three children are one of each kind of evidence and two generations. Five
events (growth, results, notifications, journal records, rewrites) let a child
end, be rewritten and written to again. `Quiet` is 0 against a clock to 2.

### CodexSource, CodexFold (`codex/source.go` 113-313, `codex/bind.go`, `codex/fold.go`)

Codex processes start, end, begin, resume and write rollouts and spawn child
threads to any depth; another process may be the daemon of the app server. A
poll lists rollouts by age or pin, reads old ones only while codex runs, binds
top-level rollouts to processes (`BindAll`, in path order, greedy, nearest start
not after the rollout), pins what it bound and folds the children below their
roots. A failed scan polls with no processes; a failed read leaves a rollout
out. The parse state kept for listed paths is not part of the model: a rollout
that leaves the shortlist and returns is read anew, as `CodexRollout`'s `Loaded`
does. Nor is the discovery cache (`RolloutIndex`), which only delays a rollout
resumed in a cold folder. Two rollouts of one thread, which `Poll` renames, are
left out.

| Run | Shows |
|---|---|
| `codex` | two pids, one of which may be a daemon's, three rollouts, everything may be resumed, any scan or read may fail: no process is two sessions'; every child of a poll is listed once, behind and one deeper than its parent, and is a row of its own only when its chain is broken; in a good poll the number of bound sessions never falls while their processes live; after any failures one good poll has every running session of the shortlist window that is alone in its directory again, begun or resumed, if codex runs there only once or one of its processes there is as old as the rollout; and nothing old that no codex process can run |
| `codex_steal` (violation) | a dead older rollout takes the pid of a younger idle session, which disappears |

`BoundNeverFalls` is the strongest promise that holds of the greedy bind: it is
a maximum matching, because later rollouts have every candidate that earlier
ones have. It says nothing of *which* session keeps a process, and
`codex_steal` shows why. The passing run has windows of 0 and 1 and a clock to
2, the other windows of 1 and 2 and a clock to 4; both let a rollout be fresh,
past the lookback, and past the shortlist. One directory is the hard case of the
bind: processes and rollouts of different directories meet only through a pid
that is used again with the same start in another directory, which the run has
not and the theorem of section 3, for any directories, has. Three rollouts
are a root, a child and a grandchild, or two roots and a child.

### CodexRollout (`codex/parse.go`, `rollouts.go` 101-147, the shape of rows in `fold.go` and `source.go`)

The agent appends records: who the thread is, turns and their ends, tool calls
and their returns, and cumulative counts, which may be repeated or start over. The
file may be rotated (the same records under another inode) or cut short. The
source reads what is complete from where it is, or from the start if the inode
changed or the file shrank, and applies each record without knowing which.
`SessionRow` and `SubagentRow` are what is shown of it; `Loaded` is one reading
from nothing, the reference.

| Run | Shows |
|---|---|
| `rollout` | the ledger sums to the usage; unless something was lost in a rotation, what is shown is what one reading would show, whether idle or not, as a session or a child; the status is that of the latest turn, and a silent child is not done |

Four records let a count come before a turn, be repeated and be read again;
requests lie on both sides of a step of the ledger. The cumulative count is bounded
by `MaxPrompt`, 12, which four records do not reach. Deadlock is not checked: once
all records are written and read nothing is left to do.

### RolloutIndex (`codex/rollouts.go` 149-316)

Rollouts lie in the folder of the day they began; a walk remembers which folders
held something recent; between walks only those, today's and yesterday's are
listed. A folder may be unreadable in a poll, the tree may be removed and return.

| Run | Shows |
|---|---|
| `index` | a recent rollout is missing for less than the rewalk interval after it was resumed or its folder was unreadable; one of today or yesterday is never missing |

A day of 3, a year of 6 and a window of 3 ticks against a clock to 8 have sessions
of three days, a change of year, and files that age out; the rewalk interval of 2 is
below a day, as the assumption asks. The two rollouts are symmetric.

### PricingBook, SamplingLoop (`pricing/resolve.go`, `refresh.go`, `cmd/wattop/run.go`, `json.go`)

`PricingBook` has the table, the cached cards, readers between lookup and store,
and the refresh from the cache file or from a fetch that may fail in five ways.
The lock is a guard: `Swap` waits for the readers. `SamplingLoop` is the loop's
goroutine, the UI that prices the cycle it was handed (or the loop itself, with
`--json` and `--once`), and the refresh. Time is ticks within an interval and
a backoff; the times since the last failed start and since the last two cycles were
handed over, and how many starts failed (up to two), are history that no action
reads. The sampler changes at any time between working, erring (or
panicking, which is recovered) and not starting.

| Run | Shows |
|---|---|
| `loop` | no card outlives its table; of any three cycles the last is handed over an interval or more after the first; attempts to start the sampler are a backoff apart but for the loop's first, which follows that of `buildSources` at once; a sampler that works for good is reported for good, unless wattop is stopped |

Fairness is weak for the clock and for each goroutine: they are scheduled by the
Go runtime, the channel to the UI is received from for as long as it runs, and
locks are held for one lookup. Nothing is asked of the sampler or of a signal.
The last good sample and the time of the last success, which are shown and decide
nothing, are left out.

### UiModel (`internal/ui/model.go`, `keys.go`, `panel/sessions.go`, `children.go`, `footer.go`)

Keys, resizes and cycles in any order; `View` as functions of the state: the
heights of the sections, the rows of the table with its markers, the column
widths, the status line's segments and the footer's lines. A segment is a name
and the width it is printed with, the name of the sort key and the digits of the
hidden count included; a row is its number. A session has the three metrics of the
sort keys. The stable sort of `visibleSessions` is stated by
what it yields: a listed session's place is the number of those that come before it.

| Run | Shows |
|---|---|
| `ui` | the selected row exists, is drawn as itself and is the one a detail is of; what may be running is never hidden nor below what has ended; what is hidden and the pause are said from the column on from which they and what is right of them fit; sections fill the height and columns the width, none below its floor |

Eight terminals from 28 by 3 to 220 by 38 have every case of the heights and of the
columns (shrinking, dropping, growing); those below 80 columns are the widths at
which the pause alone, a count of two digits, the pause with a count of one digit
and with one of two just fit. Four snapshots of up to four sessions have
children, workflows, dormant, unbound and idle sessions, and one has ten that ended.

### ProcScanner (`internal/proc`)

The two delta trackers under processes that come, go and reuse a pid, readings
that are refused, a GPU table with or without a process, and a scan that is
cancelled halfway. Kernel ticks are converted by quotient and remainder at 125/3.

| Run | Shows |
|---|---|
| `proc` | what is shown as used is never more than was used under the pid since its last reading, and exactly that for one process |

One pid suffices: pids share no state but the prune, which is by membership.

## 3. What is proved

`CycleProofs` (TLAPS) is about one cycle: the reducer, the loop that calls it, the
pricing book beside it, the process scanner and the terminal that displays it. It
proves, for all agents, ids, subagents, costs, TTLs, seed windows and step lengths:

- `TypeCorrect`: the type invariant. It holds of the age of a row that it is
  at most the TTL, so it is inductive only with the drop in the same step.
- `TablesAreOwned`: `TablesOwned` is inductive with the types. What is dropped with
  a row is found by the last costs, so an entry without one is never dropped; that
  it is a subagent's and says zero is part of the property.
- `RowsAreAnchored`: `RowInv`, the link between a row and the last call. It is
  the strengthening the two action properties need: which row is held, stale or
  fresh is history that the properties themselves do not mention.
- `OutagesNeverDropRows`: from `RowInv`, a row of an agent that failed in this
  or the last call has age 0 when the drop is decided.
- `StaleComesBeforeDrop`: a row that was reported in the last call has age 0
  and survives a call that comes within the TTL.
- `ImplementsRetention`: `Spec => KeepsRows`, with `RowPhase` and `RowGrace` as
  the mapping; one case per way a row can move.

For any models, tables, readers, interval and backoff:

- `CardsOfTheTable`: `CardOfTable`, strengthened by types and by what a reader
  has looked up having a price.
- `RetryClock`: from the loop's first failed start on, what is left of the backoff
  and what has passed since the last failed one make up the backoff; before it only
  the start in `buildSources` can have failed. From it `PacedLoop`, which is
  `NeverHammered`, with one more fact: the cycle before last was handed over before
  the last `Pace`, so an interval ago or more.

For any pids, timebase, counters and times:

- `SharesAreTrue`: `ShareIsTrue`. `Baselines` ties each stored counter to a reading
  of the pid it is stored under. `MachTicksRoundDown`: the conversion by quotient
  and remainder is the exact one rounded down, which bounds the error of a
  difference of two conversions by a nanosecond.

For any snapshots, terminal sizes, palettes and theme, with keys, resizes and cycles
in any order:

- `SelectionStaysOnTheTable`: the inductive invariant `UiInv` of the display, types
  and `selected < FlatRowCount` while there are rows. It is inductive because only a
  cycle, the filter and the dormant switch change the rows, and those three clamp
  (`CountSame`: no other flag decides on rows); the theorems below are consequences
  of it in each state.
- `HiddenIsSaid`: `NothingHiddenUnsaid`. The rank by counting is a bijection between
  the listed sessions and the places of the table (`RankGrows`, `VisibleIs`: no two
  sessions share a rank, the ranks are the numbers below the count), so none is lost
  and the order is that of `Before`. What the status line leaves out to fit is an
  initial part of it, and from the third segment on its width is that of the pause,
  of the count with its digits, and of the two hints (`StatusSays`).
- `SelectedRowIsShown`: `SelectionShown`. The table's rows are blocks, one per
  session, as long as it has rows (`TableIs`), every row is in exactly one block
  (`BlockOf`) and flattening the blocks gives the row its session's id
  (`RowsInBlocks`); the window holds the selection and what its lines stand for adds
  up to all the rows (`WindowIs`).
- `FrameIsFull`: `FrameFits`, for at most eleven CPU clusters. `ShrunkFits`: after
  each column's turn either the total fits or all columns so far are at the floor,
  and the total with all at the floor, or with a column dropped that fits, is within
  80 columns; what is left over goes to two columns and to the last one.

`TokenUsageProofs` has no theorem of its own, but what the accounting of both
agents rests on: the fold that `Total` is has a value, which does not depend on
the order it is taken in (`SumsExist`, `SumsAgree`), and filing usage in a ledger
adds it to what the ledger holds altogether (`FiledAdds`). Since no induction
theorem of the library can be cited, `CountUp` and `SubsetBySubset` are induction
over numbers and over the subsets of a finite set, for a property that is given as
the set it holds on. Sums over finite sets (`SumAny`, `SumGrows`, `SumOfImage`) are
there for the costs and for the display's rows and widths.

`CodexRolloutProofs` proves, for any models, records, tools and numbers of
records, cuts and rotations:

- `LedgerAddsUp`: `LedgerSumsToUsage`, inductive with the types: each record that
  is applied, in whatever order and however often, adds the same to both
  (`AppliedType`), so it survives every rotation and cut.
- `ReadAgainCountedOnce`: `CountedOnce`. The parser does not know that a file has
  begun anew, so the invariant speaks of two readings at once (`ReadOK`): of the
  `tail.read` records read since, and of the `m` records ever read. What a count
  leaves is that of the `m`, since a count that is repeated is not larger than the
  total (`CountAgainSame`); the model and the task are those of the records read
  since, if they said so (`Shows`). It needs that an agent writes counts later and
  later and its metadata once, first (`Orderly`).
- `LatestTurnIsShown`: `ShowsLatestTurn`. The status is that of the last record of
  a turn among the `m` (`TurnsTold`); the newest open call is found by an induction
  over the file for one that was never rotated, where one reading is the only one
  (`OnceOK`).

And of their discovery (`RolloutIndex`), for any rollouts, days, windows, rewalk
intervals up to a day, clocks and faults:

- `AccountKept`: the inductive invariant `IndexInv`. A file that was recent at the
  last walk or is now lies in a hot folder, or was resumed or unreadable since.
  Neither property is inductive without it: which folders are hot was decided by
  a walk long past.
- `FoundByRewalk` and `FoundAtOnce`: the two properties of `index`, from it.

`ClaudeSessionProofs` proves, for any records, models, times, contexts, numbers of
rows and compactions, price tables and families of children:

- `SessionKnowsWhatItRead`: the inductive invariant. While the transcript is the one
  the tail state is about, `agg` is what the rows up to the offset make of an empty
  one (`Knows`): the total and each bucket are sums over the messages (`AccOK`), a
  message is noted with the usage and the model of the row that decides it
  (`SeenOK`), and what the window keeps after any second since its oldest bucket is
  what the rows told of after that second added (`WindowOK`). None of these is kept
  without the others: what a row adds is measured from what its message is noted
  with. Once rewritten nothing is said of the sums until the poll that resets them,
  but of the facts that stay it is (`AggOK`).
- `MessagesCountOnce`, `RateFollowsTheRows`, `RowsAreReadOnce`: the three properties
  of what was read. The loop over the unread rows is an induction over the fold
  (`FoldedStep`, `ReadAll`), a row at a time (`AppliedKnows`); a row that changes a
  message takes its old figure out of one bucket and puts the new one in another
  (`TotalPut`, `AddedOK`), and one that repeats it changes nothing.
- `CostsAreAsBilled`: `PricedAsBilled`, of the session with its children. The
  ledger rounds a prompt up to whole steps, and a step is above a threshold
  exactly when the prompt is (`TierOfBucket`), so a bucket costs what its requests
  cost (`CostOfTotal`) and a row is priced as its requests are (`RowPriceIs`),
  whether it has a ledger or not. The session's are its messages (`OwnRowIs`, from
  `SeenOK`), a child's the requests filed (`KidRowIs`). The rest is sums by parts:
  of the children over their requests (`FamilyCosts`), of the workflows over the
  children (`FlowsAddUp`), each taken as a set of prices though prices may be equal.
- `FactsAreKept` and `LateTranscriptIsRead`, from what the invariant says of limits
  and answers (`LimitOK`) and of the next search (`Sought`).

`ClaudeTailProofs` proves, for any cap, length of the files and number of inodes:

- `RotationsAreCountedOnce`: `RotationCountedOnceOrNoticed`. The property speaks of
  the time between two calls and is decided inside of them, so the invariant has
  a part for each point of a call: which inodes may still be given out (`Fresh`),
  that an opened handle is of the file that is there or of one that is gone
  (`Reading`), that the compared offset is the end of a line (`Checked`).
- `RecordsAreWhole`: `WholeRecords`, from `Checked`, with the one assumption that
  no rewrite falls between check and read (`"checked" \notin RewriteStages`),
  where it is false.

`LiveSpendProofs` proves, for any window, chunks, prices and number of records,
smoothing with any fraction:

- `FirstSightingsShowNothing`: a row that is not tracked has left no cost behind
  (`Untracked`).
- `RatesAreSupported`: `RateSupported`. At one price the total an entry was last
  observed with is that of a number of records and its event time is theirs
  (`Supported`): so a delta has the time between them, and a weighted mean of
  two rates that are not too high is none, rounded down or not.
- `OnlyWatchedSpendShows`: the last cost is that of the records the row was last
  reported with (`Recorded`), so until there are more nothing is a delta.
- `QuietKeysReadZero`: `QuietReadsZero`, for polls at most a window apart
  (`MaxGap <= Window`): whatever is unread was written since the last poll
  (`CaughtUp`), and a key with a rate was last observed within a window of its
  newest record (`Recent`). Without that assumption TLC has a counterexample: a
  late poll discards the delta and dates the observation now.

`CodexSourceProofs` proves, for any rollouts, directories, ancestry and windows,
and finitely many pids:

- `OneProcessOneSession`: `OneSessionPerProcess`; that a poll keeps it is an
  induction over the rollouts in the order they are bound in.
- `BoundOnesStayBound`: `BoundNeverFalls`. Rollout by rollout, each that was
  bound is given one of its directory that is bound now, no two the same
  (`Others`). When one is not bound again, the processes able to run it have gone
  to earlier rollouts of the directory, so there more are bound than were, and
  one is left to give. It is `Ordered` (paths sort by creation) that makes a
  process old enough for the earlier one old enough for the later. The proof
  found that a pid that is used again, with the same start, in another directory
  is no witness of a living process, hence the directory in `Lives`.
- `RunningOnesAreFound`: `FoundWithinWindow`. A rollout alone in its directory is
  bound if one process there started no later than it, or if there is only one: the
  nearest not after it is picked first, and with one candidate that one
  (`AloneIsFound`). No process younger than the rollout is told from another one,
  so `Tellable` is needed; without it TLC has a counterexample.
- `NoRolloutIsLost`: `NoChildLost`, from one more invariant, that a parent is there
  before its children (`Parents`). The line of a rollout, itself and its parents as
  far as the poll has them (`Lines`), says what each walk finds: `walkToRoot` the
  root in the line, or None when it breaks off (`WalkEnds`); `subagentDepth` its
  length (`DepthIs`); and what `sortSubagentsTree` emits below a session is, once
  each and after its parent, whatever has the session in its line (`TreeIs`). Two
  of a line never have the same parent (`OneChildInLine`), so the twigs that are
  put one behind the other share nobody. Each recursion is proved to have a value
  (`LinesExist`, `HopsExist`, `TreesExist`) before anything is said of it.

`SubagentsProofs` proves, for any finite set of children and any evidence:

- `WaitingOnesShow`: `UnfinishedShows`. A child that waits behind a running one
  is reached in at most as many generations as there are children, loops of
  parents included (`ClimbsToTheTop`).
- `SilenceEndsNobody`: `SilenceIsNoEnd`. The invariant has a part each for what is
  on disk (`World`), for what the tracker has made of what it has read
  (`Tracker`), and for what the last poll showed (`Shown`): a status of done or
  failed is only ever made from an end that is on record.
- `EndedOnesStay`: the action property `EndStays`.
- `PollsTellAll`: `PollTellsAll`. What is kept of the files and of the tails
  (`Kept`): a transcript comes after its metadata and that after its parent's
  (`Files`, `Lineage`); an end on record is in a transcript, or was there and has
  been read (`Ends`); the facts of the journal are those of what was read of it
  (`Reads`), and the usage and results of a child those of the rows above its
  offset (`Tails`). So a poll that reads to the ends has everything. That the
  listing is complete is a lemma of its own, `TreeOrderLists`: whoever is not yet
  listed is still to be visited or waits for a parent that is, and with spawn
  order for a rank somebody of smallest rank would be left out, so nobody is; the
  bound on the visits is never reached before the work is done (`Left`).

The assumptions are the named `ASSUME`s of the modules: types; model values that
are different from data (`NoneAssumption`, `UnknownAssumption`, `NoRowAssumption`); an
order on the children and finitely many of them and of the pids, since a bind and
a climb through the parents end; no time near Go's zero time (`ClockAssumption`);
finitely many real models, since a ledger is summed over them; prompts of at most
`MaxPrompt`, the bound of the ledger (`PromptsAssumption`); an entry of the table
has finitely many keys with whole rates (`EntriesAssumption`), a cost that is not
known is no number (`NoCostAssumption`), children have ids of their own and
finitely many requests (`FamiliesAssumption`); row ages and the rescan
interval are natural numbers (`TimesAssumption`); snapshots are sequences of what
the display reads of a session (`SessionsAssumption`), and sizes, the number of
clusters and palettes have their types (`DisplayAssumption`); and those that are
stated with their theorems.

What stays with TLC is liveness (`VanishedRowsGo`, `CatchesUp`, `ComesBack`), since
ENABLED is out of the prover's reach. Every safety property that a run checks is
also proved.

## 4. Where the code and its own words differ

One disagreement has a run, `codex_steal`, and is quoted in `PROJECT.json`. The
others below were met while modelling; the properties that are checked are stated
so as to be true of the code, and say where they stop short.

Retention and burn:

- While the UI is paused cycles are thrown away (`ui/model.go:132`), so after a
  pause longer than the TTL a row goes without having been stale;
  `docs/manual-qa.md:68-73` describes both edges. `StaleBeforeDrop` excuses a
  late call.
- `forgetSubagentBurn` (`reduce.go:328`) finds a session's subagents by their
  last costs. A newborn one that never cost anything has a tracker entry and no
  last cost, so the entry stays, where `reduce.go:106-112` wants none to: should the
  session return with that subagent older than the seed window, its first cost is
  diffed against the zero that was left.
- `burn.go:32` says that cost from before wattop started never counts. History
  longer than one read is caught up with in chunks, and a later chunk can be newer
  than the window (`burn.go:124`): hence `InOneRead`.
- `burn.go:143-145` says a quiet session reads zero. A discarded delta advances
  the last observation (`burn.go:107`) and revives the rate from before a gap.
- A price refresh reprices all usage so far, and the tracker takes the difference
  for spend of the moment (`refresh.go:68`, `reduce.go:253`), where
  `limitations.md:68` says that only spend wattop watched counts.

Claude:

- A rewrite in place that has a newline where the old offset was is not noticed
  (`tail.go:107`, against 26-30), and a line longer than one read blocks the
  transcript (`tail.go:124`, against 61-62).
- A resolved transcript path is kept (`source.go:193`): a session that goes on in
  another directory is read at the old place.
- Two requests without ids whose lines are the same count once (`parse.go:164`).

Codex:

- One failed process scan forgets every pin (`source.go:269`), where 62-68 says a
  pinned rollout stays while its process lives.
- Pins cover bound roots only, so a child idle past the lookback leaves a session
  that is still running (`source.go:180-183, 302`, against 62-64).
- A rollout that was resumed by a younger process, in whose directory there are more
  codex processes and none as old as the rollout, is bound to none of them
  (`bind.go:111-119, 160-163`: a process is taken to be no younger than the
  rollout's `session_meta`) and is dropped past the lookback while its process runs,
  where `source.go:16-19` says it is kept. `FoundWithinWindow` asks `Tellable`.
- A rotated rollout's tool calls are counted again.

Pricing and display:

- `TotalCostPartial` is set when a model is unpriced, so usage from before any
  model was known leaves the total unmarked while its row is (`snapshot.go:37-39`,
  `reduce.go:487-492`).
- A child that names a model the book does not have is a model "unpriced" before
  it has used anything.
- `CostLedger` resolves model by model: a swap in between mixes two tables for a
  cycle.
- `fetchSnapshot` promises "never fewer" models than the embedded table
  (`refresh.go:87-89`); what is fetched is swapped in whatever it has.
- `sysReinitBackoff` speaks of a sampler "that Sample has started erroring on"
  (`run.go:38-42`); one that has started is never started again, as 189-195 says.
  And it is to be waited between attempts, but after a failed start in `buildSources`
  the first cycle tries again at once (`run.go:86, 175`).
- The footer's caveat is "permanent UI" (`footer.go:13-16`) and the first line to
  be cut. `[PAUSED]` is "always shown when paused" (`footer.go:89-90`), but in a
  narrow terminal the status line drops it like the rest: below 28 columns, below 43
  with up to nine hidden sessions, below 44 with up to 99; and the count itself below
  32 or 33.
- The header of the sessions table prints `TL` and `GPU/s` a column narrower than the
  cells below them (`panel/sessions.go:285-294`).
- The sections are to make up the exact height (`ui/model.go:395-399`). With twelve
  CPU clusters or more and 38 lines they make up more: the graphs take 13 lines
  without regard to what the hardware strip has left. The tests have at most three;
  `FrameIsFull` is for up to eleven.
- `GPUPctApprox` is always nil outside of tests: nothing sets what it is scaled by.

## 5. Plan

1. `Dashboard`: `SamplingLoop` composed with `Reducer`, pause included.
2. `CodexSource` with the parse state of `CodexRollout` and the discovery of
   `RolloutIndex`.
3. The reducer's totals and the content of the history rings.

## 6. Not modelled

The SoC sampler is a wrapper of vendored C, whose failures are the sampling loop's
inputs; the enumeration of processes is system calls. Replay and demo sources,
scrubbing, the configuration and `doctor` are sequential I/O or test support; the
site and docs have no run-time state. Of the panels the hardware, graph, detail and
help panels and the text of rows are pure functions of the snapshot. Formatting,
colours, logging and file names are left out everywhere.
