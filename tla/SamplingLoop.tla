---------------------------- MODULE SamplingLoop ----------------------------
(***************************************************************************)
(* The sampling loop (cmd/wattop/run.go) and the goroutines beside it.     *)
(* The loop samples the SoC, which blocks for the whole interval when it   *)
(* works, scans and polls, hands the cycle to the UI, which takes one at a *)
(* time and prices it, and sleeps out what is left of the interval.  With  *)
(* --json it prices the cycle itself and writes it out, with --once only   *)
(* the one (json.go, main.go).  A sampler that did not start is started    *)
(* again, at most once per backoff.  Meanwhile the book may be refreshed   *)
(* (PricingBook).                                                          *)
(*                                                                         *)
(* Time is counted in ticks, as the time since the cycle began, up to      *)
(* Interval, and the time to the next attempt.  History is the time since  *)
(* the last attempt that failed, buildSources' own included, up to         *)
(* Backoff, how many failed, up to 2, and the time since the last two      *)
(* cycles were handed over, up to Interval.  What the sampler can do       *)
(* changes at any time.                                                    *)
(***************************************************************************)
EXTENDS PricingBook, Naturals

CONSTANTS Interval,      \* Loop.Interval
          Backoff,       \* sysReinitBackoff
          Old,           \* the versions older than pricingMaxAge or undated
          Ui             \* the reader that prices a cycle, the UI or the loop

ASSUME LoopAssumption ==
  {Interval, Backoff} \subseteq Nat \ {0} /\ Old \subseteq Version /\ Ui \in Reader

VARIABLES pc,            \* where the cycle is
          elapsed,       \* since the cycle began
          sampler,       \* what the SoC does: "works", "errs" or "fails to start"
          sysAvailable, sysNextRetry,
          since, failures,   \* history: since the last failed start; how many
          sent, sentBefore,  \* history: since the last cycle was handed over,
                             \* and since the one before
          sysOK,         \* errSys == nil in this cycle
          health,        \* what the cycle in flight reports
          toPrice,       \* the models of it that have yet to be priced
          mode           \* how wattop was started

clock == <<elapsed, sysNextRetry, since, failures, sent, sentBefore>>
loopVars == <<pc, clock, sampler, sysAvailable, sysOK, health, toPrice, mode, book>>

Source == {"soc", "proc", "agent", "pricing"}

\* safeSample, safeScan and safePoll: a panic is one more way to fail.
Outcome == {"result", "error", "panic"}
Succeeded(outcome) == outcome = "result"

\* buildSources: the embedded table, and a first attempt to start the sampler.
BuildSources ==
  /\ BookInit
  /\ sampler \in {"works", "errs", "fails"}
  /\ sysAvailable = (sampler # "fails")

LoopInit ==
  /\ BuildSources /\ mode \in {"tui", "json", "once"}
  /\ pc = "begin" /\ elapsed = 0
  /\ sysNextRetry = 0
  /\ since = (IF sysAvailable THEN Backoff ELSE 0)
  /\ failures = (IF sysAvailable THEN 0 ELSE 1)
  /\ sent = Interval /\ sentBefore = Interval
  /\ sysOK = FALSE /\ health = [s \in Source |-> FALSE]
  /\ toPrice = {}

Change == sampler' \in {"works", "errs", "fails"} \ {sampler}
          /\ UNCHANGED <<pc, clock, sysAvailable, sysOK, health, toPrice, mode, book>>

Older(bound, age) == IF age < bound THEN age + 1 ELSE age

\* Time passes where the loop waits.
Wait ==
  /\ pc \in {"sample", "send", "pace"}
  /\ elapsed' = Older(Interval, elapsed)
  /\ sysNextRetry' = IF sysNextRetry > 0 THEN sysNextRetry - 1 ELSE 0
  /\ since' = Older(Backoff, since)
  /\ sent' = Older(Interval, sent) /\ sentBefore' = Older(Interval, sentBefore)
  /\ UNCHANGED failures /\ clock' # clock
  /\ UNCHANGED <<pc, sampler, sysAvailable, sysOK, health, toPrice, mode, book>>

\* A sampler that has started is sampled.
Available ==
  /\ pc = "begin" /\ sysAvailable
  /\ pc' = "sample"
  /\ UNCHANGED <<clock, sampler, sysAvailable, sysOK, health, toPrice, mode, book>>

\* History: one more start has failed.
Failed == since' = 0 /\ failures' = Older(2, failures)

\* Mutant: a failed start is not written down.
ReinitEager ==
  /\ pc = "begin" /\ ~sysAvailable /\ sysNextRetry = 0
  /\ IF sampler = "fails"
     THEN /\ Failed /\ pc' = "scan" /\ sysOK' = FALSE /\ UNCHANGED sysAvailable
     ELSE /\ sysAvailable' = TRUE /\ pc' = "sample"
          /\ UNCHANGED <<since, failures, sysOK>>
  /\ UNCHANGED <<elapsed, sysNextRetry, sent, sentBefore, sampler, health, toPrice, mode, book>>

\* Mutant: neither is a start that worked.
ReinitUnnoted ==
  /\ pc = "begin" /\ ~sysAvailable /\ sysNextRetry = 0
  /\ pc' = "scan" /\ sysOK' = FALSE
  /\ IF sampler = "fails" THEN sysNextRetry' = Backoff /\ Failed
     ELSE UNCHANGED <<sysNextRetry, since, failures>>
  /\ UNCHANGED <<elapsed, sent, sentBefore, sampler, sysAvailable, health, toPrice, mode, book>>

\* One that has not is started, unless the loop's last attempt is too recent;
\* where that works it is sampled in the same cycle.
Reinit ==
  /\ pc = "begin" /\ ~sysAvailable /\ sysNextRetry = 0
  /\ IF sampler = "fails"
     THEN /\ sysNextRetry' = Backoff /\ Failed
          /\ pc' = "scan" /\ sysOK' = FALSE /\ UNCHANGED sysAvailable
     ELSE /\ sysAvailable' = TRUE /\ pc' = "sample"
          /\ UNCHANGED <<sysNextRetry, since, failures, sysOK>>
  /\ UNCHANGED <<elapsed, sent, sentBefore, sampler, health, toPrice, mode, book>>

NoRetry ==
  /\ pc = "begin" /\ ~sysAvailable /\ sysNextRetry > 0
  /\ pc' = "scan" /\ sysOK' = FALSE
  /\ UNCHANGED <<clock, sampler, sysAvailable, health, toPrice, mode, book>>

\* safeSample: a reading once the interval is over, or an error or a recovered
\* panic at any time; neither makes the sampler unavailable.
Sample ==
  /\ pc = "sample" /\ pc' = "scan"
  /\ \/ sampler = "works" /\ elapsed = Interval /\ sysOK' = TRUE
     \/ sampler # "works" /\ sysOK' = FALSE
  /\ UNCHANGED <<clock, sampler, sysAvailable, health, toPrice, mode, book>>

\* Scan, polls, the pricing book's state and the health of them all.
Collect ==
  /\ pc = "scan" /\ pc' = "send"
  /\ \E proc, agent \in Outcome :
       health' = [soc |-> sysOK, proc |-> Succeeded(proc), agent |-> Succeeded(agent),
                  pricing |-> Prices[table] # {} /\ table \notin Old]
  /\ UNCHANGED <<clock, sampler, sysAvailable, sysOK, toPrice, mode, book>>

\* Send: the UI takes it once it is done with the last, and prices it while
\* the loop goes on; the other modes reduce it in the loop.
Send ==
  /\ pc = "send" /\ toPrice = {} /\ reading[Ui] = Idle
  /\ pc' = (IF mode = "tui" THEN "pace" ELSE "write") /\ toPrice' = Model
  /\ sent' = 0 /\ sentBefore' = sent
  /\ UNCHANGED <<elapsed, sysNextRetry, since, failures>>
  /\ UNCHANGED <<sampler, sysAvailable, sysOK, health, mode, book>>

Price ==
  /\ \/ \E m \in toPrice : Look(Ui, m) /\ toPrice' = toPrice \ {m}
     \/ Card(Ui) /\ UNCHANGED toPrice
  /\ UNCHANGED <<pc, clock, sampler, sysAvailable, sysOK, health, mode>>

\* runOnce and runJSON: the snapshot is written once all of it is priced; the
\* first is the last of --once, and so is one that cannot be written.
Write ==
  /\ pc = "write" /\ toPrice = {} /\ reading[Ui] = Idle
  /\ pc' \in IF mode = "once" THEN {"done"} ELSE {"pace", "done"}
  /\ UNCHANGED <<clock, sampler, sysAvailable, sysOK, health, toPrice, mode, book>>

\* A signal ends the loop before a cycle or while it waits, and --once not at
\* all; a signal or the quit key ends the UI, and the loop with it, at any point.
Stop ==
  /\ \/ mode = "tui" /\ pc # "done"
     \/ mode = "json" /\ pc \in {"begin", "pace"}
  /\ pc' = "done"
  /\ UNCHANGED <<clock, sampler, sysAvailable, sysOK, health, toPrice, mode, book>>

\* Mutant: a cycle follows the last without a wait.
PaceAtOnce ==
  /\ pc = "pace" /\ pc' = "begin" /\ elapsed' = 0
  /\ UNCHANGED <<sysNextRetry, since, failures, sent, sentBefore>>
  /\ UNCHANGED <<sampler, sysAvailable, sysOK, health, toPrice, mode, book>>

\* pace: what is left of the interval is slept out.
Pace ==
  /\ pc = "pace" /\ elapsed = Interval
  /\ pc' = "begin" /\ elapsed' = 0
  /\ UNCHANGED <<sysNextRetry, since, failures, sent, sentBefore>>
  /\ UNCHANGED <<sampler, sysAvailable, sysOK, health, toPrice, mode, book>>

Loop == Available \/ Reinit \/ NoRetry \/ Sample \/ Collect \/ Send \/ Write \/ Pace

Refreshing ==
  Refresh /\ UNCHANGED <<pc, clock, sampler, sysAvailable, sysOK, health, toPrice, mode>>

LoopNext == Wait \/ Change \/ Loop \/ Stop \/ Price \/ Refreshing

\* The clock moves on, and each goroutine that can run does in the end.
Fairness == WF_loopVars(Wait) /\ WF_loopVars(Loop) /\ WF_loopVars(Price) /\ WF_loopVars(Refreshing)
LoopSpec == LoopInit /\ [][LoopNext]_loopVars /\ Fairness

-----------------------------------------------------------------------------
\* Neither is a failing sampler started over and over, nor the display flooded.
\* A cycle without a sampler tries to start it just when the last attempt that
\* failed is a backoff ago, but for the loop's first attempt, which comes right
\* after the one in buildSources, whatever became of that a moment ago, since
\* sysNextRetry is still zero then: two attempts in a row, where run.go:38-42
\* wants a backoff between any two.  And of any three cycles that are handed
\* over, the last comes at least an interval after the first, however long the
\* display takes for one, and however fast the sampler fails: a cycle that had
\* to wait is followed by one at once, but never by two
\* (run.go:124-149, 173-182).
NeverHammered ==
  [][/\ Reinit => since = Backoff \/ failures = 1
     /\ NoRetry => since < Backoff /\ failures > 1
     /\ Send => sentBefore = Interval]_loopVars

\* Whatever went wrong before, once the sampler works for good its readings are
\* reported, cycle after cycle until wattop is stopped, and no badge of it
\* comes back (run.go:185-196).
ComesBack == <>[](sampler = "works" /\ pc # "done") => <>[](health["soc"])
=============================================================================
