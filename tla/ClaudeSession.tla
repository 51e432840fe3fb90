---------------------------- MODULE ClaudeSession ----------------------------
(***************************************************************************)
(* One Claude session as Source.Poll sees it (internal/agent/claude/       *)
(* source.go): what it accumulates from the transcript, over polls that    *)
(* succeed, fail halfway or find no transcript, while the agent appends,   *)
(* compacts the transcript in place, removes it, and its session file      *)
(* comes, goes or is torn.  The tailer is ClaudeTail's subject and is      *)
(* atomic here: it delivers each row once and notices a rewrite.  The      *)
(* children are Subagents' subject.                                        *)
(*                                                                         *)
(* A row is one transcript record as the agent writes it; an event is what *)
(* it parses to (parse.go).  Bounds: MaxNow, MaxRows rows written and      *)
(* MaxRewrite compactions or removals.                                     *)
(***************************************************************************)
EXTENDS ClaudeUsage, Sequences, SequencesExt, FiniteSets

CONSTANTS Rows,       \* what the agent writes, but for the time
          Ages,       \* how old a row is when it is written
          Ladder,     \* contextWindowLadder
          Override,   \* the configured context window, 0 for none
          MaxTools,   \* maxRetainedTools
          Rescan,     \* transcriptRescanInterval
          NoId, NoUse, NoSplit, NoTime, NoLimit, NoSession,
          MaxNow, MaxRows, MaxRewrite

VARIABLES now,
          present, transcript, born, \* the transcript, and since when it exists
          rewritten,   \* its content is not the one the tail state is about
          written, rewrites,         \* bounded
          listed,      \* the session file can be read
          agg,         \* s.agg[id]
          shown,       \* what the last successful poll returned for it
          heard, base, lastLimit, answers  \* history: the rows behind agg since
                       \* its last reset, the model it had then, and, since agg
                       \* was made, the last quota row and all tool results

file == <<present, transcript, born, rewritten, written, rewrites>>
history == <<heard, base, lastLimit, answers>>
vars == <<now, file, listed, agg, shown, history>>

\* rawRecord: what a record of the transcript may say, as far as it is read.
RawUsage ==
  {NoUse} \cup [in : Nat, out : Nat, write : Nat, split : {NoSplit} \cup Nat]
RawContent ==
  [is : {"tool_use"}, name : STRING] \cup [is : {"tool_result"}, id : STRING]
RawQuota == {NoLimit} \cup [scope : STRING, resets : {NoTime} \cup Nat]

IsRecord(row) ==
  /\ DOMAIN row = {"id", "model", "use", "content", "quota", "ts"}
  /\ row.model \in Models \cup {NoModel}
  /\ row.use \in RawUsage /\ row.quota \in RawQuota /\ row.content \in Seq(RawContent)

ASSUME RowsAssumption == \A row \in Rows : IsRecord(row)
ASSUME TimesAssumption == Ages \subseteq Nat /\ Rescan \in Nat

-----------------------------------------------------------------------------
\* A message without an id goes by the hash of its line.
IdOf(row) == IF row.id = NoId THEN row ELSE row.id

\* usageFromRaw: what was written to the cache is told by tier, or as one sum.
UsageOf(use) == Use(use.in + IF use.split = NoSplit THEN use.write ELSE use.split, use.out)
ASSUME PromptsAssumption ==
  \A row \in Rows : row.use # NoUse => UsageOf(row.use).in <= MaxPrompt

\* A time that is missing or no time is Go's zero.
Time(t) == IF t = NoTime THEN 0 ELSE t

\* ParseRecord: only a five-hour quota is a limit.
Parsed(row) ==
  LET of(is) == SelectSeq(row.content, LAMBDA c : c.is = is)
  IN [id |-> IdOf(row), ts |-> Time(row.ts), model |-> row.model,
      use |-> IF row.use = NoUse THEN NoUse ELSE UsageOf(row.use),
      tools |-> of("tool_use"),
      results |-> {c.id : c \in Range(of("tool_result"))},
      quota |-> IF row.quota = NoLimit \/ row.quota.scope # "five_hour" THEN NoLimit
                ELSE [at |-> Time(row.ts), resets |-> Time(row.quota.resets)]]

-----------------------------------------------------------------------------
\* The session has no entry in s.agg.
NoAgg == [none |-> TRUE]

NewAgg == [known |-> FALSE, scanAt |-> 0, read |-> 0,
           acc |-> NoUsage, model |-> NoModel, tools |-> <<>>, count |-> 0,
           answered |-> {}, limit |-> NoLimit, lastUsageAt |-> 0,
           mark |-> 0, prompt |-> 0]

\* Mutant: the answers go with the sums.
ResetForgetsAnswers(a) ==
  [a EXCEPT !.acc = NoUsage, !.tools = <<>>, !.count = 0, !.mark = 0,
            !.prompt = 0, !.answered = {}]

\* Mutant: the rate limit goes too.
ResetForgetsLimit(a) ==
  [a EXCEPT !.acc = NoUsage, !.tools = <<>>, !.count = 0, !.mark = 0,
            !.prompt = 0, !.limit = NoLimit]

\* Mutant: the sums survive.
ResetNothing(a) == a

\* resetAccumulators: sums and maxima go, last-observed facts stay.
Reset(a) ==
  [a EXCEPT !.acc = NoUsage, !.tools = <<>>, !.count = 0, !.mark = 0, !.prompt = 0]

Newer(a, b) == IF b > a THEN b ELSE a
Retained(tools) ==
  IF Len(tools) <= MaxTools THEN tools
  ELSE SubSeq(tools, Len(tools) - MaxTools + 1, Len(tools))

\* highWaterMark
Marked(mark, use) == Newer(mark, use.in)

\* The loop of pollOne over one row: model, usage, prompt size, tools,
\* results and the five-hour limit.
Applied(a, line) ==
  LET row     == Parsed(line)
      model   == IF row.model = NoModel THEN a.model ELSE row.model
      request == row.use # NoUse /\ row.use # Zero
  IN [a EXCEPT
        !.model       = model,
        !.acc         = IF row.use = NoUse THEN @
                        ELSE Added(@, row.id, row.use, model, row.ts),
        !.lastUsageAt = IF row.use = NoUse THEN @ ELSE Newer(@, row.ts),
        !.prompt      = IF request THEN row.use.in ELSE @,
        !.mark        = IF request THEN Marked(@, row.use) ELSE @,
        !.tools       = Retained(@ \o row.tools),
        !.count       = @ + Len(row.tools),
        !.answered    = @ \cup row.results,
        !.limit       = IF row.quota = NoLimit THEN @ ELSE row.quota]

Lapsed(limit) == limit # NoLimit /\ limit.resets # 0 /\ now > limit.resets

\* Mutant: it is looked for again only after twice the interval.
LookedForLater(a) ==
  IF a.known \/ now < a.scanAt THEN a
  ELSE IF present THEN [a EXCEPT !.known = TRUE]
  ELSE [a EXCEPT !.scanAt = now + 2 * Rescan]

\* resolveTranscript, at most once per interval while there is none.
LookedFor(a) ==
  IF a.known \/ now < a.scanAt THEN a
  ELSE IF present THEN [a EXCEPT !.known = TRUE]
  ELSE [a EXCEPT !.scanAt = now + Rescan]

Readable(a) == a.known /\ present

Unread(a) == SubSeq(transcript, IF rewritten THEN 1 ELSE a.read + 1, Len(transcript))

ReadInto(a) ==
  FoldLeft(Applied, IF rewritten THEN Reset(a) ELSE a, Unread(a))

\* What pollOne has in agg when it comes to the children.
Read(a) ==
  LET b == IF Readable(a)
           THEN [ReadInto(a) EXCEPT !.read = Len(transcript)] ELSE a
  IN [b EXCEPT !.limit = IF Lapsed(@) THEN NoLimit ELSE @]

ContextWindow(mark) ==
  LET fits == {i \in DOMAIN Ladder : mark <= Ladder[i]}
  IN IF fits = {} THEN Ladder[Len(Ladder)]
     ELSE Ladder[CHOOSE i \in fits : \A j \in fits : i <= j]

\* The domain.Session that pollOne returns.
Session(a) ==
  [at |-> now, limited |-> a.limit # NoLimit,
   since |-> IF a.limit = NoLimit THEN 0 ELSE a.limit.at,
   rate |-> Rate(a.acc.window, now), model |-> a.model,
   usage |-> a.acc.usage, ledger |-> a.acc.ledger,
   used |-> a.prompt, max |-> IF Override # 0 THEN Override ELSE ContextWindow(a.mark),
   tools |-> a.tools, count |-> a.count, lastUsageAt |-> a.lastUsageAt]

-----------------------------------------------------------------------------
Init ==
  /\ now = 1 /\ listed = TRUE
  /\ present \in BOOLEAN /\ transcript = <<>> /\ born = 1
  /\ rewritten = FALSE /\ written = 0 /\ rewrites = 0
  /\ agg = NoAgg /\ shown = NoSession
  /\ heard = <<>> /\ base = NoModel /\ lastLimit = NoLimit /\ answers = {}

Tick ==
  /\ now < MaxNow
  /\ now' = now + 1
  /\ UNCHANGED <<file, listed, agg, shown, history>>

\* The agent: a row it writes now is some seconds old by its own clock, or does
\* not tell; a quota ends that much later.
At(row, age) ==
  LET ts == IF age < now THEN now - age ELSE NoTime IN
  [row EXCEPT !.ts = ts,
              !.quota = IF row.quota = NoLimit \/ row.quota.resets = NoTime THEN row.quota
                        ELSE [row.quota EXCEPT !.resets = now + @]]

Write ==
  /\ present /\ written < MaxRows
  /\ \E row \in Rows, age \in Ages : transcript' = Append(transcript, At(row, age))
  /\ written' = written + 1
  /\ UNCHANGED <<now, present, born, rewritten, rewrites, listed, agg, shown, history>>

Compact ==
  /\ present /\ rewrites < MaxRewrite
  /\ \E i \in 1 .. Len(transcript) : transcript' = SubSeq(transcript, i + 1, Len(transcript))
  /\ rewritten' = TRUE /\ rewrites' = rewrites + 1
  /\ UNCHANGED <<now, present, born, written, listed, agg, shown, history>>

RemoveTranscript ==
  /\ present /\ rewrites < MaxRewrite
  /\ present' = FALSE /\ transcript' = <<>>
  /\ rewritten' = TRUE /\ rewrites' = rewrites + 1
  /\ UNCHANGED <<now, born, written, listed, agg, shown, history>>

MakeTranscript ==
  /\ ~present
  /\ present' = TRUE /\ born' = now
  /\ UNCHANGED <<now, transcript, rewritten, written, rewrites, listed, agg, shown, history>>

\* The session's process ends, or a poll meets the file half written.
ToggleListed ==
  /\ listed' = ~listed
  /\ UNCHANGED <<now, file, agg, shown, history>>

Events(seq) == [i \in DOMAIN seq |-> Parsed(seq[i])]

\* What one poll reads, for the history.
Heard(a) ==
  LET new == Events(Unread(a))
      quotas == {i \in DOMAIN new : new[i].quota # NoLimit}
  IN IF Readable(a)
     THEN /\ heard' = IF rewritten \/ agg = NoAgg THEN Events(transcript) ELSE heard \o new
          /\ base' = IF agg = NoAgg THEN NoModel
                     ELSE IF rewritten THEN agg.model ELSE base
          /\ lastLimit' = IF quotas = {} THEN lastLimit
                          ELSE new[CHOOSE i \in quotas : \A j \in quotas : j <= i].quota
          /\ answers' = answers \cup UNION {new[i].results : i \in DOMAIN new}
          /\ rewritten' = FALSE
     ELSE UNCHANGED <<history, rewritten>>

Found == LookedFor(IF agg = NoAgg THEN NewAgg ELSE agg)

\* The transcript cannot be read: the poll fails there.
PollFailsToRead ==
  /\ listed /\ Readable(Found)
  /\ agg' = Found
  /\ UNCHANGED <<now, file, listed, shown, history>>

\* Mutant: a failed poll leaves only the offset behind.
PollFailsLater_Rewinds ==
  /\ listed
  /\ agg' = [Found EXCEPT !.read = Read(Found).read]
  /\ Heard(Found)
  /\ UNCHANGED <<now, present, transcript, born, written, rewrites, listed, shown>>

\* The children cannot be read, or a later session fails the poll: what was
\* read stays read and nothing is shown.
PollFailsLater ==
  /\ listed
  /\ agg' = Read(Found)
  /\ Heard(Found)
  /\ UNCHANGED <<now, present, transcript, born, written, rewrites, listed, shown>>

Poll ==
  /\ listed
  /\ agg' = Read(Found) /\ shown' = Session(Read(Found))
  /\ Heard(Found)
  /\ UNCHANGED <<now, present, transcript, born, written, rewrites, listed>>

\* No session file: the session is not returned, and agg is dropped.
PollWithoutIt ==
  /\ ~listed
  /\ agg' = NoAgg /\ shown' = NoSession
  /\ heard' = <<>> /\ base' = NoModel /\ lastLimit' = NoLimit /\ answers' = {}
  /\ rewritten' = FALSE
  /\ UNCHANGED <<now, present, transcript, born, written, rewrites, listed>>

Next ==
  \/ Tick \/ Write \/ Compact \/ RemoveTranscript \/ MakeTranscript \/ ToggleListed
  \/ PollFailsToRead \/ PollFailsLater \/ Poll \/ PollWithoutIt

Spec == Init /\ [][Next]_vars

-----------------------------------------------------------------------------
Uses(i) == heard[i].use # NoUse
RowsOf(m) == {i \in DOMAIN heard : Uses(i) /\ heard[i].id = m}
Told == {heard[i].id : i \in {j \in DOMAIN heard : Uses(j)}}
Latest(S) == CHOOSE i \in S : \A j \in S : j <= i

\* The model in force at a row: the last real one up to it.
ModelAt(i) ==
  LET named == {j \in 1 .. i : heard[j].model # NoModel}
  IN IF named = {} THEN base ELSE heard[Latest(named)].model

\* The row that gave message m the usage it has: later ones only repeat it.
Deciding(m) ==
  CHOOSE i \in RowsOf(m) :
    /\ \A j \in RowsOf(m) : j >= i => heard[j].use = heard[i].use
    /\ \A j \in RowsOf(m) : j < i =>
         \E k \in RowsOf(m) : j <= k /\ k < i /\ heard[k].use # heard[i].use

\* Nothing is left to read; a poll that reads, reads all.
AllRead == agg # NoAgg /\ ~rewritten /\ agg.read = Len(transcript)

\* However its rows repeat, revise, change model or price tier, each message
\* counts once, with what its last row says, in the session's total and in the
\* ledger bucket of its own request; and this holds again after every
\* compaction (usage.go:46-100, source.go:211-221).
EachMessageOnce ==
  AllRead =>
    LET told  == Told
        last  == [m \in told |-> Deciding(m)]
        final == [m \in told |-> heard[last[m]].use]
        own   == [m \in told |-> <<ModelAt(last[m]), PromptK(final[m].in)>>]
    IN /\ agg.acc.usage = Total(final, told)
       /\ \A b \in Bucket : agg.acc.ledger[b] = Total(final, {m \in told : own[m] = b})

\* The rate is what the rows of the last minute added, whatever the order of
\* their times, and no more than a minute of buckets is kept for it
\* (window.go:18-61).
RateIsTheLastMinute ==
  AllRead =>
    LET before(i) == {j \in RowsOf(heard[i].id) : j < i}
        added == [i \in DOMAIN heard |->
                    IF ~Uses(i) THEN Zero
                    ELSE IF before(i) = {} THEN heard[i].use
                    ELSE Minus(heard[i].use, heard[Latest(before(i))].use)]
        recent == {i \in DOMAIN heard : heard[i].ts > now - Span /\ heard[i].ts > 0}
    IN /\ Rate(agg.acc.window, now) = NonNegative(Total(added, recent))
       /\ Cardinality(DOMAIN agg.acc.window.at) <= Span + 1

\* What no row can tell again outlives the compaction that drops its row, for
\* as long as the session is listed: it shows rate-limited exactly while the
\* last limit it was told of is in force, though no row says a limit was lifted,
\* and a tool call once answered stays answered, lest its finished child
\* resurface (source.go:75-90, 277-292).
FactsOutliveCompaction ==
  [][shown' # shown /\ shown' # NoSession
       => /\ (shown.limited <=> lastLimit # NoLimit /\ ~Lapsed(lastLimit))'
          /\ answers' \subseteq agg'.answered]_vars

\* Every poll that returns the session has applied every row of the transcript
\* exactly once, also the rows an earlier poll read before it failed
\* (source.go:156-163, 203-232, 294-298), and the tool calls agree with them.
EveryRowOnce ==
  [][shown' # shown /\ shown' # NoSession /\ agg'.known /\ present'
       => LET asks == {i \in DOMAIN heard' : heard'[i].use \notin {NoUse, Zero}}
          IN /\ heard' = Events(transcript)
             /\ agg'.count = FoldSeq(LAMBDA row, n : n + Len(row.tools), 0, heard')
             /\ agg'.prompt = IF asks = {} THEN 0 ELSE heard'[Latest(asks)].use.in]_vars

\* A transcript that appears late is read within the rescan interval
\* (source.go:193-199).
FoundInTime ==
  [][shown' # shown /\ shown' # NoSession /\ present /\ now >= born + Rescan
       => agg'.known]_vars

=============================================================================
