------------------------------ MODULE Subagents ------------------------------
(***************************************************************************)
(* The children of one Claude session (internal/agent/claude/subagents.go) *)
(* and the files that tell of them: a metadata file and a transcript per   *)
(* child, the session's own transcript, and the journal of one workflow.   *)
(* Each child has one kind of definitive end: a workflow agent a journal   *)
(* record, a background child a task-notification, any other child the     *)
(* tool_result of the call that spawned it, in its parent's transcript.    *)
(* Evidence may come in any order, before or after the child's own files,  *)
(* and any single read of a poll may fail.                                 *)
(*                                                                         *)
(* Bounds: MaxNow, and MaxEvents things that happen to the files.          *)
(***************************************************************************)
EXTENDS SubagentTree

CONSTANTS Child, Kind, Parent,  \* the children, numbers, with kind and parent
          Quiet,                \* subagentQuietAfter
          Unknown,              \* a path the tracker has no child for
          MaxNow, MaxEvents

ASSUME ChildAssumption == Child \subseteq Nat \ {0} /\ IsFiniteSet(Child)
ASSUME QuietAssumption == Quiet \in Nat
ASSUME KindAssumption == Kind \in [Child -> {"workflow", "background", "plain"}]
ASSUME ParentAssumption == Parent \in [Child -> Int]

VARIABLES now,
          meta,     \* the children whose metadata is on disk
          rows, gen,\* each child's transcript, and its inode
          answered, notified, journal,  \* the evidence written so far, but for
                    \* the results in children's transcripts
          events,   \* how many of these there were, bounded
          ended,    \* history: how each child's end was last put on record
          children, resulted, notifications,  \* the tracker
          read, terminal,                     \* its journalState
          shown     \* what the last poll that succeeded returned

world == <<meta, rows, gen, answered, notified, journal, events, ended>>
tracker == <<children, resulted, notifications, read, terminal>>
vars == <<now, world, tracker, shown>>

InWorkflow(c) == Kind[c] = "workflow"
Spawner(c) == IF Parent[c] \in Child THEN Parent[c] ELSE 0

\* The one read that fails in a poll: of a child's metadata, stat or tail, of
\* the journal, or of the workflows' directory.
At(what, c) == [at |-> what, of |-> c]
Fault == [at : {"workflows", "journal"}, of : {0}] \cup [at : {"meta", "stat", "tail"}, of : Child]

-----------------------------------------------------------------------------
\* childState
ChildState ==
  [size : Nat, inode : Nat, growth : Nat, offset : Nat, tailInode : Nat, usage : Nat,
   pending : Nat, activity : Nat, start : Nat, results : SUBSET Child]

ASSUME UnknownAssumption == Unknown \notin Status \cup ChildState

New == [size |-> 0, inode |-> 0, growth |-> 0, \* the last stat, when it grew
        offset |-> 0, tailInode |-> 0,         \* TailState
        usage |-> 0, pending |-> 0, activity |-> 0, \* of the rows read
        start |-> 0, results |-> {}]

\* Mutant: a truncated transcript is added to the old sums.
ResetKeepsSums(k) == k

\* childState.reset
Reset(k) == [k EXCEPT !.usage = 0, !.pending = 0, !.start = 0]

\* applyChildEvent; a row is work, a tool call, its return, or the result of
\* a nested child.
Applied(k, row) ==
  [k EXCEPT !.activity = IF row.ts > @ THEN row.ts ELSE @,
            !.start    = IF @ = 0 THEN row.ts ELSE @,
            !.usage    = IF row.is = "work" THEN @ + 1 ELSE @,
            !.pending  = IF row.is = "call" THEN 1 ELSE IF row.is = "return" THEN 0 ELSE @,
            !.results  = IF row.is = "result" THEN @ \cup {row.of} ELSE @]

Observed(k, c) ==
  [k EXCEPT !.growth = IF k.inode # 0 /\ (k.size # Len(rows[c]) \/ k.inode # gen[c])
                       THEN now ELSE @,
            !.size = Len(rows[c]), !.inode = gen[c]]

\* Mutant: nothing to do when the stat shows nothing new.
CaughtUpByStat(k, c) == k.inode = gen[c] /\ k.size = Len(rows[c])

\* Nothing to do when the tail is at the end of this very file.
CaughtUp(k, c) == k.tailInode = gen[c] /\ k.offset = Len(rows[c])

\* The rows behind the tail.
Tailed(k, c) ==
  LET again == k.tailInode # 0 /\ k.tailInode # gen[c]
      from  == IF again THEN 0 ELSE k.offset
  IN [FoldLeft(Applied, IF again THEN Reset(k) ELSE k,
               SubSeq(rows[c], from + 1, Len(rows[c])))
        EXCEPT !.offset = Len(rows[c]), !.tailInode = gen[c]]

\* readChild: stat, then the tail; either may fail.
ReadChild(k, c, fault) ==
  IF gen[c] = 0 \/ fault = At("stat", c) THEN k
  ELSE IF CaughtUp(k, c) \/ fault = At("tail", c) THEN Observed(k, c)
  ELSE Tailed(Observed(k, c), c)

\* scanAgents, over the directories that could be read.
Scanned(fault) ==
  [c \in Child |->
     IF c \notin meta \/ (InWorkflow(c) /\ fault.at = "workflows") THEN Unknown
     ELSE IF children[c] # Unknown THEN ReadChild(children[c], c, fault)
     ELSE IF fault = At("meta", c) THEN Unknown
     ELSE ReadChild(New, c, fault)]

\* readJournal's facts: a later record of an agent replaces an earlier one.
Decoded(known, records) ==
  [c \in Child |->
     LET ends == {i \in DOMAIN records : records[i].of = c /\ records[i].type # "started"}
     IN IF ends = {} THEN known[c] ELSE records[Max(ends)].type]

NoTerminal == [c \in Child |-> Unknown]

\* The journal's tail and facts after a poll; forgotten with its directory.
Journal(fault) ==
  IF fault.at = "workflows"
  THEN [read |-> 0, terminal |-> NoTerminal]
  ELSE IF fault.at = "journal" THEN [read |-> read, terminal |-> terminal]
  ELSE [read |-> Len(journal),
        terminal |-> Decoded(terminal, SubSeq(journal, read + 1, Len(journal)))]

\* Mutant: the launch acknowledgement ends a background child.
VerdictOnAck(c, res, notes, term) ==
  IF InWorkflow(c) THEN term[c] ELSE IF c \in res THEN Done ELSE Unknown

\* Mutant: a silent child that had started is done.
VerdictOnSilence(c, res, notes, term) ==
  IF InWorkflow(c) THEN term[c]
  ELSE IF Kind[c] = "background" THEN notes[c]
  ELSE IF c \in res \/ (children[c] # Unknown /\ children[c].activity + Quiet < now)
       THEN Done ELSE Unknown

\* subagentOf: the definitive status, if there is one.
Verdict(c, res, notes, term) ==
  IF InWorkflow(c) THEN term[c]
  ELSE IF Kind[c] = "background" THEN notes[c]
  ELSE IF c \in res THEN Done ELSE Unknown

\* Otherwise it is running while a tool call is open or it was heard of lately.
Inferred(k) ==
  LET last == IF k.growth > k.activity THEN k.growth ELSE k.activity
  IN IF k.pending > 0 \/ (last # 0 /\ now - last <= Quiet) THEN Running ELSE Idle

\* The definitive or inferred status of the children that are known.
Told(kids, res, notes, term) ==
  LET S == {c \in Child : kids[c] # Unknown} IN
  Propagated(S, Parent,
    [c \in S |-> IF Verdict(c, res, notes, term) # Unknown
                 THEN Verdict(c, res, notes, term) ELSE Inferred(kids[c])])

\* What collect returns.
Snapshot(status, kids) ==
  [status |-> status,
   usage  |-> [c \in DOMAIN status |-> kids[c].usage],
   order  |-> TreeOrder(DOMAIN status, Parent,
                        [c \in Child |-> IF InWorkflow(c) THEN 1 ELSE NoWorkflow],
                        [c \in DOMAIN status |-> kids[c].start]),
   run    |-> RunStatus({status[c] : c \in {x \in DOMAIN status : InWorkflow(x)}})]

-----------------------------------------------------------------------------
Init ==
  /\ now = 1 /\ meta = {}
  /\ rows = [c \in Child |-> <<>>] /\ gen = [c \in Child |-> 0]
  /\ answered = {} /\ notified = NoTerminal /\ journal = <<>> /\ events = 0
  /\ ended = NoTerminal
  /\ children = NoTerminal /\ resulted = {} /\ notifications = NoTerminal
  /\ read = 0 /\ terminal = NoTerminal
  /\ shown = Snapshot([c \in {} |-> Idle], children)

Tick ==
  /\ now < MaxNow /\ now' = now + 1
  /\ UNCHANGED <<world, tracker, shown>>

Happens == events < MaxEvents /\ events' = events + 1

\* A child is spawned: its metadata is written, and a background child's call
\* is acknowledged at once.
Spawn(c) ==
  /\ Happens
  /\ c \notin meta /\ Spawner(c) \in meta \cup {0}
  /\ meta' = meta \cup {c}
  /\ answered' = IF Kind[c] = "background" THEN answered \cup {c} ELSE answered
  /\ UNCHANGED <<now, rows, gen, notified, journal, ended, tracker, shown>>

\* A child's transcript grows; the first row makes the file.
Grow(c, row) ==
  /\ rows' = [rows EXCEPT ![c] = Append(@, row)]
  /\ gen' = [gen EXCEPT ![c] = IF @ = 0 THEN 1 ELSE @]

Work(c) ==
  /\ Happens
  /\ c \in meta
  /\ \E is \in {"work", "call", "return"} : Grow(c, [is |-> is, of |-> 0, ts |-> now])
  /\ UNCHANGED <<now, meta, answered, notified, journal, ended, tracker, shown>>

Rewrite(c) ==
  /\ Happens
  /\ gen[c] # 0
  /\ \A i \in DOMAIN rows[c] : rows[c][i].is = "result" => rows[c][i].of \in resulted
  /\ gen' = [gen EXCEPT ![c] = @ + 1]
  /\ rows' = [rows EXCEPT ![c] = <<>>]
  /\ UNCHANGED <<now, meta, answered, notified, journal, ended, tracker, shown>>

\* The result of a plain child, in the transcript of whoever spawned it.
Answer(c) ==
  /\ Happens
  /\ c \in meta /\ Kind[c] = "plain" /\ ended[c] = Unknown
  /\ ended' = [ended EXCEPT ![c] = Done]
  /\ IF Spawner(c) = 0
     THEN answered' = answered \cup {c} /\ UNCHANGED <<rows, gen>>
     ELSE /\ Grow(Spawner(c), [is |-> "result", of |-> c, ts |-> now])
          /\ UNCHANGED answered
  /\ UNCHANGED <<now, meta, notified, journal, tracker, shown>>

Notify(c) ==
  /\ Happens
  /\ c \in meta /\ Kind[c] = "background"
  /\ \E st \in {Done, Failed} :
       /\ notified' = [notified EXCEPT ![c] = st]
       /\ ended' = [ended EXCEPT ![c] = st]
  /\ UNCHANGED <<now, meta, rows, gen, answered, journal, tracker, shown>>

Record(c) ==
  /\ Happens
  /\ InWorkflow(c)
  /\ \E type \in {"started", Done, Failed} :
       /\ journal' = Append(journal, [type |-> type, of |-> c])
       /\ ended' = IF type = "started" THEN ended ELSE [ended EXCEPT ![c] = type]
  /\ UNCHANGED <<now, meta, rows, gen, answered, notified, tracker, shown>>

\* collect, after the session's own transcript was read.
Collect(fault) ==
  LET kids == Scanned(fault)
      j    == Journal(fault)
      res  == resulted \cup answered
                \cup UNION {kids[c].results : c \in {x \in Child : kids[x] # Unknown}}
  IN /\ children' = kids /\ resulted' = res /\ notifications' = notified
     /\ read' = j.read /\ terminal' = j.terminal
     /\ shown' = Snapshot(Told(kids, res, notified, j.terminal), kids)
     /\ UNCHANGED <<now, world>>

Poll == Collect(At("none", 0))
PollWithFault == \E fault \in Fault : Collect(fault)

\* The directory itself cannot be listed: the poll fails.
PollFails ==
  /\ resulted' = resulted \cup answered /\ notifications' = notified
  /\ UNCHANGED <<now, world, children, read, terminal, shown>>

Next ==
  \/ Tick
  \/ \E c \in Child : Spawn(c) \/ Work(c) \/ Rewrite(c) \/ Answer(c) \/ Notify(c) \/ Record(c)
  \/ Poll \/ PollWithFault \/ PollFails

Spec == Init /\ [][Next]_vars

-----------------------------------------------------------------------------
Ended(st) == st \in {Done, Failed}

\* A poll whose reads all succeed lists every child once, behind the one that
\* spawned it, and tells its end and usage as they are on disk, whatever earlier
\* reads failed and in whatever order the evidence came (subagents.go:238-394,
\* 440-459, 506-565).
PollTellsAll ==
  [][Poll => /\ DOMAIN shown'.status = meta
             /\ ToSet(shown'.order) = meta /\ IsInjective(shown'.order)
             /\ \A i, j \in DOMAIN shown'.order :
                  Parent[shown'.order[j]] = shown'.order[i] /\ ~InWorkflow(shown'.order[j])
                    => i < j
             /\ \A c \in meta :
                  /\ IF ended[c] = Unknown THEN ~Ended(shown'.status[c])
                     ELSE shown'.status[c] = ended[c]
                  /\ shown'.usage[c] = Cardinality({i \in DOMAIN rows[c] : rows[c][i].is = "work"})]_vars

\* A child once shown as ended does not come back to life by a late record, a
\* failed read or a rewritten transcript while it is listed
\* (subagents.go:279-308, 349-354).
EndStays ==
  [][\A c \in DOMAIN shown.status :
       Ended(shown.status[c]) /\ c \in DOMAIN shown'.status => Ended(shown'.status[c])]_vars

\* No child is shown as ended before its end is on record: silence is not
\* completion, nor is the acknowledgement of a launch (types.go:222-225,
\* subagents.go:441-452).
SilenceIsNoEnd ==
  \A c \in DOMAIN shown.status : Ended(shown.status[c]) => ended[c] # Unknown

\* Whoever waits behind a running child is not shown as idle, over any number
\* of generations, and a workflow is not shown as over while one of its agents
\* is not (subagents.go:475-495, 628-640).
UnfinishedShows ==
  LET S == DOMAIN shown.status IN
  /\ \A c \in S : shown.status[c] = Running =>
       \A a \in Ancestors(S, Parent, c) : shown.status[a] # Idle
  /\ Ended(shown.run) => \A c \in S : InWorkflow(c) => Ended(shown.status[c])
=============================================================================
