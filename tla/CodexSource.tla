----------------------------- MODULE CodexSource -----------------------------
(***************************************************************************)
(* Which rollouts the Codex source reports, and as which process's         *)
(* (internal/agent/codex: source.go, bind.go): the shortlist by mtime, the *)
(* lookback, the bind of top-level rollouts to processes by working        *)
(* directory and start time, the pins that carry a bound rollout past the  *)
(* shortlist window from poll to poll, and the folding of children.        *)
(*                                                                         *)
(* Around it run codex processes: one starts in a directory, makes a       *)
(* rollout, resumes an old one, writes to the one it is running or to one  *)
(* of its children, spawns children, also of children, and exits.  Another *)
(* may be the daemon of the app server, which runs no rollout.  Rollouts   *)
(* are numbered in the order of their paths, which is the order of         *)
(* creation.  Every process has a readable command line, directory and     *)
(* start.  The bounds are MaxTime, MaxRollout and the pids.                *)
(***************************************************************************)
EXTENDS CodexFold

CONSTANTS Dir,            \* working directories
          Pid,            \* process ids, which are reused
          Daemons,        \* the process ids that a daemon may have
          MaxRollout, MaxTime,
          Lookback,       \* lookback (2 h)
          ShortlistWindow,\* shortlistWindow (24 h)
          MayReuse,       \* whether a process may run more than one rollout
          MayFail         \* what may fail: among "scan" and "read"

ASSUME WindowAssumption ==
  Lookback \in Nat /\ ShortlistWindow \in Nat /\ Lookback <= ShortlistWindow
ASSUME PidAssumption ==
  Pid \subseteq Nat /\ IsFiniteSet(Pid) /\ Daemons \subseteq Pid
ASSUME BoundAssumption == MaxRollout \in Nat /\ MaxTime \in Nat
ASSUME FaultAssumption == MayReuse \in BOOLEAN /\ MayFail \subseteq {"scan", "read"}

Rollout == 1 .. MaxRollout

VARIABLES now,
          proc,     \* a live process: its directory, start and current rollout
          count,    \* how many rollouts there are
          mtime, meta, dir, parent,  \* of each: last write, creation, cwd, parent
          pinned,   \* Source.pinned: the process each rollout was last bound to
          sessions  \* the rollouts of the last poll's result, folded or not

disk == <<count, mtime, meta, dir, parent>>
source == <<pinned, sessions>>
vars == <<now, proc, disk, source>>

Process == [is : {"codex", "daemon"}, dir : Dir, start : 0 .. MaxTime, runs : Rollout \cup {None}]
Pin == [pid : Pid, start : 0 .. MaxTime]

ASSUME NoneAssumption == None \notin Nat \cup Dir \cup Process \cup Pin

Exists == 1 .. count
Root(r) == parent[r] = None
Alive == {p \in Pid : proc[p] # None}

-----------------------------------------------------------------------------
\* One poll, given the pids the scan returned.

PinOf(p) == [pid |-> p, start |-> proc[p].start]

\* addPinned: a pin holds while a process of the same pid and start is there.
PinHolds(r, procs) == \E p \in procs : pinned[r] = PinOf(p)

\* Mutant: without the pins.
ListedByAge(procs) == {r \in Exists : now - mtime[r] <= ShortlistWindow}

Listed(procs) ==
  {r \in Exists : now - mtime[r] <= ShortlistWindow \/ PinHolds(r, procs)}

Fresh(r) == now - mtime[r] <= Lookback

\* Mutant: the daemon's command line begins with codex, too.
CandidatesByName(procs) == procs

\* isCodexCandidate: those that may run a session.
Candidates(procs) == {p \in procs : proc[p].is = "codex"}

\* Mutant: never the older ones.
LiveFresh(procs) == {r \in Listed(procs) : Fresh(r)}

\* The rollouts that are read: older ones only while any candidate runs.
Live(procs) == {r \in Listed(procs) : Fresh(r) \/ Candidates(procs) # {}}

\* nearestNotBefore: the youngest of the candidates that is not younger than
\* the rollout, the first such one in the scan's order.
Nearest(r, cands) ==
  LET able == {p \in cands : proc[p].start <= meta[r]}
  IN IF able = {} THEN None
     ELSE CHOOSE p \in able : \A q \in able :
            \/ proc[q].start < proc[p].start
            \/ proc[q].start = proc[p].start /\ p <= q

\* Mutant: a pid that is taken is offered again.
PickTaken(r, alone, cands, used) ==
  IF alone /\ Cardinality(cands) = 1 THEN CHOOSE p \in cands : TRUE
  ELSE Nearest(r, cands)

\* Mutant: a lone candidate, too, must be older than the rollout.
PickOlder(r, alone, cands, used) == Nearest(r, cands \ used)

\* The pid for r: the only one in the directory of an only rollout, whatever
\* its start, and otherwise the nearest of those no rollout has taken.
Pick(r, alone, cands, used) ==
  IF alone /\ Cardinality(cands) = 1 THEN CHOOSE p \in cands : TRUE
  ELSE Nearest(r, cands \ used)

\* One step of bindAll: the pid for the nth rollout, if it is among those to
\* bind, given those of the ones before it.
BindNext(n, bound, tops, procs) ==
  IF n \notin tops THEN bound
  ELSE [bound EXCEPT ![n] =
          Pick(n, \A q \in tops : dir[q] = dir[n] => q = n,
               {p \in Candidates(procs) : proc[p].dir = dir[n]},
               {bound[r] : r \in 1 .. n - 1})]

\* bindAll over the top-level rollouts among read, in path order.  Processes
\* of different directories never compete.
BindAll(read, procs) ==
  LET tops == {r \in read : Root(r)}
      bind[n \in 0 .. MaxRollout] ==
        IF n = 0 THEN [r \in Rollout |-> None]
        ELSE BindNext(n, bind[n - 1], tops, procs)
  IN bind[MaxRollout]

-----------------------------------------------------------------------------
Init ==
  /\ now = 0 /\ count = 0
  /\ proc = [p \in Pid |-> None]
  /\ mtime = [r \in Rollout |-> 0] /\ meta = [r \in Rollout |-> 0]
  /\ dir = [r \in Rollout |-> None] /\ parent = [r \in Rollout |-> None]
  /\ pinned = [r \in Rollout |-> None] /\ sessions = {}

Tick == now < MaxTime /\ now' = now + 1 /\ UNCHANGED <<proc, disk, source>>

Launch(p, d, is) ==
  /\ proc[p] = None /\ (is = "daemon" => p \in Daemons)
  /\ proc' = [proc EXCEPT ![p] = [is |-> is, dir |-> d, start |-> now, runs |-> None]]
  /\ UNCHANGED <<now, disk, source>>

Exit(p) ==
  /\ proc[p] # None
  /\ proc' = [proc EXCEPT ![p] = None]
  /\ UNCHANGED <<now, disk, source>>

\* A rollout appears: a thread of its own, or a child of thread q.
Add(d, q) ==
  /\ count < MaxRollout
  /\ count' = count + 1
  /\ mtime' = [mtime EXCEPT ![count + 1] = now]
  /\ meta' = [meta EXCEPT ![count + 1] = now]
  /\ dir' = [dir EXCEPT ![count + 1] = d]
  /\ parent' = [parent EXCEPT ![count + 1] = q]
  /\ UNCHANGED <<now, source>>

Begin(p) ==
  /\ proc[p] # None /\ proc[p].is = "codex" /\ (MayReuse \/ proc[p].runs = None)
  /\ Add(proc[p].dir, None)
  /\ proc' = [proc EXCEPT ![p].runs = count + 1]

\* The thread p is in, with everything spawned from it.
TreeOf(p) == {r \in Exists : WalkToRoot(Exists, parent, r) = proc[p].runs}

Spawn(p, r) ==
  /\ proc[p] # None /\ proc[p].runs # None /\ r \in TreeOf(p)
  /\ Add(proc[p].dir, r)
  /\ UNCHANGED proc

Touch(r) ==
  /\ mtime' = [mtime EXCEPT ![r] = now]
  /\ UNCHANGED <<now, count, meta, dir, parent, source>>

Write(p, r) ==
  /\ proc[p] # None /\ proc[p].runs # None /\ r \in TreeOf(p)
  /\ Touch(r) /\ UNCHANGED proc

Resume(p, r) ==
  /\ MayReuse /\ proc[p] # None /\ proc[p].is = "codex" /\ Root(r) /\ dir[r] = proc[p].dir
  /\ \A q \in Alive : proc[q].runs # r
  /\ Touch(r)
  /\ proc' = [proc EXCEPT ![p].runs = r]

\* Poll: read what is live and can be read, bind it, repin, and leave out what
\* is neither fresh nor bound.
Poll(procs, unreadable) ==
  LET read == Live(procs) \ unreadable
      bind == BindAll(read, procs)
  IN /\ UNCHANGED <<now, proc, disk>>
     /\ pinned' = [r \in Rollout |->
                     IF bind[r] = None THEN None ELSE PinOf(bind[r])]
     /\ sessions' = {r \in read : Fresh(r) \/ bind[r] # None}

\* A failed scan reaches the poll as no processes at all.
Cycle ==
  \/ Poll(Alive, {})
  \/ "scan" \in MayFail /\ Poll({}, {})
  \/ "read" \in MayFail /\ \E r \in Exists : Poll(Alive, {r})

Next ==
  \/ Tick \/ Cycle
  \/ \E p \in Pid : Exit(p) \/ Begin(p)
  \/ \E p \in Pid, d \in Dir, is \in {"codex", "daemon"} : Launch(p, d, is)
  \/ \E p \in Pid, r \in Exists : Spawn(p, r) \/ Write(p, r) \/ Resume(p, r)

Spec == Init /\ [][Next]_vars

-----------------------------------------------------------------------------
Bound == {r \in Rollout : pinned[r] # None}

\* No process is shown as two sessions', and no child takes the process of its
\* root (bind.go:51-57, source.go:176-178).
OneSessionPerProcess ==
  \A r \in Bound :
    /\ Root(r) /\ r \in sessions
    /\ \A s \in Bound : pinned[s].pid = pinned[r].pid => s = r

\* The process that r is bound to, which is older than r, lives before and
\* after, and has not made way for one of the same pid and start elsewhere.
Lives(r) ==
  \E p \in Alive : /\ proc[p].is = "codex" /\ proc[p].start <= meta[r]
                   /\ proc[p].dir = dir[r]
                   /\ pinned[r] = PinOf(p)
                   /\ proc'[p] # None /\ pinned[r] = PinOf(p)'

\* A poll that fails nowhere finds, as long as none of the bound processes has
\* gone, at least as many sessions bound, however idle their rollouts, however
\* many of them have no process any more and whichever takes which
\* (source.go:60-68, bind.go:100-133).
BoundNeverFalls ==
  [][(\A r \in Bound : Lives(r)) /\ Poll(Alive, {})
       => Cardinality(Bound) <= Cardinality(Bound')]_source

\* The only top-level rollout of its directory.
Alone(r) == \A q \in Exists : Root(q) /\ dir[q] = dir[r] => q = r

Runs(p, r) == proc[p] # None /\ proc[p].runs = r

CodexIn(d) == {p \in Alive : proc[p].is = "codex" /\ proc[p].dir = d}

\* Whether a process can be told to be r's: the only codex of the directory,
\* or one that is not younger than r, as the one that began r is not.
Tellable(r) ==
  \/ Cardinality(CodexIn(dir[r])) = 1
  \/ \E p \in CodexIn(dir[r]) : proc[p].start <= meta[r]

\* Whatever failed before, the next poll that fails nowhere has every rollout
\* of the shortlist window that is alone in its directory and whose process
\* runs, idle or not, begun by it or resumed, but for one case: a rollout that
\* was resumed by a younger process, in whose directory there are more codex
\* processes and none as old as the rollout, is bound to none of them
\* (bind.go:111-119, 160-163), and past the lookback it is left out while its
\* process runs, against source.go:16-19.  And the poll has none past the
\* lookback in whose directory no session can run, however long a daemon does
\* (source.go:36-46, 131-137, bind.go:205-224).
FoundWithinWindow ==
  [][Poll(Alive, {}) =>
       /\ \A p \in Pid, r \in Exists :
            /\ Runs(p, r) /\ Root(r) /\ Alone(r) /\ Tellable(r)
            /\ now - mtime[r] <= ShortlistWindow
            => r \in sessions'
       /\ \A r \in sessions' : Fresh(r) \/ CodexIn(dir[r]) # {}]_vars

\* Every rollout of a poll stands in its result exactly once, as a session or
\* below one; a child below the one it was spawned from, after it and indented
\* further by one, and as a session only when one of those it was spawned from
\* has idled out of the poll
\* (source.go:205-264, fold.go:10-35, 104-133, panel/children.go:54-72).
Places(r) ==
  {place \in Rows(sessions, parent) \X (1 .. MaxRollout) :
     LET below == Below(sessions, parent, meta, place[1])
     IN place[2] <= Len(below) /\ below[place[2]] = r}

Behind(p, c) ==  \* c is listed somewhere after its parent p, and one deeper
  \E place \in Places(c) :
    LET s == place[1]
        depth(r) == Depth(ToSet(Below(sessions, parent, meta, s)), parent, s, r)
    IN IF p = s THEN depth(c) = 0
       ELSE depth(c) = depth(p) + 1 /\ \E i \in 1 .. place[2] - 1 : <<s, i>> \in Places(p)

ChainBroken(r) ==
  LET above[q \in Rollout] == IF Root(q) THEN {q} ELSE {q} \cup above[parent[q]]
  IN ~(above[r] \subseteq sessions)

NoChildLost ==
  \A r \in sessions :
    IF r \in Rows(sessions, parent)
    THEN Places(r) = {} /\ (Root(r) \/ ChainBroken(r))
    ELSE Cardinality(Places(r)) = 1 /\ Behind(parent[r], r)

\* A session that is bound to the process that runs it stays in the list for
\* as long as that process runs it, however idle it is (source.go:14-19).
KeptWhileRunning ==
  [][\A p \in Pid, r \in Rollout :
       /\ Runs(p, r) /\ r \in sessions /\ pinned[r] = PinOf(p)
       /\ Runs(p, r)'
       => r \in sessions']_vars
=============================================================================
