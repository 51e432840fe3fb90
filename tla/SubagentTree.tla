---------------------------- MODULE SubagentTree ----------------------------
(***************************************************************************)
(* What is made of a session's children once each has a status (agent/     *)
(* claude/subagents.go): who counts as running, in which order they are    *)
(* listed, and what a workflow's status is.  The children of one session   *)
(* are a finite set S of numbers, in the order of their ids; a child may   *)
(* name a parent that is unknown, itself, or one of its own descendants.   *)
(***************************************************************************)
EXTENDS Integers, Sequences, FiniteSets, SequencesExt

CONSTANTS NoWorkflow  \* the workflow of a child that is in none

Running == "running"
Idle == "idle"
Done == "done"
Failed == "failed"
Status == {Running, Idle, Done, Failed}

\* Those c waits behind: its parent, the parent's parent and so on, once each.
Ancestors(S, parent, c) ==
  LET up[n \in 0 .. Cardinality(S)] ==
        IF n = 0 THEN {} ELSE up[n - 1] \cup ({parent[x] : x \in up[n - 1] \cup {c}} \cap S)
  IN up[Cardinality(S)] \ {c}

\* Mutant: only the parent learns that a child is running.
PropagatedOnce(S, parent, status) ==
  [x \in S |-> IF status[x] = Idle /\ \E r \in S : status[r] = Running /\ parent[r] = x
               THEN Running ELSE status[x]]

\* Mutant: an ancestor that has ended runs again.
PropagatedToEnded(S, parent, status) ==
  [x \in S |-> IF \E r \in S : status[r] = Running /\ x \in Ancestors(S, parent, r)
               THEN Running ELSE status[x]]

\* propagateRunning
Propagated(S, parent, status) ==
  [x \in S |->
     IF status[x] = Idle
        /\ \E r \in S : status[r] = Running /\ x \in Ancestors(S, parent, r)
     THEN Running ELSE status[x]]

-----------------------------------------------------------------------------
\* byStartThenID; an unknown start, 0, is the zero time and comes first.
Before(start, x, y) == start[x] < start[y] \/ (start[x] = start[y] /\ x < y)

\* The elements of S in an order that is given by its pairs.
Ordered(S, order) ==
  CHOOSE s \in [1 .. Cardinality(S) -> S] :
    \A i, j \in 1 .. Cardinality(S) : i < j => <<s[i], s[j]>> \in order

Sorted(S, start) == Ordered(S, {p \in S \X S : Before(start, p[1], p[2])})

IsChild(S, parent, workflow, x) ==
  workflow[x] = NoWorkflow /\ parent[x] # x /\ parent[x] \in S

\* Mutant: only from the roots that are in no workflow.
VisitedFromRoots(S, parent, workflow, start) ==
  Sorted({x \in S : workflow[x] = NoWorkflow /\ ~IsChild(S, parent, workflow, x)}, start)

\* Where treeOrder visits from, in this order: roots, the agents of the
\* workflow that started first, of the next one, and whatever a cycle of
\* parents hides.
VisitedFrom(S, parent, workflow, start) ==
  LET from == {x \in S : ~IsChild(S, parent, workflow, x)}
      first(w) == Sorted({x \in S : workflow[x] = w}, start)[1]
      before(x, y) ==
        IF workflow[x] = workflow[y] THEN Before(start, x, y)
        ELSE \/ workflow[x] = NoWorkflow
             \/ /\ workflow[y] # NoWorkflow
                /\ Before(start, first(workflow[x]), first(workflow[y]))
  IN Ordered(from, {p \in from \X from : before(p[1], p[2])}) \o Sorted(S, start)

\* One visit: whoever is next is listed and its children come next, unless it
\* is listed already.
Visit(S, parent, workflow, start, v) ==
  LET x == Head(v.todo)
      children == {y \in S : IsChild(S, parent, workflow, y) /\ parent[y] = x}
  IN IF v.todo = <<>> THEN v
     ELSE IF x \in ToSet(v.out) THEN [v EXCEPT !.todo = Tail(@)]
     ELSE [todo |-> Sorted(children, start) \o Tail(v.todo), out |-> Append(v.out, x)]

\* treeOrder: depth first, each child once; most is as many visits as there can be.
TreeOrder(S, parent, workflow, start) ==
  LET from == VisitedFrom(S, parent, workflow, start)
      most == Len(from) + Cardinality(S) * Cardinality(S)
      visited[n \in 0 .. most] ==
        IF n = 0 THEN [todo |-> from, out |-> <<>>]
        ELSE Visit(S, parent, workflow, start, visited[n - 1])
  IN visited[most].out

-----------------------------------------------------------------------------
\* summariseWorkflows: a run's status from those of its agents.
RunStatus(statuses) ==
  IF statuses = {} THEN Idle
  ELSE IF Running \in statuses THEN Running
  ELSE IF Idle \in statuses THEN Idle
  ELSE IF Failed \in statuses THEN Failed ELSE Done
=============================================================================
