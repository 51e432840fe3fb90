----------------------------- MODULE CodexFold -----------------------------
(***************************************************************************)
(* How the child rollouts of a poll are folded below the session they were *)
(* spawned from (internal/agent/codex: fold.go, and the loops of Poll that *)
(* call it).  F is the set of rollouts a poll reports; parent[r] is the    *)
(* rollout r was spawned from, which may not be in F, or None.             *)
(*                                                                         *)
(* A thread has one rollout here.  In the code two children that share a   *)
(* thread id are both kept, and a child without one is its own parent for  *)
(* sortSubagentsTree; codex gives every thread an id of its own.           *)
(***************************************************************************)
EXTENDS Naturals, Sequences, FiniteSets, SequencesExt

CONSTANT None  \* no rollout, no process, no pin

\* walkToRoot: the root c's parents lead to, or None when one of them is
\* missing or they lead back to themselves.
WalkToRoot(F, parent, c) ==
  LET hop(r) == IF r = None \/ parent[r] = None THEN r
                ELSE IF parent[r] \in F THEN parent[r] ELSE None
      up[n \in 0 .. Cardinality(F)] == IF n = 0 THEN c ELSE hop(up[n - 1])
      top == up[Cardinality(F)]
  IN IF top # None /\ parent[top] = None THEN top ELSE None

\* Mutant: a child that leads to no root is nobody's.
RowsOfRoots(F, parent) == {r \in F : parent[r] = None}

\* The rollouts that are sessions: the roots, and the children that lead to none.
Rows(F, parent) == {r \in F : WalkToRoot(F, parent, r) \in {r, None}}

Before(start, x, y) == start[x] < start[y] \/ (start[x] = start[y] /\ x < y)

\* The children of r, by start and then id.
Spawned(F, parent, start, r) ==
  LET kids == {c \in F : parent[c] = r}
  IN CHOOSE s \in [1 .. Cardinality(kids) -> kids] :
       \A i, j \in 1 .. Cardinality(kids) : i < j => Before(start, s[i], s[j])

\* Mutant: only those the session itself has spawned.
BelowDirectly(F, parent, start, s) == Spawned(F, parent, start, s)

\* sortSubagentsTree: what is listed below the session s, each child before
\* its own.
Below(F, parent, start, s) ==
  LET tree[r \in F] ==
        LET kids == Spawned(F, parent, start, r)
        IN FlattenSeq([i \in DOMAIN kids |-> <<kids[i]>> \o tree[kids[i]]])
  IN IF parent[s] = None THEN tree[s] ELSE <<>>

\* What a child listed below s names as its parent: none for s itself.
ParentID(parent, s, c) == IF parent[c] = s THEN None ELSE parent[c]

\* subagentDepth: how far the table indents c among those listed below s, by
\* the parents it can find there.
Depth(listed, parent, s, c) ==
  LET hop(x) == IF x # None /\ ParentID(parent, s, x) \in listed \ {x}
                THEN ParentID(parent, s, x) ELSE None
      up[n \in 0 .. Cardinality(listed)] == IF n = 0 THEN c ELSE hop(up[n - 1])
  IN Cardinality({n \in 1 .. Cardinality(listed) : up[n] # None})
=============================================================================
