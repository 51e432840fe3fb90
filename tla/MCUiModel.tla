------------------------------ MODULE MCUiModel ------------------------------
(***************************************************************************)
(* A model for TLC: snapshots of none to four sessions that are running    *)
(* with children, running unbound, ended, or stale while the process       *)
(* lives, and one with ten that ended, whose count has two digits;         *)
(* terminals from too small for a table to wide, the narrow ones at the    *)
(* widths where the status line just has room; one palette and an accent.  *)
(***************************************************************************)
EXTENDS UiModel, TLC

Agents(plain, grouped) ==
  [i \in 1 .. plain + grouped |-> [workflow |-> IF i <= plain THEN "" ELSE "wf"]]

Session(subagents, workflows, stale, live, unknown, cost, burn, cpu) ==
  [subagents |-> subagents, workflows |-> workflows,
   stale |-> stale, live |-> live, unknown |-> unknown,
   metric |-> [cost |-> cost, burn |-> burn, cpu |-> cpu]]

Busy == Session(Agents(3, 3), <<"wf">>, FALSE, TRUE, FALSE, 0, 1, 2)
Unbound == Session(<<>>, <<>>, FALSE, FALSE, TRUE, 1, 2, NoValue)
Ended == Session(Agents(1, 1), <<"wf">>, TRUE, FALSE, FALSE, 2, 0, NoValue)
Idle == Session(<<>>, <<>>, TRUE, TRUE, FALSE, NoValue, NoValue, 1)
Gone == Session(<<>>, <<>>, TRUE, FALSE, FALSE, 1, 0, NoValue)

Numbered(seq) == [i \in DOMAIN seq |-> [id |-> i] @@ seq[i]]

SmallSnapshots ==
  {Numbered(s) : s \in {<<>>, <<Unbound, Ended, Busy>>, <<Idle, Unbound, Busy>>,
                        <<Ended, Idle, Ended, Unbound>>, [i \in 1 .. 10 |-> Gone]}}

Accent == <<"#ff79c6", 7>>
Dark == <<<<"wattop-dark", 11>>>>

Terminals ==
  {<<28, 3>>, <<33, 19>>, <<43, 20>>, <<44, 21>>, <<80, 18>>,
   <<146, 24>>, <<220, 38>>}
=============================================================================
