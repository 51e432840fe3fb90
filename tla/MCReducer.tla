------------------------------ MODULE MCReducer ------------------------------
(***************************************************************************)
(* Instances of Reducer for TLC: the sessions a source can report.         *)
(***************************************************************************)
EXTENDS Reducer

CONSTANTS claude, codex   \* the two agents

Plain(st, u) == [status |-> st, cost |-> u, kids |-> [c \in Kid |-> NoKid]]

\* Sessions without subagents, stale at the source or not, at two costs.
RowReports == {Plain("live", 1), Plain("stale", 1), Plain("live", 2)}

\* Sessions whose subagents have cost nothing yet or something, or went back,
\* and started at any time.
KidReports ==
  {[Plain("live", 1) EXCEPT !.kids = [c \in Kid |-> r]] :
     r \in [cost : {0, 1}, started : StartAge]}

AllReports ==
  [a \in Agent |-> IF a = claude THEN RowReports \cup KidReports
                   ELSE {Plain("live", 1), Plain("stale", 1)}]
=============================================================================
