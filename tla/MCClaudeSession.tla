--------------------------- MODULE MCClaudeSession ---------------------------
(***************************************************************************)
(* An instance of ClaudeSession under a price table: a message that grows  *)
(* into a higher price tier and changes its model, is revised down and     *)
(* repeated; messages that have no id and no model of their own; a tool    *)
(* call and its answer; limits with and without an end, and a quota that   *)
(* is none.  The table has sonnet, with a tier above one step of K, and    *)
(* not opus; the children have requests in both tiers, one unpriced of     *)
(* several or of one, one from before a model was known, or none yet, with *)
(* a model or without.                                                     *)
(***************************************************************************)
EXTENDS PricedSession

CONSTANTS a, opus, sonnet, kid1, kid2, kid3, kid4, kid5, kid6

Line(id, model, use, content, quota) ==
  [id |-> id, model |-> model, use |-> use, content |-> content, quota |-> quota, ts |-> NoTime]
Spent(in, write, split, out) == [in |-> in, write |-> write, split |-> split, out |-> out]
Quota(scope, resets) == [scope |-> scope, resets |-> resets]

MCRows ==
  {Line(a, opus, Spent(1, 1, NoSplit, 0), <<>>, Quota("seven_day", 1)),
   Line(a, sonnet, Spent(1, 0, 2, 1), <<[is |-> "tool_use", name |-> "Read"]>>,
        Quota("five_hour", 1)),
   Line(NoId, NoModel, Spent(2, 0, NoSplit, 1), <<[is |-> "tool_result", id |-> "call"]>>,
        Quota("five_hour", NoTime))}
MCLadder == <<2, 4>>

MCEntries ==
  [m \in {sonnet} |->
     {[base |-> "input", above |-> 0, rate |-> 1], [base |-> "input", above |-> 1, rate |-> 3],
      [base |-> "output", above |-> 0, rate |-> 5]}]

Kid(id, workflow, model, requests) ==
  [id |-> id, workflow |-> workflow, model |-> model, requests |-> requests]
Ask(model, use) == [model |-> model, use |-> use]

MCFamilies ==
  LET tiers == Kid(kid1, "wf", sonnet, {Ask(sonnet, Use(2, 1)), Ask(sonnet, Use(3, 0))})
      mixed == Kid(kid2, "", opus, {Ask(sonnet, Use(1, 0)), Ask(opus, Use(1, 1))})
      newborn == Kid(kid3, "wf", NoModel, {})
      early == Kid(kid4, "wf2", NoModel, {Ask(NoModel, Use(1, 0))})
      dear == Kid(kid5, "wf", opus, {Ask(opus, Use(1, 0))})
      named == Kid(kid6, "wf2", opus, {})
  IN {{tiers, newborn}, {tiers, mixed, dear, early}, {tiers, named}}
=============================================================================
