--------------------------- MODULE MCCodexRollout ---------------------------
(***************************************************************************)
(* An instance of CodexRollout: a spawned thread whose meta leaves its     *)
(* parent to the source, or a guardian; two models, requests on both sides *)
(* of a step of PromptK, one of which tells the context window and the     *)
(* limits, and two tool calls.                                             *)
(***************************************************************************)
EXTENDS CodexRollout

CONSTANTS m1, m2, root, child

MCMetas ==
  {[is |-> "meta", session |-> root, thread |-> child, parent |-> Absent,
    source |-> [is |-> "spawn", parent |-> root, role |-> "", depth |-> 1]],
   [is |-> "meta", session |-> root, thread |-> child, parent |-> root,
    source |-> [is |-> "guardian"]]}

MCRequests == {[use |-> Use(1, 1), window |-> 0, limits |-> Absent],
               [use |-> Use(3, 0), window |-> 7, limits |-> Scopes]}
=============================================================================
