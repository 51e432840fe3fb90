---------------------------- MODULE MCSubagents ----------------------------
(***************************************************************************)
(* An instance of Subagents: a background child, a plain child that it     *)
(* spawned, and a workflow agent that the plain child is behind.           *)
(***************************************************************************)
EXTENDS Subagents

MCChild == 1 .. 3
MCKind == <<"background", "plain", "workflow">>
MCParent == <<0, 1, 2>>
=============================================================================
