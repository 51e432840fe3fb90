--------------------------- MODULE MCSamplingLoop ---------------------------
(***************************************************************************)
(* A model for TLC: two models and three tables, of which the second has   *)
(* one more price and the third is empty and old.                          *)
(***************************************************************************)
EXTENDS SamplingLoop

CONSTANTS opus, gpt, embedded, newer, empty

PricesOf ==
  [v \in Version |-> IF v = embedded THEN {opus} ELSE IF v = newer THEN {opus, gpt} ELSE {}]
=============================================================================
