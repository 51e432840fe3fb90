----------------------------- MODULE UsagePricing -----------------------------
(***************************************************************************)
(* What usage costs: the rates a table's entry has (internal/pricing/      *)
(* cost.go), the price of a ledger, and how the reducer prices a session   *)
(* with its children and sums up its workflows (internal/state/reduce.go). *)
(* The table is the same throughout; PricingBook is about its change.      *)
(*                                                                         *)
(* A price is a whole number.  Every kind of input token is one kind here: *)
(* each has a base key of its own, priced at the one tier, and the sum of  *)
(* their prices is what the kind stands for.                               *)
(***************************************************************************)
EXTENDS TokenUsage, FiniteSets, Functions

CONSTANTS Entries,    \* the table: the keys of each model it resolves, with the
                      \* threshold each is for in steps of K, 0 for a plain key
          NoCost      \* a cost that is not known

Bases == {"input", "output"}

ASSUME EntriesAssumption ==
  \A model \in DOMAIN Entries :
    /\ IsFiniteSet(Entries[model])
    /\ Entries[model] \subseteq [base : Bases, above : Nat, rate : Int]
ASSUME NoCostAssumption == NoCost \notin Int

Priced(model) == model \in DOMAIN Entries

\* Mutant: a prompt at the threshold is above it.
RateAtThreshold(entry, base, prompt) ==
  LET fits == {k \in entry : k.base = base /\ (k.above = 0 \/ prompt >= k.above * K)}
  IN IF fits = {} THEN 0 ELSE (CHOOSE k \in fits : \A j \in fits : j.above <= k.above).rate

\* parseRateCard and rateCard.rate: the highest tier the prompt is above, else
\* the plain rate, else nothing.
RateOf(entry, base, prompt) ==
  LET fits == {k \in entry : k.base = base /\ (k.above = 0 \/ prompt > k.above * K)}
  IN IF fits = {} THEN 0 ELSE (CHOOSE k \in fits : \A j \in fits : j.above <= k.above).rate

\* Cost, of a model that is priced.
CostOf(model, u, prompt) ==
  u.in * RateOf(Entries[model], "input", prompt) + u.out * RateOf(Entries[model], "output", prompt)

\* The buckets a source's ledger has; what is left empty is deleted.
Kept(ledger) == {b \in DOMAIN ledger : ledger[b] # Zero}

-----------------------------------------------------------------------------
\* CostLedger: each bucket at its own model and prompt size.
LedgerPrice(ledger) ==
  LET kept == Kept(ledger)
      priced == {b \in kept : Priced(b[1])}
      missing == {b[1] : b \in kept \ priced}
      cost == [b \in priced |-> CostOf(b[1], ledger[b], b[2] * K)]
  IN [usd |-> SumFunction(cost), missing |-> missing, ok |-> priced # {},
      partial |-> priced # {} /\ missing # {}]

\* Mutant: all the usage at the row's model and last prompt.
PriceAtLast(row) ==
  [usd |-> IF Priced(row.model) THEN CostOf(row.model, row.usage, row.used) ELSE 0,
   missing |-> {row.model} \ DOMAIN Entries, ok |-> Priced(row.model), partial |-> FALSE]

\* priceUsage: the ledger if the row has one, else all its usage at its model
\* and last prompt.
PriceUsage(row) ==
  IF Kept(row.ledger) # {} THEN LedgerPrice(row.ledger)
  ELSE [usd |-> IF Priced(row.model) THEN CostOf(row.model, row.usage, row.used) ELSE 0,
        missing |-> {row.model} \ DOMAIN Entries, ok |-> Priced(row.model), partial |-> FALSE]

\* A row with its price; childBilled: whether it counts if it has none.
PricedRow(row) ==
  LET price == PriceUsage(row)
  IN [usd |-> price.usd, missing |-> price.missing, ok |-> price.ok, partial |-> price.partial,
      billed |-> row.model # NoModel \/ row.usage # Zero]

\* Of some children: the sum of the prices known, and whether any misses part.
Known(kids) == {kid \in kids : kid.ok}
SumOf(kids) == SumFunction([kid \in Known(kids) |-> kid.usd])

\* Mutant: a child that cannot be priced goes unmentioned.
OmitsSilently(kids) == \E kid \in kids : kid.ok /\ kid.partial

Omits(kids) == \E kid \in kids : IF kid.ok THEN kid.partial ELSE kid.billed

\* priceSession: nothing if none of its own usage can be priced, else its own
\* and its children's; partial if anything is left out.
SessionPrice(own, kids) ==
  [cost |-> IF own.ok THEN own.usd + SumOf(kids) ELSE NoCost,
   partial |-> own.ok /\ (own.partial \/ Omits(kids)),
   unpriced |-> (UNION {row.missing : row \in {own} \cup kids}) \ {NoModel}]

\* summarizeWorkflows, of the children with one workflow's id.
WorkflowPrice(kids) ==
  [cost |-> IF Known(kids) = {} THEN NoCost ELSE SumOf(kids),
   partial |-> Known(kids) # {} /\ Omits(kids)]

=============================================================================
