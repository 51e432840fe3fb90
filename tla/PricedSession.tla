----------------------------- MODULE PricedSession -----------------------------
(***************************************************************************)
(* A Claude session with the price the reducer gives it: ClaudeSession's   *)
(* accounting under UsagePricing, with children that have requests of      *)
(* their own.                                                              *)
(***************************************************************************)
EXTENDS ClaudeSession, UsagePricing

CONSTANTS Families   \* sets of children: [id, workflow, model, requests], a
                     \* request being [model, use]

Request == [model : Models \cup {NoModel}, use : [in : 0 .. MaxPrompt, out : Nat]]

ASSUME FamiliesAssumption ==
  \A family \in Families :
    /\ IsFiniteSet(family) /\ \A kid, other \in family : kid.id = other.id => kid = other
    /\ \A kid \in family : /\ kid.model \in Models \cup {NoModel}
                           /\ IsFiniteSet(kid.requests) /\ kid.requests \subseteq Request

-----------------------------------------------------------------------------
\* The domain rows the reducer is given.
OwnRow == [model |-> agg.model, usage |-> agg.acc.usage, used |-> agg.prompt,
           ledger |-> agg.acc.ledger]

KidRow(kid) ==
  LET filed(q, ledger) == Filed(ledger, q.model, q.use.in, q.use)
  IN [model |-> kid.model, used |-> 0,
      usage |-> Total([q \in kid.requests |-> q.use], kid.requests),
      ledger |-> FoldSet(filed, NoLedger, kid.requests)]

KidPrice ==
  [kid \in UNION Families |->
     LET price == PricedRow(KidRow(kid))
     IN [id |-> kid.id, usd |-> price.usd, missing |-> price.missing, ok |-> price.ok,
         partial |-> price.partial, billed |-> price.billed]]

\* What the book is asked for: the requests that used anything or, if there are
\* none, nothing of the row's model.
Asked(model, requests) ==
  LET used == {q \in requests : q.use # Zero}
  IN IF used = {} THEN {[model |-> model, use |-> Zero]} ELSE used

\* For the session: each message with what its last row says.
Requests ==
  LET last == [m \in Told |-> Deciding(m)]
  IN Asked(agg.model, {[model |-> ModelAt(last[m]), use |-> heard[last[m]].use, by |-> m] :
                         m \in DOMAIN last})

\* For the children; one that has neither usage nor a model is not asked for.
KidRequests(kids) ==
  LET asked(kid) == {q \in Asked(kid.model, kid.requests) : q.use # Zero \/ q.model # NoModel}
  IN UNION {{[model |-> q.model, use |-> q.use, by |-> kid.id] : q \in asked(kid)} : kid \in kids}

CostOfAll(requests) ==
  LET priced == {q \in requests : Priced(q.model)}
  IN SumFunction([q \in priced |-> CostOf(q.model, q.use, q.use.in)])

AllPriced(requests) == \A q \in requests : Priced(q.model)

\* However a session's messages were revised, changed model or moved over a
\* price tier, it costs what each request of it and of its children costs at
\* its own model and exact prompt, once its transcript is read; it is marked
\* partial exactly when a request is left out of that, and so is a workflow;
\* and workflows and other children add up to it (cost.go:149-160,
\* reduce.go:420-445, domain/types.go:119-125).
PricedAsBilled ==
  AllRead =>
    LET asked == Requests
        own == PricedRow(OwnRow)
        prices(S) == {KidPrice[kid] : kid \in S}
    IN \A family \in Families :
        LET price == SessionPrice(own, prices(family))
            askedByKids == KidRequests(family)
            all == asked \cup askedByKids
            flow(w) == {kid \in family : kid.workflow = w}
            part(w) == WorkflowPrice(prices(flow(w)))
            flows == {kid.workflow : kid \in family}
            cost == [w \in flows |-> IF part(w).cost = NoCost THEN 0 ELSE part(w).cost]
        IN /\ price.cost = NoCost <=> \A q \in asked : ~Priced(q.model)
           /\ price.cost # NoCost =>
                /\ price.cost = CostOfAll(asked) + CostOfAll(askedByKids)
                /\ price.partial <=> ~AllPriced(all)
                /\ price.cost = own.usd + SumFunction(cost)
           /\ \A w \in flows : part(w).cost # NoCost =>
                (part(w).partial <=> ~AllPriced(KidRequests(flow(w))))
           /\ price.unpriced = {q.model : q \in all} \ (DOMAIN Entries \cup {NoModel})

=============================================================================
