----------------------------- MODULE ClaudeUsage -----------------------------
(***************************************************************************)
(* The accounting of one Claude transcript (agent/claude/usage.go): Claude *)
(* writes several rows for one message, each with what the message has     *)
(* used so far, so a row replaces what its message said before.            *)
(***************************************************************************)
EXTENDS TokenUsage

NoUsage == [usage  |-> Zero,
            seen   |-> [m \in {} |-> Zero],
            ledger |-> NoLedger,
            window |-> NoWindow]

\* What a message had so far: the zero value of a seenUsage if nothing.
Earlier(acc, id) ==
  IF id \in DOMAIN acc.seen THEN acc.seen[id] ELSE [usage |-> Zero, model |-> NoModel]

Noted(seen, id, u, model) ==
  [m \in DOMAIN seen \cup {id} |-> IF m = id THEN [usage |-> u, model |-> model] ELSE seen[m]]

\* Mutant: the old figure leaves the bucket of the new one.
RefiledInPlace(ledger, prev, u, model) == Filed(ledger, model, u.in, Minus(u, prev.usage))

\* The ledger with a message's old figure taken out of where it was filed and
\* the new one filed under its own model and prompt size.
Refiled(ledger, prev, u, model) ==
  Filed(Filed(ledger, prev.model, prev.usage.in, Minus(Zero, prev.usage)), model, u.in, u)

\* Mutant: every row of a message is added.
AddedAgain(acc, id, u, model, ts) ==
  [usage  |-> Plus(acc.usage, u),
   seen   |-> Noted(acc.seen, id, u, model),
   ledger |-> Filed(acc.ledger, model, u.in, u),
   window |-> Recorded(acc.window, ts, u)]

\* usageAccounting.add: a row replaces what its message said before.
Added(acc, id, u, model, ts) ==
  LET prev == Earlier(acc, id)
      d    == Minus(u, prev.usage)
  IN IF id \in DOMAIN acc.seen /\ d = Zero THEN acc
     ELSE [usage  |-> Plus(acc.usage, d),
           seen   |-> Noted(acc.seen, id, u, model),
           ledger |-> Refiled(acc.ledger, prev, u, model),
           window |-> Recorded(acc.window, ts, d)]
=============================================================================
