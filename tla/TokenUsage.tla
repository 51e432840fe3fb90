------------------------------ MODULE TokenUsage ------------------------------
(***************************************************************************)
(* Token usage as data (internal/domain/types.go and agent/tokenrate/      *)
(* window.go), shared by both agents' sources.  A usage is what the prompt *)
(* took, cache reads and writes included, and what came out; a ledger      *)
(* files it by the request's own model and prompt size; a window keeps the *)
(* last minute of it.  A time is a whole second and 0 is Go's zero         *)
(* time.Time, "not known".                                                 *)
(***************************************************************************)
EXTENDS Integers, FiniteSets, Folds

CONSTANTS Models,     \* the real models
          NoModel,    \* no model named, or the one of a <synthetic> record
          MaxPrompt,  \* bound: the largest prompt
          K,          \* tokens per step of PromptK, 1000 in the code
          Span        \* the seconds of a rate window, 60 in the code

ASSUME KAssumption == K \in Nat \ {0}
ASSUME SpanAssumption == Span \in Nat \ {0}
ASSUME ModelsAssumption == IsFiniteSet(Models)
ASSUME NoModelAssumption == NoModel \notin Models
ASSUME MaxPromptAssumption == MaxPrompt \in Nat

Use(in, out) == [in |-> in, out |-> out]
Zero == Use(0, 0)
Plus(a, b) == Use(a.in + b.in, a.out + b.out)
Minus(a, b) == Use(a.in - b.in, a.out - b.out)

\* The sum of f[x] over a finite set.
Total(f, S) == MapThenFoldSet(Plus, Zero, LAMBDA x : f[x], LAMBDA T : CHOOSE x \in T : TRUE, S)

\* ceil(n / K), 0 for no prompt.
PromptK(n) == IF n <= 0 THEN 0 ELSE (n + K - 1) \div K

Bucket == (Models \cup {NoModel}) \X (0 .. PromptK(MaxPrompt))

NoLedger == [b \in Bucket |-> Zero]

\* UsageLedger.Add and fileLedger: a bucket left empty is as good as none.
Filed(ledger, model, prompt, u) ==
  [ledger EXCEPT ![<<model, PromptK(prompt)>>] = Plus(@, u)]

-----------------------------------------------------------------------------
\* tokenrate.Window: usage by the second it was reported in.
NoWindow == [known |-> FALSE, latest |-> 0, at |-> [s \in {} |-> Zero]]

\* Mutant: nothing is ever evicted.
RecordedForever(w, ts, d) ==
  IF ts = 0 THEN w
  ELSE [known |-> TRUE, latest |-> IF ts > w.latest THEN ts ELSE w.latest,
        at |-> [s \in DOMAIN w.at \cup {ts} |->
                  Plus(IF s \in DOMAIN w.at THEN w.at[s] ELSE Zero,
                       IF s = ts THEN d ELSE Zero)]]

\* Window.Add
Recorded(w, ts, d) ==
  LET latest == IF ~w.known \/ ts > w.latest THEN ts ELSE w.latest
      kept   == {s \in DOMAIN w.at \cup {ts} : s >= latest - Span}
  IN IF ts = 0 THEN w
     ELSE [known |-> TRUE, latest |-> latest,
           at |-> [s \in kept |-> Plus(IF s \in DOMAIN w.at THEN w.at[s] ELSE Zero,
                                       IF s = ts THEN d ELSE Zero)]]

NonNegative(u) == Use(IF u.in < 0 THEN 0 ELSE u.in, IF u.out < 0 THEN 0 ELSE u.out)

\* Mutant: one second too many.
RateWithEdge(w, now) ==
  NonNegative(Total(w.at, {s \in DOMAIN w.at : s >= now - Span /\ s <= now}))

\* Window.Rate, times Span; a window that knows nothing has no rate, here 0.
Rate(w, now) ==
  NonNegative(Total(w.at, {s \in DOMAIN w.at : s > now - Span /\ s <= now}))
=============================================================================
