----------------------------- MODULE BurnTracker -----------------------------
(***************************************************************************)
(* The burn tracker (internal/pricing/burn.go) as a data type: one burn    *)
(* key's entry and what Observe, span and RatePerHour make of it.  Times   *)
(* are positive integers and 0 is Go's zero time.Time, "not known".  Money *)
(* is a whole number of units, a rate is Scale times the units per tick,   *)
(* and both divisions round down, so that a bound from above on a rate of  *)
(* the model is one on the real rate up to rounding.                       *)
(***************************************************************************)
EXTENDS Integers

CONSTANTS Window,             \* the sliding window (60 s)
          Scale,              \* resolution of a rate
          AlphaNum, AlphaDen, \* the smoothing factor, 3/10 in the code
          NoEntry             \* a key byID has no entry for

ASSUME WindowAssumption == Window \in Nat
ASSUME ScaleAssumption == Scale \in Nat \ {0}
ASSUME AlphaAssumption == /\ AlphaNum \in Nat /\ AlphaDen \in Nat \ {0}
                          /\ AlphaNum <= AlphaDen

\* sessionBurn; an entry exists only once it is baselined.
Entry == [lastObs : Nat, lastEvent : Int, lastUSD : Nat,
          ewma : Nat, hasEWMA : BOOLEAN]

ASSUME NoEntryAssumption == NoEntry \notin Entry

Known(t) == t # 0

\* span's verdict: exactly one known event time leaves the span without a
\* lower bound, and usage older than the window is history.
Counts(e, at, eventAt) ==
  /\ Known(eventAt) <=> Known(e.lastEvent)
  /\ Known(eventAt) => at - eventAt <= Window

\* Mutant: the wall clock's span alone.
SpanByWallClock(e, at, eventAt) == at - e.lastObs

\* span's duration: the longer of the two clocks' spans, the wall clock's
\* where no event time is known.
Span(e, at, eventAt) ==
  LET wall == at - e.lastObs
      ev   == eventAt - e.lastEvent
  IN IF Known(eventAt) /\ ev > wall THEN ev ELSE wall

\* A rewound total is no negative burn.
Inst(delta, dt) == IF delta < 0 THEN 0 ELSE (delta * Scale) \div dt

\* The EWMA.
Smoothed(e, inst) ==
  IF e.hasEWMA THEN (AlphaNum * inst + (AlphaDen - AlphaNum) * e.ewma) \div AlphaDen
  ELSE inst

\* Whatever becomes of the delta, the next one starts from this observation.
Advanced(ewma, has, usd, at, eventAt) ==
  [lastObs |-> at, lastEvent |-> eventAt, lastUSD |-> usd,
   ewma |-> ewma, hasEWMA |-> has]

\* Mutant: the first sighting is spend, not a baseline.
ObserveFromZero(e, usd, at, eventAt) ==
  IF e = NoEntry THEN Advanced(Inst(usd, 1), TRUE, usd, at, eventAt)
  ELSE IF Counts(e, at, eventAt) /\ Span(e, at, eventAt) > 0
  THEN Advanced(Smoothed(e, Inst(usd - e.lastUSD, Span(e, at, eventAt))), TRUE,
                usd, at, eventAt)
  ELSE Advanced(e.ewma, e.hasEWMA, usd, at, eventAt)

\* Mutant: a discarded delta rides along with the next one.
ObserveRidesAlong(e, usd, at, eventAt) ==
  IF e = NoEntry THEN Advanced(0, FALSE, usd, at, eventAt)
  ELSE IF Counts(e, at, eventAt) /\ Span(e, at, eventAt) > 0
  THEN Advanced(Smoothed(e, Inst(usd - e.lastUSD, Span(e, at, eventAt))), TRUE,
                usd, at, eventAt)
  ELSE Advanced(e.ewma, e.hasEWMA, e.lastUSD, at, eventAt)

Observe(e, usd, at, eventAt) ==
  IF e = NoEntry THEN Advanced(0, FALSE, usd, at, eventAt)
  ELSE IF Counts(e, at, eventAt) /\ Span(e, at, eventAt) > 0
  THEN Advanced(Smoothed(e, Inst(usd - e.lastUSD, Span(e, at, eventAt))), TRUE,
                usd, at, eventAt)
  ELSE Advanced(e.ewma, e.hasEWMA, usd, at, eventAt)

\* Mutant: a quiet key keeps its last rate.
RatePerHourForever(e, at) == IF e = NoEntry THEN 0 ELSE e.ewma

RatePerHour(e, at) ==
  IF e = NoEntry THEN 0 ELSE IF at - e.lastObs > Window THEN 0 ELSE e.ewma
=============================================================================
