----------------------------- MODULE PricingBook -----------------------------
(***************************************************************************)
(* The pricing book (internal/pricing: table.go, resolve.go, refresh.go,   *)
(* cost.go): one table of model prices under a lock, the rate cards parsed *)
(* from it and cached, and the refresh that replaces the table once, from  *)
(* the cache file or from the network, while others resolve models.        *)
(*                                                                         *)
(* A table is a version; which models it prices is Prices.  A card is the  *)
(* version it was parsed from.  Resolve holds the read lock from its       *)
(* lookup to the store of the card, in two steps here; a refresh swaps     *)
(* the table under the write lock.                                         *)
(***************************************************************************)
CONSTANTS Model, Reader,
          Version,     \* the tables: the embedded one and any other
          Embedded,
          Prices,      \* the models each version has a price for
          Unread,      \* a cache file that is missing, too old or no table
          NoCard,      \* a model whose card is not cached
          Idle         \* a reader that holds no lock, a refresh without a table

\* fetchSnapshotFrom: what comes of a fetch, a table only where the answer is
\* complete, not too long, and one.
Failure == {"no answer", "bad status", "cut off", "too long", "no table"}
Fetched == Version \cup Failure

ASSUME PricesAssumption == Prices \in [Version -> SUBSET Model]
ASSUME EmbeddedAssumption == Embedded \in Version
ASSUME NoBookAssumption ==
  /\ {Unread, NoCard, Idle} \cap Version = {} /\ Failure \cap Version = {}
  /\ Idle \notin [model : Model, table : Version]

VARIABLES table,    \* Book.snap
          cards,    \* Book.cards: the version each cached card was parsed from
          reading,  \* of each reader, the model and the table it has looked up
          refresh,  \* where the refresh is
          loaded,   \* the table it is about to put in place
          cache     \* the cache file: a version that is read and fresh, or Unread

book == <<table, cards, reading, refresh, loaded, cache>>

Lookup == [model : Model, table : Version]

BookInit ==
  /\ table = Embedded /\ cards = [m \in Model |-> NoCard]
  /\ reading = [r \in Reader |-> Idle]
  /\ refresh = "stat" /\ loaded = Idle
  /\ cache \in Version \cup {Unread}

-----------------------------------------------------------------------------
\* Resolve, up to the rate card: the read lock is taken.  A model without a
\* price is left without a card.
Look(r, m) ==
  /\ reading[r] = Idle
  /\ reading' = [reading EXCEPT ![r] =
                   IF m \in Prices[table] THEN [model |-> m, table |-> table] ELSE Idle]
  /\ UNCHANGED <<table, cards, refresh, loaded, cache>>

\* rates: the cached card, or the one just parsed; the lock is given back.
Card(r) ==
  /\ reading[r] # Idle
  /\ cards' = [cards EXCEPT ![reading[r].model] =
                 IF @ = NoCard THEN reading[r].table ELSE @]
  /\ reading' = [reading EXCEPT ![r] = Idle]
  /\ UNCHANGED <<table, refresh, loaded, cache>>

\* refresh: a cache file younger than refreshTTL that can be parsed will do.
ReadCache ==
  /\ refresh = "stat"
  /\ IF cache # Unread THEN refresh' = "swap" /\ loaded' = cache
     ELSE refresh' = "fetch" /\ loaded' = loaded
  /\ UNCHANGED <<table, cards, reading, cache>>

\* A failed fetch leaves the table as it is; the cache may not be writable.
Fetch ==
  /\ refresh = "fetch"
  /\ \E answer \in Fetched :
       IF answer \in Failure
       THEN refresh' = "done" /\ UNCHANGED <<loaded, cache>>
       ELSE refresh' = "swap" /\ loaded' = answer /\ cache' \in {cache, answer}
  /\ UNCHANGED <<table, cards, reading>>

\* Mutant: without the lock.
SwapUnlocked ==
  /\ refresh = "swap" /\ refresh' = "done"
  /\ table' = loaded /\ cards' = [m \in Model |-> NoCard]
  /\ UNCHANGED <<reading, loaded, cache>>

\* swap: the write lock waits for the readers.
Swap ==
  /\ refresh = "swap" /\ refresh' = "done"
  /\ \A r \in Reader : reading[r] = Idle
  /\ table' = loaded /\ cards' = [m \in Model |-> NoCard]
  /\ UNCHANGED <<reading, loaded, cache>>

Refresh == ReadCache \/ Fetch \/ Swap

-----------------------------------------------------------------------------
BookTypeOK ==
  /\ table \in Version /\ cache \in Version \cup {Unread}
  /\ cards \in [Model -> Version \cup {NoCard}]
  /\ reading \in [Reader -> Lookup \cup {Idle}]
  /\ refresh \in {"stat", "fetch", "swap", "done"}
  /\ refresh = "swap" => loaded \in Version

\* No card outlives the table it was parsed from, and none is looked up in a
\* table that is replaced before the card is stored: every price is the
\* current table's (resolve.go:70-73).
CardOfTable ==
  /\ \A m \in Model : cards[m] # NoCard => cards[m] = table /\ m \in Prices[table]
  /\ \A r \in Reader : reading[r] # Idle => reading[r].table = table
=============================================================================
