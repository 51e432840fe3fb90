CONSTANTS
  opus = opus
  gpt = gpt
  embedded = embedded
  newer = newer
  empty = empty
  Model = {opus, gpt}
  Reader = {ui}
  Ui = ui
  Version = {embedded, newer, empty}
  Embedded = embedded
  Prices <- PricesOf
  Old = {empty}
  Unread = Unread
  NoCard = NoCard
  Idle = Idle
  Interval = 2
  Backoff = 3
SPECIFICATION LoopSpec
INVARIANTS
  CardOfTable
PROPERTIES
  NeverHammered
  ComesBack
