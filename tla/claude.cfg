SPECIFICATION Spec
CONSTANTS
  a = a
  kid1 = kid1
  kid2 = kid2
  kid3 = kid3
  kid4 = kid4
  kid5 = kid5
  kid6 = kid6
  opus = opus
  sonnet = sonnet
  Models = {opus, sonnet}
  NoModel = NoModel
  MaxPrompt = 3
  K = 2
  Span = 1
  Rows <- MCRows
  Entries <- MCEntries
  Families <- MCFamilies
  NoCost = NoCost
  Ages = {0, 2}
  Ladder <- MCLadder
  Override = 0
  MaxTools = 1
  Rescan = 2
  NoUse = NoUse
  NoId = NoId
  NoSplit = NoSplit
  NoTime = NoTime
  NoLimit = NoLimit
  NoSession = NoSession
  MaxNow = 3
  MaxRows = 3
  MaxRewrite = 1
INVARIANTS
  PricedAsBilled
  EachMessageOnce
  RateIsTheLastMinute
PROPERTIES
  FactsOutliveCompaction
  EveryRowOnce
  FoundInTime
