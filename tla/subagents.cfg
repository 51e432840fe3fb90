SPECIFICATION Spec
CONSTANTS
  Child <- MCChild
  Kind <- MCKind
  Parent <- MCParent
  NoWorkflow = 0
  Quiet = 0
  Unknown = Unknown
  MaxNow = 2
  MaxEvents = 5
INVARIANTS
  SilenceIsNoEnd
  UnfinishedShows
PROPERTIES
  PollTellsAll
  EndStays
