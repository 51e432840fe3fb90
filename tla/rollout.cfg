SPECIFICATION Spec
CONSTANTS
  m1 = m1
  m2 = m2
  root = root
  child = child
  Metas <- MCMetas
  Absent = Absent
  StartWindow = 5
  Models = {m1, m2}
  NoModel = NoModel
  MaxPrompt = 12
  K = 2
  Span = 2
  Requests <- MCRequests
  Tools = {"t1", "t2"}
  MaxRows = 4
  MaxRotate = 1
CHECK_DEADLOCK FALSE
INVARIANTS
  LedgerSumsToUsage
  CountedOnce
  ShowsLatestTurn
