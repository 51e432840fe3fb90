SPECIFICATION FairSpec
CONSTANTS
  claude = claude
  codex = codex
  Agent = {claude, codex}
  Id = {i1}
  Kid = {c1}
  Cost = {0, 1, 2}
  SessionTTL = 2
  SeedWindow = 1
  Steps = {1, 2, 3}
  Reports <- AllReports
  NoRow = NoRow
  Omitted = Omitted
  Unpriced = Unpriced
  NoKid = NoKid
  Own = Own
INVARIANTS
  TablesOwned
  DeltasStartAtShown
PROPERTIES
  NoDropAroundOutage
  StaleBeforeDrop
  StatusHasACause
  KeepsRows
  VanishedRowsGo
