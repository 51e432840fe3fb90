SPECIFICATION Spec
CONSTANTS
  Dir = {d1}
  Pid = {1, 2}
  Daemons = {2}
  MaxRollout = 3
  MaxTime = 2
  Lookback = 0
  ShortlistWindow = 1
  MayReuse = TRUE
  MayFail = {"scan", "read"}
  None = None
INVARIANTS
  OneSessionPerProcess
  NoChildLost
PROPERTIES
  BoundNeverFalls
  FoundWithinWindow
