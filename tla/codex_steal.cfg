SPECIFICATION Spec
CONSTANTS
  Dir = {d1}
  Pid = {1, 2}
  Daemons = {}
  MaxRollout = 3
  MaxTime = 4
  Lookback = 1
  ShortlistWindow = 2
  MayReuse = FALSE
  MayFail = {}
  None = None
PROPERTY
  KeptWhileRunning
