CONSTANTS
  Pid = {1}
  MaxUse = 3
  MaxNow = 2
  Numer = 125
  Denom = 3
  None = None
SPECIFICATION ScanSpec
PROPERTIES
  ShareIsTrue
