CONSTANTS
  Day = 3
  Year = 6
  Window = 3
  Rewalk = 2
  Rollout = {r1, r2}
  MaxNow = 8
  MaxFault = 1
  MaxTree = 2
  Never = Never
SPECIFICATION IndexSpec
PROPERTIES
  FoundWithinRewalk
  NewAtOnce
SYMMETRY AnyRollout
CHECK_DEADLOCK FALSE
