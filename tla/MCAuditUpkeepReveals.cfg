SPECIFICATION Spec
CONSTANTS
  Concerns = {r1}
  NoTarget = NoTarget
  Passes = {p1}
  RowCap = 1
  MaxTime = 4
  MaxSweeps = 2
  MaxEvents = 2
PROPERTIES RevealsKept
CHECK_DEADLOCK FALSE
