SPECIFICATION Spec
CONSTANTS
  QueueCap = 3
  MaxSeq = 4
  MaxCalls = 2
  MaxThrows = 1
INVARIANTS LossesAreAudited OneVerdict
CHECK_DEADLOCK FALSE
