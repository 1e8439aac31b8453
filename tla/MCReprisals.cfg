SPECIFICATION Spec
CONSTANTS
  Members = {m1, m2}
  Reports = {r1}
  Calls = {c1, c2}
  Ops = {o1, o2}
  MaxKey = 2
  MaxWrite = 3
  MaxRow = 2
  NoCall = NoCall
SYMMETRY Symmetry
INVARIANTS LastRowTellsStatus
PROPERTIES PriorIsReplaced
CHECK_DEADLOCK FALSE
