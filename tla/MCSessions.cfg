SPECIFICATION Spec
CONSTANTS
  Tabs = {t1, t2}
  MaxSignIns = 2
  MaxInbox = 2
  MaxCalls = 2
INVARIANTS AuditAddsUp
PROPERTIES LateCallsChangeNothing RefusedLeavesTabs
CHECK_DEADLOCK FALSE
