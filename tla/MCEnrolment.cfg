SPECIFICATION Spec
CONSTANTS
  Invites = {i1}
  Flows = {f1, f2}
  Calls = {c1}
  Ops = {o1}
  MaxCode = 3
  NoTx = NoTx
  NoInvite = NoInvite
INVARIANTS OneWayIn AnswersAreTrue EnrolmentNeverDeadlocks
PROPERTIES NewestCodeRedeems
CHECK_DEADLOCK FALSE
