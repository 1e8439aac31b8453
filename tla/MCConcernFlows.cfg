CONSTANTS
  Me = Me
  other = other
  p1 = p1
  p2 = p2
  k1 = k1
  k2 = k2
  k3 = k3
  NoKey = NoKey
  ZeroKey = ZeroKey
  FirstKey = k1
  FirstMaterial = k1
  Materials <- MCMaterials
  Buffers <- MCBuffers
  Counts = {1}
  Users <- MCUsers
  FirstMembers <- MCUsers
  FirstChairs <- Other
  KeyIds <- ThreeKeys
  Ops <- MCOps
  Plans <- AllPlans
SPECIFICATION FairSpec
INVARIANTS
  HeldSinceLastWipe
  OneDisclosurePerOp
  FreshSeal
  ReadableRowsOpen
PROPERTIES
  OperationsEnd
CHECK_DEADLOCK FALSE
