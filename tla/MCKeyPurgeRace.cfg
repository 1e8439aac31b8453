CONSTANTS
  a = a
  b = b
  c = c
  p1 = p1
  p2 = p2
  k1 = k1
  k2 = k2
  k3 = k3
  NoKey = NoKey
  NoUser = NoUser
  ZeroKey = ZeroKey
  FirstMaterial = FirstMaterial
  FirstKey = k1
  Materials <- MCMaterials
  Buffers <- MCBuffers
  Counts = {1, 2, 3}
  Users <- ABC
  FirstMembers <- ABC
  FirstChairs <- AB
  KeyIds <- TwoKeys
  Ops <- MCOps
  Plans <- PurgeRacePlans
SPECIFICATION Spec
INVARIANTS
  PurgedHoldsNothing
CHECK_DEADLOCK FALSE
