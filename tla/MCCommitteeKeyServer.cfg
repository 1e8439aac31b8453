CONSTANTS
  a = a
  b = b
  k1 = k1
  k2 = k2
  m1 = m1
  m2 = m2
  NoKey = NoKey
  Buffers = {}
  Users <- MCUsers
  KeyIds <- MCKeyIds
  Materials <- MCMaterials
  Counts <- MCCounts
  FirstMembers <- MCMembers
  FirstChairs <- MCChairs
SYMMETRY Symmetry
CONSTRAINT Bounded
SPECIFICATION ServerSpec
INVARIANTS
  ServerTypeOK
  OneLiveNewest
  WrapsWellFormed
PROPERTIES
  OnlyLateWrapsLost
CHECK_DEADLOCK FALSE
