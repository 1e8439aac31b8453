CONSTANTS
  k1 = k1
  k2 = k2
  k3 = k3
  b1 = b1
  b2 = b2
  b3 = b3
  b4 = b4
  NoKey = NoKey
  KeyIds <- MCKeyIds
  Buffers <- MCBuffers
  EpochOf <- MCEpochOf
  MaxWipes = 2
SYMMETRY BufferSymmetry
SPECIFICATION HolderSpec
INVARIANTS
  HolderTypeOK
  LiveDesignationAgrees
  BuffersAccounted
PROPERTIES
  RowHintIsAddOnly
  RotationRetainsReadKeys
CHECK_DEADLOCK FALSE
