CONSTANTS
  u1 = u1
  u2 = u2
  u3 = u3
  t1 = t1
  t2 = t2
  NoUser = NoUser
  NoTx = NoTx
  Founder = u1
  Users <- MCUsers
  Txs <- MCTxs
  RoleSets <- MCRoleSets
SYMMETRY MCSymmetry
SPECIFICATION Spec
INVARIANTS
  TypeOK
  AlwaysACoChair
  MirrorAgrees
PROPERTIES
  SelfLossSeconded
  ReadmittedByReactivation
  RosterSpec
