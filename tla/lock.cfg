SPECIFICATION FairRestartSpec
CONSTANTS
  Current = {p1}
  Legacy = {l1, l2}
  Launchers = {p1, l1}
  Ids = {i1, i2}
  Nobody = Nobody
  NoId = NoId
  MaxBirth = 1
  LegacyWhileLooking = FALSE
INVARIANTS
  LockInv
  HolderOwnsDir
PROPERTIES
  Exclusive
  OnlyOwnOrOrphanLeaves
  PollNeverMissesSync
  OrphanRecovered
