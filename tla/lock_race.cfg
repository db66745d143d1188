SPECIFICATION FairSpec
CONSTANTS
  Current = {p1}
  Legacy = {l1, l2}
  Ids = {i1, i2}
  Nobody = Nobody
  NoId = NoId
  MaxBirth = 1
  LegacyWhileLooking = TRUE
PROPERTIES
  OnlyOwnOrOrphanLeaves
