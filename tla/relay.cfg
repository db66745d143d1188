SPECIFICATION FairSpec
CONSTANTS
  c1 = c1
  c2 = c2
  c3 = c3
  k1 = k1
  k2 = k2
  Conns = {c1, c2, c3}
  Rooms = {r1}
  Tokens = {k1, k2}
  Registrations <- Sorted
  Nobody = Nobody
  NoToken = NoToken
  MaxMessages = 1
CHECK_DEADLOCK FALSE
INVARIANTS
  RelayInv
  Routed
PROPERTIES
  DisplacedEnds
