SPECIFICATION Spec
SYMMETRY Symmetry
CONSTANTS
  relayA = relayA
  relayB = relayB
  relayC = relayC
  c1 = c1
  Requests = {r1, r2}
  Aggregates <- Mixed
  Plain = Plain
  Conversations = {c1}
  MaxTurns = 1
  None = None
  MaxPicks = 4
INVARIANT RotationInv
INVARIANT EveryMemberTried
INVARIANT KeysStick
