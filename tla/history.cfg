SPECIFICATION Spec
CONSTANTS
  Ids = {c1, c2}
  MaxItems = 6
  MaxOdd = 1
SYMMETRY IdSymmetry
INVARIANTS  OutputsBelongToCalls ToldWhole
CHECK_DEADLOCK FALSE
