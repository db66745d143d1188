SPECIFICATION Spec
CONSTANTS
  d1 = d1
  d2 = d2
  Dbs <- TwoDbs
  Threads = {d1, d2}
  MaxBackups = 2
  MaxAppends = 1
  WhileBusy = {{"row"}, {"file", "line"}}
INVARIANT UndoInv
PROPERTIES
  NothingLost
  UndoExact
  UndoSpares
