SPECIFICATION Spec
CONSTANTS
  Initial = Initial
  Targets = {Initial, t1}
  Edits = {e1}
  Tokens = {k1, k2}
  None = None
  EditsWhileBusy = FALSE
SYMMETRY Symmetry
INVARIANTS
  SwitchInv
PROPERTIES
  Undoable
