SPECIFICATION StreamSpec
CONSTANTS
    Calls = {0, 1}
    Patches = {0}
    LateBlocks = FALSE
    MaxBlocks = 4
INVARIANTS StreamInv SameAsWhole
PROPERTIES WellFormed
CHECK_DEADLOCK FALSE
