SPECIFICATION FairSpec
CONSTANTS
    Mains = {1, 2}
    Helpers = {3}
    Nobody = Nobody
    MaxCodex = 2
    MaxTrouble = 1
INVARIANTS LauncherInv ServedUnlessAsked
PROPERTIES EndsItsCodex LaunchersEnd AskedYields
CHECK_DEADLOCK FALSE
