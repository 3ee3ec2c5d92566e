SPECIFICATION Spec
CONSTANTS
    Calls = {1, 2, 3, 4, 5}
    MaxCell = 1
    Programs <- TwoChainPrograms
INVARIANTS
    OwnResults
CHECK_DEADLOCK FALSE
