SPECIFICATION Spec
CONSTANTS
    Calls = {1, 2, 3, 4}
    MaxCell = 2
    Programs <- AllPrograms
INVARIANTS
    StagedReplay
    EffectsConsumed
    OwnCell
PROPERTIES
    ReplayEnds
CHECK_DEADLOCK FALSE
