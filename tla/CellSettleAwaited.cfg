SPECIFICATION Spec
CONSTANTS
    e1 = e1
    e2 = e2
    Effects <- TwoEffects
    NumCells = 2
    StartAfterResult = FALSE
SYMMETRY EffectSymmetry
INVARIANTS TypeOK NoLostWakeup CompletedIsDurable FailedCodeIsGone SettledAtCommit ChargedToOwner
