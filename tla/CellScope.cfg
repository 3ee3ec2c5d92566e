SPECIFICATION Spec
CONSTANTS
    Names = {"x", "y"}
    Cells <- EveryCell
    MaxCells = 3
    MaxFails = 2
INVARIANTS TypeOK OneBinding ScopeIsReplayed BoundIsCommitted ValuesKept
CHECK_DEADLOCK FALSE
