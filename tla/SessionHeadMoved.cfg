SPECIFICATION Spec
CONSTANTS
    Handles = {"a"}
    Modes = {"persistent"}
    Kinds = {"plain"}
    Hashes = {"h1"}
    InitialHash = "h1"
    AppendFaults = {"HeadMoved"}
    TransitionOnFork = FALSE
    MaxCells = 2
    MaxBranches = 1
    MaxTransitions = 0
    MaxRestores = 0
    MaxFaults = 1
INVARIANTS FailedCellsInvisible
CHECK_DEADLOCK FALSE
