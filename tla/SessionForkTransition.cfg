SPECIFICATION Spec
CONSTANTS
    Handles = {"a"}
    Modes = {"persistent"}
    Kinds = {"plain"}
    Hashes = {"h1", "h2"}
    InitialHash = "h1"
    AppendFaults = {}
    TransitionOnFork = TRUE
    MaxCells = 1
    MaxBranches = 2
    MaxTransitions = 1
    MaxRestores = 1
    MaxFaults = 0
INVARIANTS TransitionsAreDurable
CHECK_DEADLOCK FALSE
