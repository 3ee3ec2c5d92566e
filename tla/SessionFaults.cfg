SPECIFICATION TreeSpec
CONSTANTS
    Handles = {"a"}
    Modes = {"persistent", "replay_per_submit"}
    Kinds = {"plain", "fn", "throws", "badTS", "once", "sealLast"}
    Hashes = {"h1", "h2"}
    InitialHash = "h1"
    AppendFaults = {"CellChecked", "CellEvaluated", "CellCommitted", "CellFailed", "BranchCreated", "RestoreCompleted", "RuntimeTransitioned"}
    TransitionOnFork = FALSE
    MaxCells = 2
    MaxBranches = 3
    MaxTransitions = 1
    MaxRestores = 2
    MaxFaults = 1
INVARIANTS CursorIsDurable LiveIsReplay IndexIsLineage
PROPERTIES RefinesBranchTree
CHECK_DEADLOCK FALSE
