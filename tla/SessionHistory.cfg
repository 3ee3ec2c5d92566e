SPECIFICATION TreeSpec
CONSTANTS
    Handles = {"a"}
    Modes = {"persistent"}
    Kinds = {"fn"}
    Hashes = {"h1", "h2"}
    InitialHash = "h1"
    AppendFaults = {}
    TransitionOnFork = FALSE
    MaxCells = 3
    MaxBranches = 3
    MaxTransitions = 2
    MaxRestores = 2
    MaxFaults = 0
INVARIANTS TypeOK LinearHistory TreeShape LiveIsReplay IndexIsLineage ReplayReproduces
PROPERTIES PlanStable RefinesBranchTree
