SPECIFICATION Spec
CONSTANTS
    Readers = {"r"}
    ReaderStore = "s1"
    WriterStore = "s1"
    Hashes = {"h1", "h2"}
    InitialHash = "h1"
    PlainRestores = TRUE
    MaxCells = 1
    MaxBranches = 1
    MaxTransitions = 0
    MaxRestores = 1
    MaxLoads = 1
PROPERTIES
    LoadsReturn
CHECK_DEADLOCK FALSE
