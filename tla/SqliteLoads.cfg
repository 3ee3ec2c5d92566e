SPECIFICATION Spec
CONSTANTS
    Readers = {"r"}
    ReaderStore = "s1"
    WriterStore = "s2"
    Hashes = {"h1", "h2"}
    InitialHash = "h1"
    PlainRestores = TRUE
    MaxCells = 2
    MaxBranches = 2
    MaxTransitions = 1
    MaxRestores = 1
    MaxLoads = 1
INVARIANTS
    TypeOK
    LoadsAreSnapshots
    ConfigsAreThere
PROPERTIES
    OthersReturn
CHECK_DEADLOCK FALSE
