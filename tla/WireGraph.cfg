SPECIFICATION Spec
CONSTANTS
    NumKeys = 2
    Heaps <- SmallHeaps
    PatchHeaps <- SmallPatchHeaps
    Sources <- SmallSources
    Paths <- SmallPaths
    MaxID = 5
    MaxPatches = 2
INVARIANTS NothingRefused GraphIsImage RoundTrip TypedIffTree
CHECK_DEADLOCK FALSE
