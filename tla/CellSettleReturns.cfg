SPECIFICATION FairSpec
CONSTANTS
    e1 = e1
    e2 = e2
    Effects <- OneEffect
    NumCells = 2
    StartAfterResult = TRUE
PROPERTIES CellIsDecided SubmitReturns
