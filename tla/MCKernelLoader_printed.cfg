SPECIFICATION Spec
CONSTANTS
    PageSize = 2
    AddrSpace = 32
    MaxLoad = 3
    HeaderTables <- MCUpperHalf
    NFrames = 18
    FwPml4 = 2
    FwFrames <- MCFwFrames
    FileFrames = 3
    Placements = {"lowest", "highest"}
    TableFails = FALSE
INVARIANT MappedAsPrinted
CHECK_DEADLOCK FALSE
