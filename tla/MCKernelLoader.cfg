SPECIFICATION Spec
CONSTANTS
    PageSize = 2
    AddrSpace = 32
    MaxLoad = 3
    HeaderTables <- MCHeaderTables
    NFrames = 18
    FwPml4 = 2
    FwFrames <- MCFwFrames
    FileFrames = 3
    Placements = {"lowest", "highest"}
    TableFails = TRUE
INVARIANTS ClaimsHold FramesExclusive KernelImage FaultExplained
PROPERTIES ImplementsAddressSpace WritesConfined TopDownSafe
CHECK_DEADLOCK FALSE
