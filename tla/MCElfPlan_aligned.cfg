SPECIFICATION PlanSpec
CONSTANTS
    PageSize = 2
    AddrSpace = 16
    MaxLoad = 2
    HeaderTables <- MCHeaderTables
INVARIANT AcceptedAligned
CHECK_DEADLOCK FALSE
