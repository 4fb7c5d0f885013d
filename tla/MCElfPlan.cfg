SPECIFICATION PlanSpec
CONSTANTS
    PageSize = 2
    AddrSpace = 16
    MaxLoad = 2
    HeaderTables <- MCHeaderTables
INVARIANTS PlanTypeOK AcceptedDisjoint PlanComplete RejectionJustified
PROPERTY WellFormedAccepted
CHECK_DEADLOCK FALSE
