SPECIFICATION BootSpec
CONSTANTS
    Debug = TRUE
    Checks = {"magic", "class", "machine"}
INVARIANTS LeftBehind
PROPERTIES FreshKey BootReturns
CHECK_DEADLOCK FALSE
