SPECIFICATION DebugSpec
CONSTANTS
    Debug = TRUE
    Checks = {"magic"}
    FirmwareOutput <- MCFirmwareOutput
INVARIANT SymbolsFirst
PROPERTIES HandshakeSettles
CHECK_DEADLOCK FALSE
