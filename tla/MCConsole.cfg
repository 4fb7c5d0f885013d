SPECIFICATION Spec
CONSTANTS
    BufRows = 3
    BufCols = 2
    FontWidth = 2
    FontHeight = 2
    Scale = 2
    Font <- MCFont
    Modes <- MCModes
    Chars = {10, 13, 65, 233}
INVARIANTS TypeOK ScreenShowsBuffer OverrunExplained
PROPERTIES ImplementsTeletype NoLineLost MarginsKept
CHECK_DEADLOCK FALSE
