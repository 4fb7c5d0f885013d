SPECIFICATION TreeSpec
CONSTANTS
    Root = "/"
    Directories <- MCDirectories
    Files <- MCFiles
    EntriesOf <- MCEntriesOf
INVARIANTS HandlesNest ListingInOrder OnlyErrorsHide
PROPERTIES TreeEnds
CHECK_DEADLOCK FALSE
