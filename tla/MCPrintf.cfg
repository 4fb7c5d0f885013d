SPECIFICATION PrintfSpec
CONSTANTS
    Chars <- MCChars
    BufLen = 8
    Half <- MCHalf
    Jobs <- MCJobs
    Items <- MCItems
INVARIANTS TextInOrder NumbersReadBack PrintfInBounds
CHECK_DEADLOCK FALSE
