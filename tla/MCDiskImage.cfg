SPECIFICATION ImageSpec
CONSTANTS
    Scripts = {"release", "debug", "copy"}
    Loops = {l1, l2, l3}
    Parts = {"kernel"}
    MaxScripts = 2
    MaxStarts = 4
    MaxFailures = 2
SYMMETRY Symmetry
INVARIANT TrustedIsComplete
PROPERTIES DoneIsComplete WritesStayHome
CHECK_DEADLOCK FALSE
