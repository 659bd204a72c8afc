SPECIFICATION FairSpec
CONSTANTS
    N = 2
    Dialers = {d1, d2}
PROPERTY FailoverReaches
CHECK_DEADLOCK FALSE
