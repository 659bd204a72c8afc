SPECIFICATION FairSpec
CONSTANTS
    N = 3
    Dialers = {d1}
INVARIANTS TypeOK InvalidKeyIsUnanimous EveryServerTried NeverRevoked
PROPERTY FailoverReaches
CHECK_DEADLOCK FALSE
