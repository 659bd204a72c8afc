SPECIFICATION Spec
CONSTANTS
    Conns = {c1, c2}
    MaxStarts = 2
    KillSwitchThreshold = 1
    MaxHealthFailures = 2
    Api = Api
    NoProc = NoProc
CONSTRAINT Focus
SYMMETRY ConnSymmetry
INVARIANTS TypeOK KillSwitchHolds ReconnectOwned SupervisorAlive
CHECK_DEADLOCK FALSE
