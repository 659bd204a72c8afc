SPECIFICATION Spec
CONSTANTS
    Flows = {f1}
    MaxStarts = 2
    KillSwitchThreshold = 1
    MaxFailures = 2
    StreamFailureThreshold = 2
VIEW LiveState
INVARIANTS TypeOK EngineSupervised ReconnectOwned LinkChangeSweeps
CHECK_DEADLOCK FALSE
