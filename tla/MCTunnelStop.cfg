SPECIFICATION Spec
CONSTANTS
    Conns = {}
    MaxStarts = 2
    KillSwitchThreshold = 1
    MaxHealthFailures = 2
    Api = Api
    NoProc = NoProc
PROPERTY StopEndsReconnect
CHECK_DEADLOCK FALSE
