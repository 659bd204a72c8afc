SPECIFICATION FairSpec
CONSTANTS
    Conns = {c1}
    MaxStarts = 1
    KillSwitchThreshold = 1
    MaxHealthFailures = 2
    Api = Api
    NoProc = NoProc
PROPERTIES KillSwitchReleases DeadTransportNoticed
CHECK_DEADLOCK FALSE
