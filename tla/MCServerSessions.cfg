SPECIFICATION FairSpec
CONSTANTS
    MaxSockets = 1
    MaxTokens = 2
    Conns = {c1}
    MaxDups = 1
    MaxRestarts = 1
INVARIANTS TypeOK TrackerExact CloseIsTruthful
PROPERTIES OrphanTransportCloses OrphanSessionRemoved
CHECK_DEADLOCK FALSE
