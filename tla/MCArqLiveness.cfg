CONSTANTS
    Streams = {s1}
    Control = c
    MaxPkt = 3
    MaxNetAcks = 1
    MinCwnd = 1
    StartupCwnd = 2
    MaxCwnd = 2
    SackWindow = 2
    RecvBufSize = 2
    MaxStreams = 1
    MaxRetransmits = 1
    MaxRetransmitBatch = 2
    MaxSackRetransmit = 1
    ReorderThreshold = 1
    DupAckThreshold = 2
    DelayedAckThreshold = 1
SPECIFICATION FairSpec
CHECK_DEADLOCK FALSE
PROPERTIES PacketResolved WindowReopens
