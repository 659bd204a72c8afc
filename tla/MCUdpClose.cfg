SPECIFICATION Spec
CONSTANTS
    Streams = {1}
    Datagram = {1}
    MaxOpens = 1
    MaxFaults = 1
    MaxData = 1
    ChanCap = 1
INVARIANT NoOrphanReader
CHECK_DEADLOCK FALSE
