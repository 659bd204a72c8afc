SPECIFICATION Spec
CONSTANTS
    Streams = {1, 2}
    Datagram = {2}
    MaxOpens = 2
    MaxFaults = 1
    MaxData = 2
    ChanCap = 1
CONSTRAINT Focus
INVARIANTS TypeOK OpenedMeansDialled ReaderReachable StreamExact StreamOwned
           WriteChOwned
CHECK_DEADLOCK FALSE
