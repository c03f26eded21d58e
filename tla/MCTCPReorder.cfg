CONSTANTS
    IntMax = 127
    Iss = 1
    Mss = 3
    MaxReceiveWindow = 7
    MaxSendBuffer = 5
    Rfc3390Bytes = 6
    InitialSsthresh = 7
    SynByte = 22
    FinByte = 23
    Client = Client
    Server = Server
    Payload <- FiveBytesUp
    SendLengths = {1}
    RecvLengths = {}
    Closers = {}
    MaxTimeouts = 1
    MaxDuplicates = 0
SPECIFICATION Spec
CHECK_DEADLOCK FALSE
INVARIANT SegmentsCarryTheStream
INVARIANT FlightWithinCwnd
