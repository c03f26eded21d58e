CONSTANTS
    IntMax = 127
    Iss = 1
    Mss = 3
    MaxReceiveWindow = 7
    MaxSendBuffer = 4
    Rfc3390Bytes = 6
    InitialSsthresh = 7
    SynByte = 22
    FinByte = 23
    Client = Client
    Server = Server
    Payload <- OneByteEachWay
    SendLengths = {1}
    RecvLengths = {1}
    Closers = {}
    MaxTimeouts = 0
    MaxDuplicates = 2
SPECIFICATION Spec
CHECK_DEADLOCK FALSE
INVARIANT DeliveredIsPrefix
