CONSTANTS
    IntMax = 127
    Iss = 1
    Mss = 3
    MaxReceiveWindow = 7
    MaxSendBuffer = 9
    Rfc3390Bytes = 6
    InitialSsthresh = 7
    SynByte = 22
    FinByte = 23
    Client = Client
    Server = Server
    Payload <- NineBytesUp
    SendLengths = {9}
    RecvLengths = {9}
    Closers = {}
    MaxTimeouts = 1
    MaxDuplicates = 0
SPECIFICATION Spec
CHECK_DEADLOCK FALSE
INVARIANT DataFitsTheWindow
