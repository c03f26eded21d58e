CONSTANTS
    IntMax = 127
    Iss = 1
    Mss = 3
    MaxReceiveWindow = 6
    MaxSendBuffer = 3
    Rfc3390Bytes = 6
    InitialSsthresh = 5
    SynByte = 22
    FinByte = 23
    Client = Client
    Server = Server
    Payload <- FourBytesUp
    SendLengths = {4}
    RecvLengths = {2}
    Closers = {Client}
    MaxTimeouts = 1
    MaxDuplicates = 1
SPECIFICATION Spec
CHECK_DEADLOCK FALSE
INVARIANT TypeOK
INVARIANT DeliveredIsPrefix
INVARIANT FinAfterEverythingRead
INVARIANT AcknowledgedWasReceived
INVARIANT WindowAccountsForBuffers
INVARIANT OtherAssertionsHold
