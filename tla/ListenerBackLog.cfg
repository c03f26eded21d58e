SPECIFICATION FairSpec
CONSTANTS
    NumClients = 1
    BackLogCapacity = 1
    MaxAccepts = 1
    MaxResends = 0
PROPERTY AcceptEmptiesBackLog
CHECK_DEADLOCK FALSE
