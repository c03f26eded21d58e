SPECIFICATION Spec
CONSTANTS
    NumClients = 3
    BackLogCapacity = 2
    MaxAccepts = 1
    MaxResends = 1
INVARIANTS
    TypeOK
    ContainersNotShared
    FirstComeFirstServed
    PopFindsConnection
    EstablishedByItsClient
CHECK_DEADLOCK FALSE
