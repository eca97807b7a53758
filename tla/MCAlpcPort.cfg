SPECIFICATION FairSpec
CONSTANTS
    MaxCalls = 3
    MaxRequest = 2
    MaxReply = 3
    MaxConns = 2
    MaxDeaths = 1
INVARIANTS TypeOK InStep ClientsInStep
PROPERTIES ImplementsRemoteCall CallsReturn
CHECK_DEADLOCK FALSE
