SPECIFICATION MCSpec
CONSTANTS
    Attrs <- MCAttrs
    Requests <- MCRequests
    Callbacks <- MCCallbacks
    MaxRequests = 3
    s1 = s1
    s2 = s2
    s3 = s3
    Sessions <- Three
    Paths <- MCPaths
    Precreated <- MCPrecreated
    MaxPosts = 3
    TrioPosts = 2
INVARIANTS
    HttpTypeOK
    OneOperation
    Lockstep
    UpgradeLeavesNoReader
    LastResponseIsLast
    TypeOK
    ChannelsHoldLiveSessions
    OperationsKeepSessions
    WriteIsFront
    QueueIsDriven
    Fifo
    SameOrder
PROPERTIES
    ImplementsExchange
    RequestSettles
    SendsReachLiveSessions
    SentIsWritten
\* A session ends: it is destroyed, or the server is down.
CHECK_DEADLOCK FALSE
