SPECIFICATION MCSpec
CONSTANTS
    Patterns <- MCPatterns
    Methods <- MCMethods
    Changes <- MCChanges
    Files <- MCFiles
    Requests <- MCRequests
    Callbacks <- MCCallbacks
    ErrorCallbacks <- MCErrorCallbacks
    MaxCalls = 4
    Threads = {Main, T2}
    Main = Main
    NoThread = NoThread
    Sessions = {s1, s2}
    Statuses = {e404, e500}
    Ssl = {FALSE, TRUE}
INVARIANTS
    AnsweredOnce
    EscapesOnlyWithoutStatus
    FirstRegisteredRouteRuns
    OtherStatusIsAnswered
    TableAsGiven
    TypeOK
    PageNamesStatus
    QuietReturn
    BlocksUntilSignal
PROPERTIES
    StopEndsListen
\* One request is handled, then nothing is left to do; listen() ends, and all
\* connections that may be accepted may have been.
CHECK_DEADLOCK FALSE
