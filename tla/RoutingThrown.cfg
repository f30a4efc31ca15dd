SPECIFICATION RoutedSpec
CONSTANTS
    Patterns <- MCPatterns
    Methods <- MCMethods
    Changes <- MCChanges
    Files <- MCFiles
    Requests <- MCRequests
    Callbacks <- MCCallbacks
    ErrorCallbacks <- MCErrorCallbacks
    MaxCalls = 2
INVARIANT ThrownStatusIsAnswered
\* One request is handled, then nothing is left to do.
CHECK_DEADLOCK FALSE
