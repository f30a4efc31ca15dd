SPECIFICATION ParamsSpec
CONSTANTS
    Characters <- Alphabet
    Requests <- MCRequests
    Route <- Path
    MaxSends = 2
INVARIANT TypedQueryIsRead
\* A request is handled once.
CHECK_DEADLOCK FALSE
