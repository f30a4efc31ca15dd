SPECIFICATION MCSpec
CONSTANTS
    Ssl = {FALSE, TRUE}
    Throwing = {FALSE, TRUE}
    TimeoutMax = TRUE
    MaxRequests = 2
    MaxConnects = 3
    SizeModulus = 8
    Characters <- Alphabet
    Requests <- MCRequests
    Route <- Path
    MaxSends = 2
INVARIANTS
    TypeOK
    RightCallback
    CtxIsFront
    AnsweredInOrder
    QuietBetween
    RoundTrip
    FieldsAreRead
PROPERTIES
    ConnectReturns
\* The caller stops calling connect(); a request is handled once.
CHECK_DEADLOCK FALSE
