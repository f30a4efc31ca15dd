SPECIFICATION Spec
CONSTANTS
    Ssl = {FALSE, TRUE}
    Throwing = {FALSE}
    TimeoutMax = FALSE
    MaxRequests = 2
    MaxConnects = 1
    SizeModulus = 8
INVARIANT ReturnCountsCompleted
\* The caller stops calling connect().
CHECK_DEADLOCK FALSE
