SPECIFICATION Spec
CONSTANTS
    Ssl = {FALSE}
    Throwing = {FALSE}
    TimeoutMax = FALSE
    MaxRequests = 2
    MaxConnects = 2
    SizeModulus = 8
INVARIANT SerializedOnce
\* The caller stops calling connect().
CHECK_DEADLOCK FALSE
