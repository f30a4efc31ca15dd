SPECIFICATION HttpSpec
CONSTANTS
    Attrs <- MCAttrs
    Requests <- MCRequests
    Callbacks <- MCCallbacks
    MaxRequests = 2
INVARIANT UpgradeHandsOver
\* A session ends: it is destroyed, or the server is down.
CHECK_DEADLOCK FALSE
