SPECIFICATION HttpLoopSpec
CONSTANTS
    Attrs <- MCAttrs
    Requests <- MCRequests
    Callbacks <- MCCallbacks
    MaxRequests = 2
PROPERTY IdleTimesOut
\* A session ends: it is destroyed, or the server is down.
CHECK_DEADLOCK FALSE
