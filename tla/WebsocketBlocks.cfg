SPECIFICATION Spec
CONSTANTS
    s1 = s1
    s2 = s2
    s3 = s3
    Sessions <- Two
    Paths <- MCPaths
    Precreated <- MCPrecreated
    MaxPosts = 2
INVARIANT BlocksUntilSignal
\* Every session ends, or the server does.
CHECK_DEADLOCK FALSE
