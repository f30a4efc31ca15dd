SPECIFICATION Spec
CONSTANTS
    p1 = p1
    p2 = p2
    Pages = {p1, p2}
    Sockets <- MCSockets
    Rooms <- MCRooms
    Precreated <- MCPrecreated
    Seeds <- MCSeeds
    Locations <- MCLocations
    New = "/new"
    Cap = 2
    Asked = 2
    FeedMax = 3
    RetryMax = 3
    TimeoutMax = 2
    MaxPosts = 1
    MaxStarts = 2
    MaxRefused = 1
INVARIANT UsersCounted
\* The pages give up and the server is not started any more.
CHECK_DEADLOCK FALSE
