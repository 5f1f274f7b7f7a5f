SPECIFICATION Spec
CONSTANTS
    p1 = p1
    p2 = p2
    p3 = p3
    Pods = {p1, p2, p3}
    PodOf <- MCPodOf
    IPs = {a, b}
    NoIP = NoIP
    Calls = {g1, g2}
    NoCall = NoCall
    Components <- OneComponent
    Groups <- OneGroup
    App = "app"
    DepId = "v1"
    Steps = 10
    MaxChanges = 4
    MaxBreaks = 1
    StreamsMayEnd = TRUE
    MaxUpdateErrors = 1
    MaxCreateErrors = 1
    MaxRestarts = 1
INVARIANTS TypeOK SingleWatcher LockIsReleased InSync RoutingFollowsAddrs OwnVersionOnly
PROPERTY RoutingOnlyMovesForward
CHECK_DEADLOCK FALSE
