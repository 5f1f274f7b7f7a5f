SPECIFICATION FairSpec
CONSTANTS
    p1 = p1
    p2 = p2
    p3 = p3
    Pods = {p1}
    PodOf <- MCPodOf
    IPs = {a}
    NoIP = NoIP
    Calls = {g1, g2}
    NoCall = NoCall
    Components <- OneComponent
    Groups <- OneGroup
    App = "app"
    DepId = "v1"
    Steps = 10
    MaxChanges = 2
    MaxBreaks = 0
    StreamsMayEnd = TRUE
    MaxUpdateErrors = 0
    MaxCreateErrors = 0
    MaxRestarts = 0
PROPERTIES RoutingIsUpToDate
CHECK_DEADLOCK FALSE
