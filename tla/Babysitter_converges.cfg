SPECIFICATION FairSpec
CONSTANTS
    p1 = p1
    p2 = p2
    p3 = p3
    Pods = {p1, p2}
    PodOf <- MCPodOf
    IPs = {a, b}
    NoIP = NoIP
    Calls = {g1, g2}
    NoCall = NoCall
    Components <- TwoComponents
    Groups <- OneGroup
    App = "app"
    DepId = "v1"
    Steps = 10
    MaxChanges = 3
    MaxBreaks = 1
    StreamsMayEnd = FALSE
    MaxUpdateErrors = 1
    MaxCreateErrors = 0
    MaxRestarts = 1
PROPERTIES Converges CancelStopsWatching EveryActivationIsServed
CHECK_DEADLOCK FALSE
