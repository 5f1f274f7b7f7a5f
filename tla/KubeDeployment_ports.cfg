SPECIFICATION Spec
CONSTANTS
    Inputs <- ExplicitPort
    DepIds <- Runs
    Rank <- NameRank
    Unset = Unset
INVARIANTS AutoPortIsAvailable
CHECK_DEADLOCK FALSE
