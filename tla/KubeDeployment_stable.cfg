SPECIFICATION Spec
CONSTANTS
    Inputs <- OneProcess
    DepIds <- Runs
    Rank <- NameRank
    Unset = Unset
INVARIANTS StableYAML
CHECK_DEADLOCK FALSE
