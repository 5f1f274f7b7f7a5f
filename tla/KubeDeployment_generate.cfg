SPECIFICATION Spec
CONSTANTS
    Inputs <- SeveralInputs
    DepIds <- Runs
    Rank <- NameRank
    Unset = Unset
INVARIANTS TypeOK PartitionsComponents ConfigAgreesWithResources AutoPortsDistinct NeedsComeFirst HeaderIsTrue RerunKeepsOutline
CHECK_DEADLOCK FALSE
