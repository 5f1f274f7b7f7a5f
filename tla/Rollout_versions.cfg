SPECIFICATION FairSpec
CONSTANTS
    Unset = Unset
    Nothing = Nothing
    Versions <- TwoVersions
    Of <- Regrouped
    Uses <- MainUsesFoo
    MaxFaults = 1
INVARIANTS TypeOK RoutesWithinVersion VersionsAreIndependent ServicesReachListeners BabysittersMayWatch
PROPERTIES RolloutCompletes DeletionCompletes
CHECK_DEADLOCK FALSE
