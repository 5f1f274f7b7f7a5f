SPECIFICATION Spec
CONSTANTS
    Unset = Unset
    Nothing = Nothing
    Versions <- TwoVersions
    Of <- TwoAccounts
    Uses <- MainUsesFoo
    MaxFaults = 0
INVARIANTS BabysittersMayWatch
CHECK_DEADLOCK FALSE
