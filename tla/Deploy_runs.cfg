SPECIFICATION FairSpec
CONSTANTS
    Runs = {r1, r2}
    Configs <- FourConfigs
    Binaries <- ThreeBinaries
    NoBinary = NoBinary
    MaxRebuilds = 1
INVARIANTS TypeOK YAMLMatchesImage
PROPERTIES OnlyPushesMayHang
CHECK_DEADLOCK FALSE
