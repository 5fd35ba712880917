CONSTANTS
    Root <- MCRoot
    Clusters <- MCClusters
    Beyond <- MCBeyond
    PerSector = 4
    SlotsPerCluster = 1
    Names = {a, b}
    MaxSize = 3
    MaxFaults = 1
SPECIFICATION Spec
INVARIANTS
    TypeOK
    ChainsApart
    HeadsOwned
    SizeCovered
    Accounted
    MirrorsClose
PROPERTY OthersUntouched
CHECK_DEADLOCK FALSE
SYMMETRY MCSymmetry
