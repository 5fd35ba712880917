CONSTANTS
    Devices = {"d1", "d2", "blank"}
    InitVolumes <- MCVolumes
    Unformatted = Unformatted
    Clusters <- MCClusters
    Points <- MCPoints
    Paths <- MCPaths
    Modes <- MCModes
    Handles = {"h1"}
    Reads = {1, 3, 7}
    Offsets = {0, 15}
    bytesPerCluster = 2
    Wide = 16
    MAX_FILE_SYSTEMS = 1
    MaxMounts = 3
SPECIFICATION Spec
INVARIANTS
    PathsResolve
    ReadsFit
