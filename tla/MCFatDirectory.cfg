CONSTANTS
    Texts <- MCTexts
    Spellings <- MCSpellings
    Files <- MCFiles
    InitDirs <- MCInitDirs
    entriesPerCluster = 3
    MaxClusters = 2
    Tails <- MCTails
    End = End
    Garbage = Garbage
SPECIFICATION Spec
INVARIANTS
    ListedAsMade
    ShortsUnique
    ReadsAll
PROPERTIES
    
    ServiceSpec
