CONSTANTS
    MemoryMap <- MCMap
    Sizes <- MCSizes
    Aligns <- MCAligns
SPECIFICATION Spec
INVARIANTS
    TypeOK
    HeapOrdered
    LiveBacked
    UsedOwned
    LiveDisjoint
PROPERTY ServiceSpec
