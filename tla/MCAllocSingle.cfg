CONSTANTS
    MemoryMap <- MCMap
    Sizes <- MCSizes
    Aligns <- MCAligns
SPECIFICATION Spec
INVARIANTS
    LiveAligned
    Coalesced
    NeverOverdrawn
