CONSTANTS
    MemoryMap <- MCMap
    Sizes <- MCSizes
    Aligns <- MCAligns
SPECIFICATION Spec
INVARIANT NeverOverdrawn
