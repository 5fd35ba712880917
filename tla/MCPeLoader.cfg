CONSTANTS
    exe = exe
    lib1 = lib1
    lib2 = lib2
    fn1 = fn1
    fn2 = fn2
    Names = {exe, lib1, lib2}
    Functions = {fn1, fn2}
    Disks <- MCDisks
    Buckets <- MCBuckets
    BucketOf <- MCBucketOf
    Ids <- MCIds
    Faults = 2
    MaxDepth = 3
    Null = Null
    Nothing = Nothing
    Overrun = Overrun
SPECIFICATION Spec
INVARIANTS
    BindingsLive
    CountsExact
    LoadedOnce
    NothingForgotten
PROPERTY
    CallsReturn
CHECK_DEADLOCK FALSE
