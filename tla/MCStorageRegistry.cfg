CONSTANTS
    Disks = 3
    Entries = 3
    MaxBlockDevices = 7
    MaxPartitions = 8
SPECIFICATION Spec
INVARIANTS
    TypeOK
    NoDangling
    PartitionsHaveDevices
    ReportsHold
CHECK_DEADLOCK FALSE
