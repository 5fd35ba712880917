---------------------------- MODULE StorageRegistry ----------------------------
(***************************************************************************)
(* How the kernel learns what disks and partitions there are: the AHCI     *)
(* driver registers the disks, and kernelMain then has a partition         *)
(* controller register the partitions of each (storage/block.c,            *)
(* storage/partition/partition.c, gpt.c, mbr.c).                           *)
(*                                                                         *)
(* Both registries are arrays of pointers with a limit of their own, and a *)
(* partition goes into both: its block device into one, the Partition that *)
(* points to it into the other.  `allocated' is what malloc gave out and   *)
(* free did not take back.                                                 *)
(*                                                                         *)
(* What the driver reads of a partition table is any table: the results of *)
(* its ReadBlockDevice calls are not looked at.                            *)
(***************************************************************************)
EXTENDS Integers, Sequences, FiniteSets

CONSTANTS
    Disks,              \* how many disks the AHCI driver identifies
    Entries,            \* the entries of a partition table
    MaxBlockDevices,    \* MAX_BLOCK_DEVICES, 256
    MaxPartitions       \* MAX_PARTITIONS, 1024

ASSUME CountAssumption == Disks \in Nat /\ Entries \in Nat
ASSUME LimitAssumption ==
    /\ MaxBlockDevices \in Nat /\ MaxPartitions \in Nat
    /\ MaxBlockDevices <= MaxPartitions

VARIABLES
    blockDevices,   \* the registry of block devices
    partitions,     \* the registry of partitions
    allocated,      \* the objects that exist: <<kind, disk, entry>>
    step,           \* what kernelMain is at
    disk,           \* the disk it is at
    limit,          \* how many block devices the partition scan looks at
    entry,          \* the table entry the controller is at
    count,          \* what the driver, or the controller, has counted
    reported        \* what register_blocks returned for each disk

vars == <<blockDevices, partitions, allocated, step, disk, limit, entry, count, reported>>

Device(d, e)    == <<"device", d, e>>     \* entry 0: the disk itself
Partition(d, e) == <<"partition", d, e>>
Physical(b)     == b[3] = 0               \* BLOCK_DEVICE_FLAG_PHYSICAL

Init ==
    /\ blockDevices = <<>> /\ partitions = <<>> /\ allocated = {}
    /\ step = "disks" /\ disk = 1 /\ limit = 0 /\ entry = 1 /\ count = 0
    /\ reported = <<>>

\* (A slip the checks must catch: one more than there is room for.)
AddOneMore(registry, x, max) ==
    IF Len(registry) <= max THEN Append(registry, x) ELSE registry

\* The registry with x in it, if there is room.
Add(registry, x, max) ==
    IF Len(registry) < max THEN Append(registry, x) ELSE registry

\* InitializeAHCIController: whether the registry took the disk is not looked
\* at, the disk is counted all the same.
AddDisk ==
    /\ step = "disks" /\ disk <= Disks
    /\ allocated' = allocated \cup {Device(disk, 0)}
    /\ blockDevices' = Add(blockDevices, Device(disk, 0), MaxBlockDevices)
    /\ disk' = disk + 1
    /\ count' = count + 1
    /\ UNCHANGED <<partitions, step, limit, entry, reported>>

\* GetBlockDevices: the scan stops where the registry ended when it began.
StartScan ==
    /\ step = "disks" /\ disk > Disks
    /\ step' = "probe"
    /\ disk' = 1
    /\ limit' = Len(blockDevices)
    /\ UNCHANGED <<blockDevices, partitions, allocated, entry, count, reported>>

\* RegisterPartitionBlocks: no controller knows the disk's scheme.
NoScheme ==
    /\ step = "probe" /\ disk <= limit /\ Physical(blockDevices[disk])
    /\ disk' = disk + 1
    /\ reported' = Append(reported, -1)
    /\ UNCHANGED <<blockDevices, partitions, allocated, step, limit, entry, count>>

\* The first controller that does is asked to register the partitions.
Probe ==
    /\ step = "probe" /\ disk <= limit /\ Physical(blockDevices[disk])
    /\ step' = "entries"
    /\ entry' = 1 /\ count' = 0
    /\ UNCHANGED <<blockDevices, partitions, allocated, disk, limit, reported>>

\* An entry is empty, or there is no memory for its device.
SkipEntry ==
    /\ step = "entries" /\ entry <= Entries
    /\ entry' = entry + 1
    /\ UNCHANGED <<blockDevices, partitions, allocated, step, disk, limit, count, reported>>

\* (A slip: both are registered, whatever the first answers.)
RegisteredBoth(dev, part) ==
    [devices |-> Add(blockDevices, dev, MaxBlockDevices),
     parts   |-> Add(partitions, part, MaxPartitions),
     ok      |-> Len(blockDevices) < MaxBlockDevices /\ Len(partitions) < MaxPartitions]

\* (A slip: the partition is registered first.)
RegisteredSwapped(dev, part) ==
    LET first == Len(partitions) < MaxPartitions IN
    [devices |-> IF first THEN Add(blockDevices, dev, MaxBlockDevices) ELSE blockDevices,
     parts   |-> Add(partitions, part, MaxPartitions),
     ok      |-> first /\ Len(blockDevices) < MaxBlockDevices]

\* RegisterBlockDevice(dev), and when it succeeds RegisterPartition(part).
Registered(dev, part) ==
    LET first == Len(blockDevices) < MaxBlockDevices IN
    [devices |-> Add(blockDevices, dev, MaxBlockDevices),
     parts   |-> IF first THEN Add(partitions, part, MaxPartitions) ELSE partitions,
     ok      |-> first /\ Len(partitions) < MaxPartitions]

\* (A slip: the count is not taken back.)
CountAll(ok) == count + 1

Counted(ok) == IF ok THEN count + 1 ELSE count

\* register_blocks of gpt.c and mbr.c: if either registry refuses, both
\* objects are freed, wherever they are by then.
AddEntry ==
    LET d    == blockDevices[disk][2]
        dev  == Device(d, entry)
        part == Partition(d, entry)
        r    == Registered(dev, part)
    IN
    /\ step = "entries" /\ entry <= Entries
    /\ blockDevices' = r.devices
    /\ partitions' = r.parts
    /\ allocated' = IF r.ok THEN allocated \cup {dev, part} ELSE allocated
    /\ count' = Counted(r.ok)
    /\ entry' = entry + 1
    /\ UNCHANGED <<step, disk, limit, reported>>

EndEntries ==
    /\ step = "entries" /\ entry > Entries
    /\ step' = "probe"
    /\ disk' = disk + 1
    /\ reported' = Append(reported, count)
    /\ UNCHANGED <<blockDevices, partitions, allocated, limit, entry, count>>

EndScan ==
    /\ step = "probe" /\ disk > limit
    /\ step' = "done"
    /\ UNCHANGED <<blockDevices, partitions, allocated, disk, limit, entry, count, reported>>

Next == \/ AddDisk \/ StartScan \/ NoScheme \/ Probe
        \/ SkipEntry \/ AddEntry \/ EndEntries \/ EndScan

Spec == Init /\ [][Next]_vars

-----------------------------------------------------------------------------
(* Properties *)

Kind    == {"device", "partition"}
Objects == Kind \X Nat \X Nat

\* The registries stay within their limits, and the scan within the registry.
TypeOK ==
    /\ blockDevices \in Seq(Objects) /\ partitions \in Seq(Objects)
    /\ Len(blockDevices) <= MaxBlockDevices /\ Len(partitions) <= MaxPartitions
    /\ allocated \subseteq Objects
    /\ step \in {"disks", "probe", "entries", "done"}
    /\ disk \in Nat \ {0} /\ limit \in Nat /\ entry \in Nat /\ count \in Nat
    /\ step \in {"probe", "entries"} => limit <= Len(blockDevices)
    /\ step = "entries" => disk \in 1 .. limit

\* Neither registry holds a pointer to an object that was freed.  The clean-up
\* frees both objects when either registry refuses, but takes nothing out: so
\* the second may never refuse what the first took.
NoDangling ==
    /\ \A i \in DOMAIN blockDevices : blockDevices[i] \in allocated
    /\ \A i \in DOMAIN partitions : partitions[i] \in allocated

\* The block device that a registered partition points to is itself registered,
\* so the scan's two lists tell the same.
PartitionsHaveDevices ==
    \A i \in DOMAIN partitions : \E j \in DOMAIN blockDevices :
        blockDevices[j] = Device(partitions[i][2], partitions[i][3])

\* register_blocks returns how many of the disk's partitions are registered,
\* also when a registry filled up on the way.
ReportsHold ==
    \A k \in DOMAIN reported :
        reported[k] # -1 =>
            reported[k] = Cardinality({i \in DOMAIN partitions :
                                          partitions[i][2] = blockDevices[k][2]})
=============================================================================
